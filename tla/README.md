# Outline Server in TLA+

This directory specifies the Outline server repository in TLA+: the access
server, the manager that administers it and the installation in between. It has
modules translated from the TypeScript, JavaScript and shell sources, TLC configurations that
model-check them on small instances, and theorems that TLAPS proves for every
instance. Paths below are relative to the repository's `src/` directory unless
they start with `src/`.

1. [The system](#1-the-system)
2. [What is hard about it](#2-what-is-hard-about-it)
3. [Modules and how they correspond to the code](#3-modules)
4. [Runs](#4-runs)
5. [Fairness](#5-fairness)
6. [Proofs](#6-proofs)
7. [Where code and documentation disagree](#7-where-code-and-documentation-disagree)
8. [What is not modelled](#8-what-is-not-modelled)
9. [Plan](#9-plan)

## 1. The system

Outline is a VPN server and an application to manage it. On each server, one
Node process ("shadowbox") manages access keys and runs two child processes:
`outline-ss-server`, the proxy the users connect to, and Prometheus, which
records their traffic. The "server manager", an Electron application, creates
servers at a cloud provider and administers them over HTTPS. A "metrics server"
collects usage reports from servers whose administrator opted in.

| component | state it keeps | operations |
| --- | --- | --- |
| Access keys and data limits (`shadowbox/server/server_access_key.ts`, handlers in `manager_service.ts`, files through `infrastructure/json_config.ts`) | keys with their limit and over-limit mark, next id, default limit; the files `shadowbox_config.json` and `shadowbox_server_config.json` | create, delete and rename a key; set and remove a key's limit and the default limit; start; hourly enforcement |
| Proxy manager (`outline_shadowsocks_server.ts`) | the proxy's configuration file, the handle of its process | update: write the file, then spawn the process or send SIGHUP; start it again when it exits |
| Server composition (`main.ts`) | - | wires the two, opens the API *before* it awaits `start()`, logs unhandled rejections |
| Shared metrics (`shared_metrics.ts`) | sharing setting, start of the usage window, start of the report interval | start and stop sharing; hourly report of usage by country; daily report of features |
| Metrics server (`metrics_server/`) | two tables | validate and insert a report |
| Port and hostname settings (`manager_service.ts`, `infrastructure/get_port.ts`) | port for new keys, hostname, reserved ports | set port and hostname; reserve ports |
| Prometheus process (`infrastructure/prometheus_scraper.ts`) | - | start, wait until it answers, query |
| Rollouts (`infrastructure/rollout.ts`) | forced rollouts | is a rollout enabled |
| DigitalOcean server (`server_manager/web_app/digitalocean_server.ts`, `digitalocean_account.ts`) | droplet snapshot, install state, "install completed" in local storage | create, list, poll, time out, delete |
| GCP server (`gcp_server.ts`, `gcp_account.ts`) | instance, guest attributes, install state | create instance, address and firewall; poll; delete |
| Management client (`shadowbox_server.ts`) | cached server configuration, management URL | read and change a server's settings |
| Application (`app.ts`, `cloud_accounts.ts`, `manual_server.ts`, pages of `ui_components/`) | accounts, server list, selected server, page, dialog; tokens, manual servers and the last displayed server in local storage | connect and disconnect accounts; create, delete, enter, forget and select servers |
| OAuth flows (`electron_app/*_oauth.ts`) | a local web server per flow | run, cancel |
| GCP wizard (`ui_components/outline-gcp-create-server-app.ts`, `gcp_account.ts`) | page, project, billing accounts, an interval | set up a project, pick a region |
| A server's page (`app.ts`, `outline-server-view.js`, `outline-server-settings.js`, ...) | rows of keys, inputs, the copy of the configuration | change settings, keys and limits; refresh the transfer stats |
| Install scripts (`install_scripts/`) | a file of access data, tags or guest attributes of the machine | install, publish |
| Electron shell, Sentry webhook | - | see section 8 |

Who calls whom: HTTP requests reach the handlers of `manager_service.ts`, which
call the repository. The repository writes its files synchronously and calls
`ShadowsocksServer.update`, which writes the proxy's file asynchronously and
signals the process afterwards. The repository and the metrics publisher query
Prometheus over HTTP. The publisher posts to the metrics server. All of it is
one event loop: code between two `await`s is not interrupted, and everything
the code does not await goes on by itself. In the manager, events of the pages
reach the handlers of `App`, which await the provider's API, the management API of
a server, a dialog or a timer and then change the pages, the accounts and local
storage; handlers overlap freely. On a new machine, the provider's script follows
the file that the installer appends to and publishes its lines, which the manager
polls.

What makes each component correct:

* **keys:** the proxy is always asked for the keys that exist and are within
  their limits; memory and disk agree; deletions survive restarts and ids are
  not reused; the marks follow the limits that are in force, whichever
  enforcement finishes last.
* **proxy:** the process ends up serving the last update, whatever it did
  while the file was written; no reload is lost; a deleted key is refused.
* **metrics:** usage is counted once, in the interval a report claims, and
  reporting goes on after failures.
* **server manager:** a server's installation ends in exactly one of success,
  error and deletion, and the waiting application hears of it; nothing that costs
  money is left behind unseen.
* **application:** list, selection, accounts and local storage stay consistent
  whatever order answers come in; what the user signed out of, deleted or
  cancelled does not come back.
* **a server's page:** it ends up showing what the server has, whichever page the
  user was on meanwhile.

## 2. What is hard about it

`PROJECT.json` lists each hazard at its line, with the properties that cover it.
A note says where those properties except the very case the hazard describes: the
code does go wrong there, the model shows it, and what is checked is that it goes wrong
in no other way.
The main ones:

* *Calls nobody awaits.* A deletion, an hourly enforcement and a change of a
  limit start updates and queries that overlap with whatever comes next.
  `fs.writeFile` truncates, writes and closes in separate steps, so two updates
  of one file can mix or land in the wrong order.
* *Samples applied late.* Several enforcements can be waiting for Prometheus at
  once; their answers are applied in any order, to limits that changed in between.
* *Failures that are swallowed.* A failed write of a JSON file is logged, and
  the request succeeds; a failed query is logged, and limits stay unenforced for
  an hour; a rejected update in the middle of a POST is an unhandled rejection.
* *Restarts.* Marks are not stored. The API is open while `start()` still waits.
* *Signals.* SIGHUP is sent to a process that may be starting, dead, or not there.
* *Reports.* The start of the next interval is advanced before the post, the
  usage counter after it; posts fail, are rejected, or are accepted without the
  answer arriving.
* *Handlers of the manager.* Each is a chain of awaits, between which the user
  signs out, selects another server, starts the same thing again or closes the
  manager; `selectedServer`, the accounts, the project and the page are read
  again after the await, or are not.
* *Several requests for one thing.* A GCP server is a firewall rule, an instance and
  an address, a project is a project, a billing link and a service: any request may
  fail between two of them, and errors of operations are not looked at.

## 3. Modules

One action is one stretch of code between two awaits. A promise that somebody
waits for is state. Data no decision depends on (names, passwords, ports of
keys, formatting, logging) is left out; an access key is its id.

| module | models | constants |
| --- | --- | --- |
| `AccessKeyRepository` | `ServerAccessKeyRepository`, the handlers calling it, the two JSON files | `MaxId`, `MaxUsage`, `Tasks`, `MaxFaults` |
| `ShadowsocksServer` | `OutlineShadowsocksServer`, the file it writes, the process that reads it | `MaxId`, `Writes`, `Unsupported`, `MaxCrashes` |
| `ProxyAccess` | abstract: what a caller that waits for each `update` may rely on | `Keys` |
| `Shadowbox` | both, connected as in `main.ts` | all of these |
| `SharedMetrics` | the publisher and the metrics server's `POST /connections` | `Transfers`, `Calls`, `MaxTransferred`, `MaxFaults` |
| `ServerInstall` | abstract: what the application may rely on while a cloud server is installed | - |
| `DigitalOceanServer` | `DigitalOceanServer` on its droplet, with the application's part in adding and deleting it | `Polls`, `MaxFaults` |
| `InstallScript` | `install_server3.sh` on a GCP instance and `gcp_install_server.sh` that publishes what it writes | `MaxFaults` |
| `GcpServer` | `GcpAccount.createServer`, `GcpServer` and its host, on an instance that runs `InstallScript` (which it extends) | `MaxFaults` |
| `GcpCreateServer` | the wizard `GcpCreateServerApp` and the requests of `GcpAccount` it awaits | `Projects`, `Starts`, `MaxTaps`, `MaxFaults` |
| `ManagerApp` | `App` with cloud accounts, manual servers, sign-in sessions, pages and the dialog | `Droplets`, `Instances`, `Urls`, `Users`, `Owner`, `Flows`, `MaxTaps`, `MaxFaults` |
| `ServerManagement` | a server's page, the handlers behind it, the client object and the management API | `Servers`, `First`, `MaxKeys`, `MaxTaps`, `MaxFaults` |
| `AccessKeyRepositoryProofs`, `ShadowsocksServerProofs`, `ShadowboxProofs`, `SharedMetricsProofs`, `DigitalOceanServerProofs`, `GcpServerProofs`, `ManagerAppProofs`, `ServerManagementProofs` | theorems about the module each is named after; `GcpServerProofs` also about `GcpCreateServer`, `ShadowboxProofs` also how `Shadowbox` implements `AccessKeyRepository` | - |
| `MC...` | model values and symmetry for TLC | - |

**AccessKeyRepository.** `keys`, `limits`, `over` and `nextId` are the array
`accessKeys` and `keyConfig.data()` in memory, `keyFile` and `configFile` what
the files hold. `tasks` has one entry per outstanding call of
`enforceAccessKeyDataLimits`: *querying* until Prometheus has evaluated the
query, then *answered*, with the sample it evaluated, until the continuation
runs. The two are separate because between them the usage and the limits
change. `phase` is how far `start()` has come, `creating` the POST that waits
for its update. A request is an action (`CreateNewAccessKey`,
`RemoveAccessKey`, ...) that includes its save and its call of the proxy; the
continuation of an enforcement is `LimitStatusChanged` or
`LimitStatusUnchanged`. A save can fail (`Fault`): `FileConfig.write` swallows
the error, the request goes on. `Restart` boots a process from the files. The
variable `requested` is the argument of the last call of
`shadowsocksServer.update` in this process. History variables (`removed`,
`unsaved`, `lost`, `missed`, `lastSample`) are read by properties only.

**ShadowsocksServer.** `writes` has one entry per write of the configuration
file that is under way: *opening*, *truncated*, *written*; `Overlay` says what
the file can hold when one text is written over another (the longer text's end
remains, which is further entries or garbage). `Signal` is the callback: it
spawns the process the first time, else sends SIGHUP, which ends a process that
has not installed its handler yet. The process reads the file when it starts and
when it handles the signal; `ExitEvent` is the `exit` handler that starts it
again; after a failed spawn there is no such event (`SpawnFails`).

**ProxyAccess** keeps what a read of the configuration can give (`readable`)
and what the proxy serves. After a fulfilled update only the keys wanted are
readable. `ShadowsocksServer!ImplementsAccess` is the refinement: `wanted` is
the last update without the keys whose cipher is unsupported, `busy` is "a write
is under way", `rejected` that the last write failed, and `readable` is computed
from the file and the writes.

**Shadowbox** shares all variables with the two modules by `INSTANCE`. A step of
the repository that calls `updateServer` is one step with `Proxy!Update`; the
end of a write is one step with the continuation of whoever waits for it: the
answer to a POST, the next stretch of `start()`, or nobody.

**SharedMetrics** represents traffic as a set of transfers. `window` is the
traffic since `resetTimeMs` (what a report counts), `interval` the traffic since
`reportStartTimestampMs` (what a report claims to count). `calls` has an entry
per outstanding hourly callback. `IsValidReport` is the validation of the metrics
server; a removed key has no metrics id any more, and its user report is invalid.

**ServerInstall** is the interface `ManagedServer` as the application uses it:
one outcome per run of the manager, a success only if the machine published how
to reach it, a deletion only if the machine is gone, and `waitOnInstall`
settles with that outcome.

**DigitalOceanServer** has the droplet (`tags`, `exists`), the object in the
manager (`installState`, `apiUrl`, `polling` for its interval, `late` for its
timeout), the calls of `refreshDropletInfo` that are outstanding (`refreshes`:
*asked*, then *answered* with the tags at that time or *failed*), the flag in
local storage (`completed`), and the application's `waiter` and `deletion`. The
interval does not wait for its refresh, so several are under way. `Restart` is a
new run of the manager that lists the droplets; its object looks at that
list's tags in its constructor, and `addServer` waits unless `completed` is set.
The script on the droplet may publish its two tags in either order, an error, or
stop without a word. Mapping to `ServerInstall`: `published` is "both tags are
there", `gone` is `~exists`, `outcome` is `installState`.

**InstallScript** runs two scripts side by side. `step` is how far
`install_shadowbox` has come in its list of steps; `OutputConfig` says which
steps append a line to `ACCESS_CONFIG`, which is written in its order. The
loop behind `tail` reads a line and posts it; `curl` runs without `--fail`, so a
request that is refused counts as done and only one that is not answered breaks
the loop. When `tail` ends, the EXIT trap looks at the *file* and publishes an error
if it is incomplete. The container may take any time to serve, or never do:
`wait_shadowbox` has no limit.

**GcpServer** makes the firewall rule, the instance and its static address in
order (`creating`); after a failure or a restart nobody waits (`abandoned`),
but the request that was sent may still be executed. `waiter` is `waitOnInstall`:
*checking* the state, *asking* for the attributes, *answered* with those of that
moment. A failed request counts as no attributes. `Delete` frees the address,
which must be there, and then drops the instance without awaiting it
(`dropping`). The wait for the operation that frees the address does not look at its
error and may end before it is done (`gcp_api.ts:481`), so `StaticIpDeleted` may leave the
address (`releasing`), which `AddressReleased` frees later, or never. `Restart` lists
the instances of the project again. It is not a refinement of `ServerInstall`: a deletion can be overwritten by what an
earlier answer said, and a deletion is announced before the machine is gone.

**GcpCreateServer.** `start()` runs each time the user comes to the page and is
never cancelled, so `starts`, `refreshes` and `pickers` are sets of calls under
way, each at its await, and `live` is the set of intervals that nobody cleared,
of which the wizard remembers one (`loop`). What a run of `start()` read before an
await it reads again after it, except the health it was answered for one project
(`of`). `cloud` has the user's projects, those that are billed and those that have
the service. Errors of operations are ignored as in the code: `ProjectCreated`
and `ServicesEnabled` go on after one.

**ManagerApp.** `app` is what code between two awaits reads and writes: `App`,
`AppRoot` and local storage (`stored` and `legacy`: tokens; `manual`: servers
entered by hand; `lastDisplayed`). The operators on it (`RemoveServers`,
`Disconnect`, `ShowServer`, ...) are the methods of the same names. The other
variables are the handlers that wait: per provider the flows that sign in or load
(`loads`), what the cancel button is bound to (`onCancel`, which is the
*latest* flow's or the wait for activation), the calls of
`ensureActiveDigitalOceanAccount` (`activation`), the requests to create, delete
or check a server, and who waits for the one dialog that exists (`dialog`;
opening it again leaves the earlier caller unanswered). The user taps what the
page shows (`TapOn`, `Visible`), at any moment.

Each provider has the accounts of several `Users`, and each server belongs to one of
them (`Owner`). A sign-in connects any user's account in place of the one that is there.
A load or a creation remembers the account its request was sent to (`of`; the wizard of GCP
the one it was opened with), and what it is answered with are that account's servers; but
whether they are listed depends on the account that is connected by then
(`ServersListed`, `CreationAnswered`, `GcpServerCreated`), as in the code. `mixed`, a history variable, has the
providers whose account was connected while servers or requests of another one were
still there (`OthersThan`).

`Init` is a first start on any stored accounts and any token of an older version;
`Restart` closes the manager and starts it on what it stored, including manual servers and
the server displayed last. `LoadAccounts` is `CloudAccounts.load`: it saves only when it
migrates such a token, and does so before it reads GCP's account, which the save removes.

**ServerManagement** has, for each server, the server itself (`server`), the
client's copy of its configuration (`cache`) and its page (`view`). A request is
named by what made it and is first executed by the server (`Execute`), then
handled in the manager (`...Answered`, `Failed`), and may go on with another
(after a load the list, after the list the stats). Handlers that read
`selectedServer` after their await use `selected` at that moment. `waits` is
whether `isHealthy` still listens to its request. The history variable
`disturbed` holds the servers of which a request failed, or overlapped with one
about the same thing.

## 4. Runs

| run | instance | shows |
| --- | --- | --- |
| `repository_limits` | 1 key, limits 0, 1 and none, start's and two other enforcements, 1 fault | `TypeOK`, `FilesInSync`, `KeysDurable`, `ProxyInSync`, `LimitsEnforced`; under fairness `EnforcementConverges` |
| `proxy_serial` | 3 keys, one of them unsupported, serial callers, 2 crashes | `TypeOK`, `UpdatesEventuallyServed`, `ImplementsAccess` |
| `shadowbox_keys` | 2 keys, 2 writes at once, 1 fault, 1 crash | `NoLostReload`, `EnabledKeysServed`, `NoUnknownKeyServed`, `RemovedKeysRefused` |
| `shadowbox_converges` | 1 key with usage and limits, 1 write, 1 crash | under fairness `LimitsReachProxy` |
| `metrics_reports` | 2 keys, 3 transfers (one sanctioned), 2 callbacks, 1 fault | `TypeOK`, `CountedOnce`, `UsageInInterval`; under fairness `ReportsGoOn` |
| `digitalocean_install` | 2 refreshes at once, 2 faults | `TypeOK`, `ErrorHasCause`; under fairness `ImplementsInstall` |
| `manager_app` | 2 users, a server of one of them at each provider and a manual one, 1 sign-in flow per provider, 3 taps, 1 fault; 2.2 million states | `TypeOK`, `ListedServersKnown`, `NoServerOfSignedOutAccount`, `SignOutIsStored`, `SelectionListed`, `StoredManualServersListed` |
| `gcp_server` | one instance, 3 faults (a failed operation on the address is one) | `TypeOK`, `NoIdleAddress`, `FulfilledForCause`; under fairness `InstallHeardOf`, `DeletedInstanceStops` |
| `gcp_setup` | 2 projects, 2 runs of `start()`, 6 taps, 2 faults | `TypeOK`, `ServerInHealthyProject`; under fairness `BillingAccountNoticed`, `WizardShowsAPage` |
| `server_management` | 2 servers, 2 keys, 2 taps, 1 fault | `TypeOK`, `ViewsAgreeAtRest`; under fairness `RowLimitsConverge`, `ViewDecided` |
| `shadowbox_delete`, `metrics_optin` | small | section 7 |

What the properties say and why they are not obvious:

* `ProxyInSync`: five call sites of `updateServer`, one of them behind the
  test "did a status change", always leave the proxy asked for `keys \ over`.
* `LimitsEnforced`: enforcements are started by requests and timers and
  finish in any order. The marks are still those of the *current* limits on the
  last sample, because limits are read when the answer is handled and each
  change of a limit starts an enforcement of its own.
* `EnforcementConverges`: samples can be applied out of order, so the mark
  of a key can be older than the last query; the hourly enforcement repairs it.
* `KeysDurable`: nothing deleted comes back and no id is reused, over
  restarts that find the files up to date. It fails without that condition, as
  the swallowed write error lets a DELETE succeed that is not on disk.
* `NoLostReload`: any order of overlapping writes, signals, crashes and starts
  leaves a pending signal whenever the process serves other keys than the file lists.
* `EnabledKeysServed`: at rest the proxy serves what was
  asked last, *unless updates overlapped or the last write failed*; the
  condition is needed, see `DeletedKeyRefused` in section 7.
* `RemovedKeysRefused`: the exact condition under which a deletion is effective. A
  removed key is refused at rest, unless the last updates overlapped or failed, or a
  restart came before a save that had failed was made up for (the id may then be given
  to another key).
* `CountedOnce`, `UsageInInterval`: what a report counts and claims, as
  long as callbacks do not overlap and no answer is lost (resp. no post failed).
* `ImplementsInstall`: whichever of refresh, timeout, failure and deletion comes
  first decides, nothing overrides it, and the waiter is told, even if the
  script on the droplet never publishes anything.
* `ErrorHasCause`: without failed requests an error has one of three reasons; late
  answers and a tag that is still missing are none.
* `ListedServersKnown`, `SelectionListed`: the drawer, the map of servers and the
  selection are changed by loads, creations, deletions, sign-outs and the end of
  `start()`, in any order, and still agree.
* `NoServerOfSignedOutAccount`: a list of servers or a new server that arrives
  after a sign-out is not listed, because each handler reads the account again. It does
  not look at *which* account that is: when another user has signed in meanwhile, the
  servers of the former account are listed as the new one's (section 7). The property says
  that this has no other cause: unless a sign-in found servers or requests of
  another account (`mixed`), what is listed belongs to the account that is connected.
* `SignOutIsStored`: a start connects the accounts that are connected now, also when the
  browser delivers a token while the user cancels. The token of older versions could
  break it twice, by bringing back an account that was signed out, and by a
  migration at a later start, which would lose the account of GCP.
* `StoredManualServersListed`: a server that was stored before its check failed
  leaves nothing behind, also when the manager is closed during the check.
* `NoIdleAddress`: whatever fails between the requests that make and unmake a
  server, and however late the address is promoted, no address is left that the manager
  cannot find, *unless the operation to delete it failed or took too long*, which the code does
  not notice (section 7). The price is that a server without an address cannot be deleted
  (`StaticIpNotFound`), a TODO of the code.
* `FulfilledForCause`: an installation counts as done only when Shadowbox serves and
  has its first key, or the user deleted the server; this rests on the order of the
  installer's steps, which is two scripts and a file away from the manager.
* `InstallHeardOf`: the end of an installation reaches the manager, *unless a
  request of the script itself failed*: then neither the attributes nor an error are
  there, and the manager polls for ever.
* `ServerInHealthyProject`: of a user with one project; with two, another run of
  `start()` may exchange the project between the check and the choice of a region.
* `BillingAccountNoticed`, `WizardShowsAPage`: overlapping runs of `start()` do
  not lose the interval, and only a failed request leaves the page blank.
* `ViewsAgreeAtRest`: rows, settings and the copy of the configuration are those of
  the server, whatever other page was shown when the answers came, *unless a request
  failed or two were about the same thing* (section 7).
* `RowLimitsConverge`: stats answered out of order, or those of another server, are
  corrected by the interval as long as it runs.

Every property of a passing run has a mutant in `PROJECT.json`: a change of one
mapped definition, of the kind a plausible bug would make, under which TLC finds
the property violated. The mutated operators stand beside the originals, marked
"mutant".

**Bounds.** They are constants, named in each module and used in guards.
Two keys are the fewest for one to be deleted while another exists and for
overlapping writes to differ in length; three in `proxy_serial` add one with an
unsupported cipher. Three enforcements are start's and two that can overtake
each other. One fault or crash is enough where the property's failure
needs one; the proofs of section 6 hold for any number. Limits 0 and 1 with
usage up to 1 give below, at and above a limit. `shadowbox_keys` leaves out usage
(`MaxUsage = 0`) and `shadowbox_converges` has it with one key; together they
would exceed five minutes. `shadowbox_keys` has only start's own enforcement,
so the instance can come to rest, and deadlock is not checked there.

`digitalocean_install` has two refreshes, so that an older answer can be handled
after a newer one, and two faults: a lost request and a restart. A deleted server,
or one whose outcome is known, is at rest: deadlock is not checked there either.

In `manager_app`, one server at each provider and one manual server are the
fewest that can be confused; three taps reach every page and the interplay of two
requests with a sign-out, as loads and dialogs cost no tap, and `Init` starts from
every pair of stored accounts with every token of an older version. Of the two users one
has the servers, which is enough for a server to be listed under the wrong account.
`gcp_server` has three faults: a request that failed while the server was made, one
request or operation while it was deleted, and a restart. Two
projects and two runs of `start()` are the fewest for one to act on what the
other changed; six taps go through the wizard once and leave it and come back. Two
servers are the fewest for an answer to meet the wrong page; only the page of the
first is used, the other is looked at.

Symmetry is used for safety only: writes in `shadowbox_keys`.

## 5. Fairness

Fair (weakly) is what Node, the operating system and Prometheus do unasked:
the next step of a write, the continuation of a settled promise, the start, reload and
exit event of the process, an answer of Prometheus, the hourly timer, an answer
to or failure of a post; in the manager, the polling interval, the answer to or
failure of a refresh, the passing of five minutes and the 100 ms poll of
`waitOnInstall`; at GCP each request that was sent, and the five seconds between two
polls; the wizard's interval and requests; the interval of the transfer stats, the time
limit of `isHealthy` and the answers of the management API except to the health check,
which may hang. Nothing on a machine that is being installed is fair. No HTTP request, no change of usage and no fault is
fair. The timers are `setInterval`s that are never cleared
(`server_access_key.ts:116`, `shared_metrics.ts:169`) or are cleared by the
modelled step only (`digitalocean_server.ts:134`), and the clients have
connection timeouts of the platform, which is why an answer or a failure
eventually comes. Liveness properties are conditional on usage, keys, limits and
failures coming to rest.

## 6. Proofs

Each proof module states its theorems for every value of the constants that satisfies
the assumption of the component's module. These say that bounds are naturals and that
special values (`NoLimit`, `None`, ...) are not ordinary ones; most theorems do not
use them. Nothing is said of how many keys, calls, writes, servers or faults there are.
The theorems about the wizard, which is an instance of `GcpCreateServer` inside
`GcpServerProofs`, and those that `ShadowboxProofs` inherits from the repository state
what they need of it as a hypothesis. Every inductive invariant was first checked with
TLC on the instance of the component's run.

| module | theorem | property |
| --- | --- | --- |
| `AccessKeyRepositoryProofs` | `TypeCorrect` | `TypeOK` |
| | `ProxyAskedForEnabledKeys` | `ProxyInSync` |
| | `FilesHoldMemory` | `FilesInSync` |
| | `KeysSurviveRestarts` | `KeysDurable` |
| | `MarksFollowLimits` | `LimitsEnforced` |
| `ShadowsocksServerProofs` | `TypeCorrect` | `TypeOK` |
| | `ReloadsNotLost` | `NoLostReload` of its module |
| | `AccessImplemented` | `ImplementsAccess`, under `SerialSpec` |
| `ShadowboxProofs` | `OnlyKnownKeysServed` | `NoUnknownKeyServed` |
| | `ReloadsNotLost` | `NoLostReload` of its module |
| | `EnabledKeysAreServed` | `EnabledKeysServed` |
| | `RepositoryImplemented` | `Repo!Spec`: `Shadowbox` implements `AccessKeyRepository` |
| | `RepositoryGuarantees` | the five invariants of the repository, in the composition |
| | `RemovedKeysAreRefused` | `RemovedKeysRefused` |
| | `LimitsAreServed` | `LimitsServed` |
| `SharedMetricsProofs` | `TypeCorrect` | `TypeOK` |
| | `NothingCountedTwice` | `CountedOnce` |
| | `ReportsMatchTheirInterval` | `UsageInInterval` |
| `DigitalOceanServerProofs` | `TypeCorrect` | `TypeOK` |
| | `PollsUntilDecided` | `PollingGoesOn` of its module |
| | `ErrorsAreCaused` | `ErrorHasCause` |
| | `InstallImplemented` | `Install!SafetySpec`, the safety part of `ImplementsInstall` |
| `GcpServerProofs` | `TypeCorrect` | `TypeOK` |
| | `NoOtherAddressLeftBehind` | `NoIdleAddress` |
| | `FulfilmentJustified` | `FulfilledForCause` |
| | `EndIsHeardOf` | `StillAsking` and `EndReported`, the safety core of `InstallHeardOf` |
| | `WizardTypeCorrect` | `TypeOK` of `GcpCreateServer` |
| | `ServersInHealthyProjects` | `ServerInHealthyProject` of `GcpCreateServer` |
| | `BillingPageIsRefreshed` | `BillingPage`, the safety core of `BillingAccountNoticed` |
| | `BlankPageIsTemporary` | `BlankPage`, the safety core of `WizardShowsAPage` |
| `ManagerAppProofs` | `TypeCorrect` | `TypeOK` |
| | `ListAndMapAgree` | `ListedServersKnown` |
| | `SignedOutServersAreGone` | `NoServerOfSignedOutAccount` |
| | `SignOutOutlivesRestart` | `SignOutIsStored` |
| | `SelectionIsListed` | `SelectionListed` |
| | `StoredServersAreListed` | `StoredManualServersListed` |
| `ServerManagementProofs` | `TypeCorrect` | `TypeOK` |
| | `PagesAgreeAtRest` | `ViewsAgreeAtRest` |

**The repository.**
`TypeOK`, `ProxyInSync` and `FilesInSync` are inductive (the latter two
relative to `TypeOK`): a step that changes keys or marks calls `updateServer`
with what it leaves, and a step that saves stores what it leaves. `KeysDurable`
is not. A POST whose update is settled only now makes its key "answered", so
`KeysRemembered` adds the keys whose POST still waits; and a restart preserves it
because `FilesInSync` says that the files hold what memory held
(`RestartUpToDate`). `LimitsEnforced` needs `FreshUnused`: an id that was not
given out has no usage, in no sample either, so that a key created between two
enforcements does not change what the last one would have marked.

**The proxy manager.** `NoLostReload` is inductive as it stands, over any overlap of
writes: a write is unsettled from its first change of the file to the signal, and the
signal leaves a SIGHUP, a process that reads the file when it starts, or none. The
refinement needs that updates come one at a time. Then one write at most is under way
(`OneWrite`), it has the keys of the last update, and from the moment it opened the
file the content is its own (`WriteOfLastUpdate`). So what `ProxyAccess` may read is
either the keys before the update or the keys wanted, and the initial states and each
step map to those of `ProxyAccess` or to a stutter.

**The composition.** For the proxy manager the proof does not reuse the theorems
about the part alone, since `Next` of `Shadowbox` has steps that are none of its own (a
continuation that starts the next update in the same step). `StepKinds` first says what each step is for the
proxy: an update with the keys that are enabled *afterwards* (`AsksAnew`,
`AsksAgain`), something the proxy manager does by itself, or a restart. `KnownInv` adds to
`NoUnknownKeyServed` that the file and every write have only ids that were given out; a
restart may lower `nextId` to that in the file, which is why the file of the
proxy counts only once the new process has started or written.
`ServedInv` has `AskedForEnabled` (the last update is the one with the enabled keys) and,
unless updates overlapped, that the write under way is that of the last update and the file
is once there is none.

The repository's side is reused. `RepositoryImplemented`: every step of `Shadowbox` is
one of `AccessKeyRepository` or leaves its variables alone, so what is proved of the
repository holds while the proxy writes, fails and crashes (`RepositoryGuarantees`).
(`SameRepository` only says that the instance `Shadowbox` makes of the module and the one
the theorems are about are the same.) The two halves meet in the last two theorems:
"the proxy serves the enabled keys" with `KeysDurable` gives `RemovedKeysRefused`, and with
`LimitsEnforced` gives `LimitsServed`, that at rest the proxy accepts exactly the keys
whose usage in the last sample is within the limits of now. No run lists `LimitsServed`,
as the runs of `Shadowbox` have either usage or more than one key; it was checked on a larger
instance that takes longer than five minutes, and `LimitsReachProxy` is its live form.

**The metrics.** `CountedOnce` and `UsageInInterval` are about a callback that is under
way, and need to know what the next one will find. `NothingAcceptedIsReported`: neither the
window nor what a callback has got from its query was accepted before, except between an
accepted report and its reset. `WindowInInterval`: the window is part of the
interval, except between the end of the interval and the reset. Both hold only
while one callback at most is under way (`OneAtATime`). `SanctionedLeftOut` makes
the usage that is posted a part of the one that was queried, whatever the filter took out.

**A DigitalOcean server.**
`PollingGoesOn` is inductive. The other two need `AnswersTrue`: tags are only
added, so what an answer brings, however late, the droplet still has; a refresh
that failed did so for a fault or because the droplet is gone; and a deletion is
answered only when it is. With it, a state that is set is one that
`ServerInstall` finds justified, and each step maps to one of its steps or a stutter.

**A GCP server.** The address is freed and the
instance dropped by two requests that nothing ties to each other, and the
request that promotes the address may be late as well. The invariant that is inductive
for `NoIdleAddress`, `AddressInv`, adds two facts: an address that exists or was deleted
has been promoted, and `createServer` is past that step for good
(`AddressAfterPromotion`); and once the deletion of the address was answered, or the
request to delete the instance is under way, there is no address, or the operation that
deletes it was not seen to succeed (`FreedBeforeDropped`).
Nothing about the script on the instance is used. `FulfilledForCause` is the opposite: it is
about the script only. How far `install_shadowbox` has come determines the lines of
`ACCESS_CONFIG` (`ConfigOfStep`; the order of its steps is the lemma `StepsInOrder`) and what
serves (`ServesAfterWaiting`); an attribute that is published, or was in any answer the
manager got, was in the file (`PublishedFromFile`, `UrlFromFile`); and each outcome has
the one reason the loop had for it (`OutcomeForCause`).
`EndIsHeardOf` is the converse: as long as no request of the script failed, its end leaves
both attributes or an error. `ReportInv` says that the loop has published every line it is
past, that it is never broken, and that `tail` ends with every line read, so that the trap, which
looks at the file, cannot be wrong about what was published.

**The wizard.** `TypeOK` of `GcpCreateServer` is not inductive: a setup that goes on
makes the project it was begun for the wizard's, so `WizardTyped` adds that a setup under
way has one. `HealthyInv` is what `ServerInHealthyProject` needs: only projects that exist
are billed, and once the region picker was shown or a server created, *some* project is
healthy, whichever call got that answer; it stays healthy, as nothing in the wizard
unlinks a project. Of a user with one project, that is the project in which the server is
created; with two the invariant holds and says less.
The two liveness properties would fail on a page that waits for something nobody is
going to do. `BillingPage`: the billing page is shown only with an interval that was not
cleared and that the wizard knows, although overlapping runs of `start()` set and clear
intervals after their awaits. It is inductive as it stands. `BlankPage`: without a
failed request, while no page is shown a run of `start()` or a health check of the region
picker is under way. It needs `BillingInv`: no project is checked in the picker, set up or
offered for setup before the wizard has seen a billing account, without which the
picker's answer would show no page.

**The application.** `app` is one record that every handler changes in a few of fifteen
fields, so most of `AppInv` is a predicate `SessionOK` of *any* such record: list and map are
the same set, what is stored is what is connected, no server is listed of an account that
is not connected, none of another account unless accounts were mixed, and the selection is
listed and recorded. For a start it also says that there is no token of an older
version without an account of DigitalOcean, so that `LoadAccounts` migrates nothing. One lemma per method
(`RemoveServers`, `ShowServer`, `Disconnect`, ...) says that it keeps `SessionOK`,
and under which condition: adding servers needs that their account is connected,
showing one that it is listed. An action is then a chain of such lemmas, and the guards that the
handlers read again after an await are exactly what discharges the conditions.
Whose servers an answer brings is not something a handler reads, so the invariant
says it of the requests: a server that was created belongs to the account that was asked
(`CreatedOwn`), and the requests under way that may still add servers were sent to the
account that is connected, unless accounts were mixed (`RequestsOwn`). A sign-in is the
step that can break the latter, and `OthersThan` is what it would have to find.
`StoredManualServersListed` needs to know that the server whose check ends is the one
that was stored when it began, over dialogs in between: `RequestsNamed` and `DialogAwaited`.

**A server's page.** What `ViewsAgreeAtRest` says of a server at rest follows from what
`Agrees` says of it at any time, as long as nothing disturbed it: how far page, copy and
server may be apart, by the requests under way. `SettingsAgree`: a setting differs only
while it is being set, and the answer to a load holds what the server has. `KeysAgree`: a
key is missing on the page only between the server's making it and the handling of
the answer, and one too many only between its removal and that of the answer; no two
answers add the same key; a list that was asked for is the one the server has. `Apart` is
what "no two requests about the same thing" means for requests that exist together.
The rest is for *every* server, also one with failures: `KeysMade` says that a key which
is shown or was asked for was made once, and that at most one request has removed it.
So a key that is added is none that a removal is under way for, and the row
of a removed key has gone when the one answer to its removal was handled. Stats, which
after a change of the limit may be those of the server that is selected by then, change
limits in rows and never which rows there are.
The lemmas about rows (`RowsOfList`, `RowsUpdated`, `RowAppended`, `RowRemoved`) say which keys
a list shows after each change, once each; `Rows` and `RemoveRow` are written as functions
for their sake, since the provers know nothing of recursive operators.

Model-checked only: everything about liveness (the provers have no support for
`ENABLED`, hence for fairness), including the fair part of `ImplementsInstall`, and
`RowLimitsConverge` and `ViewDecided` of `ServerManagement`. Of `BillingAccountNoticed`,
`WizardShowsAPage` and `InstallHeardOf` only the safety cores above are proved.

## 7. Where code and documentation disagree

Runs that are expected to find a violation, each with one property that states
what a comment, message or handler of the repository says:

* `shadowbox_delete` / `DeletedKeyRefused`. `removeAccessKey`
  (`server_access_key.ts:164`) does not wait for a write under way. The older
  write can land last, the signal makes the proxy load it, and the deleted key
  keeps working until the next update. The integration test calls this "Deleted
  access key is still active". What does hold, for any number of keys, is `RemovedKeysRefused`.
* `metrics_optin` / `OptedInIsReported`. Traffic of a key that was removed
  within the window is reported with an empty user id; the metrics server rejects
  the whole report, the usage is not reset, and every later report fails the same way.

Further divergences that the models contain and no run is devoted to:

* `createNewAccessKey` (`manager_service.ts:231`) has a `then` without a rejection
  handler inside a `try`; when the update is rejected the request is never answered
  (`Unawaited` and `CreateSettled` of `Shadowbox`).
* The start of the report's interval is advanced before the post
  (`shared_metrics.ts:232`), the usage is reset after it, so after a failed post a
  report counts usage from before its start (`PostReport`).
* The comment at `digitalocean_server.ts:156` says that an error refreshing the droplet
  is tried again; the catch block at line 145 makes it the final state (`RefreshFailed`).
* Cancelling the wait for a DigitalOcean account to become active does not end a
  request that is under way: the region picker is still shown after it
  (`app.ts:469`, `AccountActive`). Cancelling a sign-in after the token came deletes the
  account that was just connected (`CancelSessionTapped`).
* An account that was signed out while its name was asked for is shown again
  (`app.ts:335`, `NameAnswered`).
* When the list of an account arrives, `addServer` is given the id of whichever account is
  connected by then (`app.ts:343`-`346`). If the user signed out and signed in to another
  account meanwhile, or a sign-in replaced an account that was still connected, the
  servers of the former are listed as the latter's (`ServersListed`).
* A token of an older version is migrated with a save that comes before the account of
  GCP is read and removes it from local storage (`cloud_accounts.ts:91`, `:145`;
  `LoadAccounts`). No comment or test covers both accounts.
* `computeEngineOperationRegionWait` (`gcp_api.ts:481`) returns the operation
  without looking at its error, unlike the wait for a zone's operation (line 471). When
  deleting the address fails, `GcpHost.delete` goes on to delete the instance
  (`gcp_server.ts:105`-`107`), and the address is left (`StaticIpDeleted`).
* After a failed renaming the page of a server gets the name of whichever server
  is selected by then (`app.ts:1177`, `NotSaved`); the settings do not send a name
  that equals the one they remembered when they were opened
  (`outline-server-settings.js:309`, `RenameServer`); the checkbox for sharing
  metrics is not set back after a failure: the page's property is set to the value it
  still has, and the binding to the settings is one-way (`outline-server-view.js:610`).
* The interval of the transfer stats ends when another server is selected, and is not
  started again when the user comes back (`app.ts:881`, `Tick`).
* A failed creation leaves the wizard's region picker busy for good (`RegionSelected`),
  a failed health check its page blank (`HealthFails`), and `createProject` is tried
  again with an id that is taken by then (`SetupFails`).
* The scripts of both providers run `install_server.sh`, the repository has the file as
  `install_server3.sh`, and it sets `PUBLIC_HOSTNAME` to a fixed address (line 428).

## 8. What is not modelled

Prometheus and `outline-ss-server` are third-party binaries; they appear as
environment actions. Their scrape intervals, the extrapolation of
`increase()` and the traffic itself are abstracted to "a sample of the usage".
Rollouts, feature metrics and the Sentry webhook keep no state. The Electron shell
calls platform libraries. The generated messages, licences and images are data.

* *Ports.* `setPortForNewAccessKeys` and `PortProvider` check a port in an await;
  what comes of it depends on the ports that are in use on the machine. The page's
  side of both settings is in `ServerManagement`.
* *Names of access keys*, feedback, surveys, help, sharing, languages.
* *The wait for an installation in `App`.* `ManagerApp` lists a server in one step;
  `ServerInstall`, `DigitalOceanServer` and `GcpServer` have the wait. What the page
  shows meanwhile is in neither.
* *The order and repetition of entries in the list of servers.* `serverList` is a set: a
  server that is loaded by `start()` and by a sign-in is listed twice (`app.ts:408`), which
  the model does not show. The lists of GCP's projects arrive in one step, or a part of
  them before a failure.
* *A promotion of the address that ends after `createServer`.* The operation to create a
  static address succeeds while it is waited for, or not at all.
* *Access tokens* of GCP and their refresh: a request is answered or fails.
* *do_install_server.sh* beyond its tags, and what the scripts configure on the machine.

## 9. Plan

Done: `AccessKeyRepository`, `ShadowsocksServer`, `ProxyAccess`, `Shadowbox`,
`SharedMetrics`, `ServerInstall`, `DigitalOceanServer`, `InstallScript`,
`GcpServer`, `GcpCreateServer`, `ManagerApp`, `ServerManagement`. Left, in this order:

1. The wait for an installation inside `App`, with a server of each kind.
2. `setPortForNewAccessKeys` and `PortProvider`.
