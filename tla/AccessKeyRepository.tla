------------------------ MODULE AccessKeyRepository ------------------------
(***************************************************************************)
(* The access keys of one Outline server: ServerAccessKeyRepository        *)
(* (server_access_key.ts) with the ManagerService handlers that call it,   *)
(* the two JSON files it is persisted in, and the data-limit enforcement   *)
(* calls that run concurrently with it.                                    *)
(*                                                                         *)
(* Node runs the code between two awaits without interruption, so one      *)
(* action is one such stretch.  The promises it leaves behind are state:   *)
(* tasks (an enforcement waiting for Prometheus), creating (a POST waiting *)
(* for shadowsocksServer.update) and phase (start() waiting for either).   *)
(* What the proxy does with an update is module ShadowsocksServer.         *)
(*                                                                         *)
(* An access key is its id.  Its name, metrics id, port and secret never   *)
(* steer any of this and are left out; modules that need them have them.   *)
(***************************************************************************)
EXTENDS Naturals

CONSTANTS
  MaxId,        \* bound: at most MaxId keys are ever created
  MaxUsage,     \* bound: bytes a key is seen to use, and the largest limit
  NoLimit,      \* "no data limit" (an undefined DataLimit)
  Tasks,        \* bound: enforcement calls that can be outstanding at once
  StartTask,    \* the one of them that start() itself makes
  NotRequested, \* "update was not called yet by this process"
  MaxFaults     \* bound: failed writes, failed queries and restarts

ASSUME ConstantsAssumption ==
  /\ MaxId \in Nat
  /\ MaxUsage \in Nat
  /\ MaxFaults \in Nat
  /\ NoLimit \notin Nat
  /\ \A ks \in SUBSET (0 .. (MaxId - 1)) : NotRequested # ks
  /\ StartTask \in Tasks

Ids    == 0 .. (MaxId - 1)
Bytes  == 0 .. MaxUsage
Limits == Bytes \cup {NoLimit}

VARIABLES
  phase,         \* how far start() is
  keys,          \* accessKeys: the ids of the keys in memory
  limits,        \* accessKeys[id].dataLimit
  over,          \* the keys with isOverDataLimit set
  nextId,        \* keyConfig.data().nextId
  defaultLimit,  \* the repository's _defaultDataLimit
  serverConfig,  \* serverConfig.data().accessKeyDataLimit
  keyFile,       \* shadowbox_config.json on disk
  configFile,    \* accessKeyDataLimit in shadowbox_server_config.json on disk
  usage,         \* what Prometheus would answer now, by key
  tasks,         \* the outstanding enforceAccessKeyDataLimits calls
  requested,     \* the keys of the last call of shadowsocksServer.update
  creating       \* the POST /access-keys request that created each key

(* History: what happened, for the properties to speak about.  No action's *)
(* guard reads these, except faults, which bounds the faults.              *)
VARIABLES
  removed,       \* the ids whose DELETE was answered with 204
  unsaved,       \* the files whose last write failed
  lost,          \* a restart happened while a file was behind memory
  missed,        \* an enforcement failed since the last one that finished
  lastSample,    \* the usage the last finished enforcement was given
  faults         \* failures so far

memory  == <<keys, limits, over, nextId, defaultLimit, serverConfig>>
disk    == <<keyFile, configFile>>
saving  == <<keyFile, configFile, unsaved, faults>>
checked == <<missed, lastSample>>
vars == <<phase, memory, disk, usage, tasks, requested, creating,
          removed, unsaved, lost, checked, faults>>

----------------------------------------------------------------------------
NoUsage == [id \in Ids |-> 0]
Idle == [pc |-> "idle", sample |-> NoUsage]
Querying == [pc |-> "querying", sample |-> NoUsage]

(* The key's own limit overrides the default one. *)
LimitOf(id) == IF limits[id] # NoLimit THEN limits[id] ELSE defaultLimit

(* usageBytes > limitBytes, where a missing limit is infinite. *)
Exceeds(bytes, limit) == limit # NoLimit /\ bytes > limit

(* The keys an enforcement that was given the usage sample marks. *)
OverLimit(sample) == {id \in keys : Exceeds(sample[id], LimitOf(id))}

UpdateServerWithAll(ks, marked) == requested' = ks  \* mutant: no filter

(* updateServer: the keys that are not over their limit go to the proxy. *)
UpdateServer(ks, marked) == requested' = ks \ marked

Fault == faults < MaxFaults /\ faults' = faults + 1

(* Mutant: the file gets the id before it is incremented. *)
SaveOldNextId(ks, lims, next) ==
  /\ keyFile' = [keys |-> ks, limits |-> lims,
                 nextId |-> IF next = 0 THEN 0 ELSE next - 1]
  /\ unsaved' = unsaved \ {"keys"}
  /\ UNCHANGED <<configFile, faults>>

(* Mutant: the file gets an id that is one ahead. *)
SaveIdAhead(ks, lims, next) ==
  /\ keyFile' = [keys |-> ks, limits |-> lims, nextId |-> next + 1]
  /\ unsaved' = unsaved \ {"keys"}
  /\ UNCHANGED <<configFile, faults>>

(* saveAccessKeys: FileConfig.write swallows an error and returns. *)
SaveAccessKeys(ks, lims, next) ==
  /\ \/ /\ keyFile' = [keys |-> ks, limits |-> lims, nextId |-> next]
        /\ unsaved' = unsaved \ {"keys"}
        /\ UNCHANGED faults
     \/ /\ Fault
        /\ unsaved' = unsaved \cup {"keys"}
        /\ UNCHANGED keyFile
  /\ UNCHANGED configFile

(* Mutant: the server configuration is not written. *)
SaveServerConfigForgotten(limit) == UNCHANGED saving

(* serverConfig.write() after a change of the default limit. *)
SaveServerConfig(limit) ==
  /\ \/ /\ configFile' = limit
        /\ unsaved' = unsaved \ {"config"}
        /\ UNCHANGED faults
     \/ /\ Fault
        /\ unsaved' = unsaved \cup {"config"}
        /\ UNCHANGED configFile
  /\ UNCHANGED keyFile

(* Mutant: a change of a limit waits for the hourly enforcement. *)
EnforceNothing == UNCHANGED tasks

(* A call of enforceAccessKeyDataLimits, up to its await on Prometheus. *)
EnforceAccessKeyDataLimits ==
  \E t \in Tasks \ {StartTask} :
    tasks[t].pc = "idle" /\ tasks' = [tasks EXCEPT ![t] = Querying]

----------------------------------------------------------------------------
(* Mutant: nextId is not read back from the file. *)
BootFromZero(kf, cf) ==
  /\ phase' = "enforcing"
  /\ keys' = kf.keys
  /\ limits' = kf.limits
  /\ nextId' = 0
  /\ over' = {}
  /\ defaultLimit' = cf
  /\ serverConfig' = cf
  /\ tasks' = [t \in Tasks |-> IF t = StartTask THEN Querying ELSE Idle]
  /\ requested' = NotRequested

(* What a new process has after the repository's constructor and the first *)
(* stretch of start(): the files' contents, nothing marked over limit.     *)
Boot(kf, cf) ==
  /\ phase' = "enforcing"
  /\ keys' = kf.keys
  /\ limits' = kf.limits
  /\ nextId' = kf.nextId
  /\ over' = {}
  /\ defaultLimit' = cf
  /\ serverConfig' = cf
  /\ tasks' = [t \in Tasks |-> IF t = StartTask THEN Querying ELSE Idle]
  /\ requested' = NotRequested

EmptyFile ==
  [keys |-> {}, limits |-> [id \in Ids |-> NoLimit], nextId |-> 0]

Init ==
  /\ phase = "enforcing"
  /\ keys = {}
  /\ limits = [id \in Ids |-> NoLimit]
  /\ over = {}
  /\ nextId = 0
  /\ defaultLimit = NoLimit
  /\ serverConfig = NoLimit
  /\ keyFile = EmptyFile
  /\ configFile = NoLimit
  /\ usage = NoUsage
  /\ tasks = [t \in Tasks |-> IF t = StartTask THEN Querying ELSE Idle]
  /\ requested = NotRequested
  /\ creating = [id \in Ids |-> "none"]
  /\ removed = {}
  /\ unsaved = {}
  /\ lost = FALSE
  /\ missed = FALSE
  /\ lastSample = NoUsage
  /\ faults = 0

----------------------------------------------------------------------------
(* Requests.  A request the handler rejects (no such key, a limit that is  *)
(* not a non-negative integer) changes nothing and has no action.          *)

(* POST /access-keys, up to the await on the update. *)
CreateNewAccessKey ==
  /\ nextId < MaxId
  /\ nextId' = nextId + 1
  /\ keys' = keys \cup {nextId}
  /\ SaveAccessKeys(keys', limits, nextId')
  /\ UpdateServer(keys', over)
  /\ creating' = [creating EXCEPT ![nextId] = "waiting"]
  /\ UNCHANGED <<phase, limits, over, defaultLimit, serverConfig, usage,
                 tasks, removed, lost, checked>>

(* DELETE /access-keys/id.  The update is not awaited. *)
RemoveAccessKey(id) ==
  /\ id \in keys
  /\ keys' = keys \ {id}
  /\ limits' = [limits EXCEPT ![id] = NoLimit]
  /\ over' = over \ {id}
  /\ SaveAccessKeys(keys', limits', nextId)
  /\ UpdateServer(keys', over')
  /\ removed' = removed \cup {id}
  /\ UNCHANGED <<phase, nextId, defaultLimit, serverConfig, usage, tasks,
                 creating, lost, checked>>

(* PUT /access-keys/id/name: for this state, one more save. *)
RenameAccessKey(id) ==
  /\ id \in keys
  /\ SaveAccessKeys(keys, limits, nextId)
  /\ UNCHANGED <<phase, memory, usage, tasks, requested, creating, removed,
                 lost, checked>>

(* PUT and DELETE /access-keys/id/data-limit.  The answer does not wait    *)
(* for the enforcement.                                                    *)
ChangeAccessKeyLimit(id, limit) ==
  /\ id \in keys
  /\ limits' = [limits EXCEPT ![id] = limit]
  /\ SaveAccessKeys(keys, limits', nextId)
  /\ EnforceAccessKeyDataLimits
  /\ UNCHANGED <<phase, keys, over, nextId, defaultLimit, serverConfig, usage,
                 requested, creating, removed, lost, checked>>

SetAccessKeyDataLimit(id, limit) == ChangeAccessKeyLimit(id, limit)

RemoveAccessKeyDataLimit(id) == ChangeAccessKeyLimit(id, NoLimit)

(* PUT and DELETE /server/access-key-data-limit: the repository's limit,   *)
(* the enforcement, then the copy in the server configuration.             *)
ChangeDefaultLimit(limit) ==
  /\ defaultLimit' = limit
  /\ EnforceAccessKeyDataLimits
  /\ serverConfig' = limit
  /\ SaveServerConfig(limit)
  /\ UNCHANGED <<phase, keys, limits, over, nextId, usage, requested, creating,
                 removed, lost, checked>>

SetDefaultDataLimit(limit) == ChangeDefaultLimit(limit)

RemoveDefaultDataLimit == ChangeDefaultLimit(NoLimit)

(* PUT /name and the other server settings: for this state, one more write *)
(* of the server configuration.                                            *)
RenameServer ==
  /\ SaveServerConfig(serverConfig)
  /\ UNCHANGED <<phase, memory, usage, tasks, requested, creating, removed,
                 lost, checked>>

(* The update a POST waits for is settled.  A rejection reaches no handler: *)
(* the then of createNewAccessKey has no catch, so nothing is answered.     *)
AnswerCreate(id) ==
  /\ creating[id] = "waiting"
  /\ creating' = [creating EXCEPT ![id] = "answered"]
  /\ UNCHANGED <<phase, memory, disk, usage, tasks, requested, removed,
                 unsaved, lost, checked, faults>>

CreateRejected(id) ==
  /\ creating[id] = "waiting"
  /\ creating' = [creating EXCEPT ![id] = "hung"]
  /\ UNCHANGED <<phase, memory, disk, usage, tasks, requested, removed,
                 unsaved, lost, checked, faults>>

----------------------------------------------------------------------------
(* Enforcement.  Prometheus evaluates the query at some time after the     *)
(* call, and its answer is handled at some time after that; the limits are *)
(* read when it is handled.                                                *)
HourlyEnforcement ==
  /\ phase = "running"
  /\ EnforceAccessKeyDataLimits
  /\ UNCHANGED <<phase, memory, disk, usage, requested, creating, removed,
                 unsaved, lost, checked, faults>>

AnswerFromCache(t) ==  \* mutant: the last answer is given again
  /\ tasks[t].pc = "querying"
  /\ tasks' = [tasks EXCEPT ![t] = [pc |-> "answered", sample |-> lastSample]]
  /\ UNCHANGED <<phase, memory, disk, usage, requested, creating, removed,
                 unsaved, lost, checked, faults>>

PrometheusAnswers(t) ==
  /\ tasks[t].pc = "querying"
  /\ tasks' = [tasks EXCEPT ![t] = [pc |-> "answered", sample |-> usage]]
  /\ UNCHANGED <<phase, memory, disk, usage, requested, creating, removed,
                 unsaved, lost, checked, faults>>

(* The stretch of enforceAccessKeyDataLimits after its await. *)
ApplyLimits(t) ==
  /\ tasks[t].pc = "answered"
  /\ over' = OverLimit(tasks[t].sample)
  /\ tasks' = [tasks EXCEPT ![t] = Idle]
  /\ lastSample' = tasks[t].sample
  /\ missed' = FALSE
  /\ UNCHANGED <<keys, limits, nextId, defaultLimit, serverConfig, disk, usage,
                 creating, removed, unsaved, lost, faults>>

(* Some key's status changed: the proxy is updated, and start() waits for  *)
(* that when the enforcement is its own.                                   *)
LimitStatusChanged(t) ==
  /\ ApplyLimits(t)
  /\ over' # over
  /\ UpdateServer(keys, over')
  /\ phase' = IF t = StartTask THEN "limiting" ELSE phase

LimitStatusUnchanged(t) ==
  /\ t # StartTask
  /\ ApplyLimits(t)
  /\ over' = over
  /\ UNCHANGED <<phase, requested>>

(* The query fails: tryEnforceDataLimits logs it, and so does the handler   *)
(* of unhandled rejections when a request made the call.                    *)
QueryFailed(t) ==
  /\ tasks[t].pc # "idle"
  /\ Fault
  /\ tasks' = [tasks EXCEPT ![t] = Idle]
  /\ missed' = TRUE
  /\ UNCHANGED <<memory, disk, usage, creating, removed, unsaved, lost,
                 lastSample>>

EnforcementFails(t) ==
  /\ t # StartTask
  /\ QueryFailed(t)
  /\ UNCHANGED <<phase, requested>>

----------------------------------------------------------------------------
(* start(): its own enforcement, then an update in any case. *)
StartUpdate ==
  /\ phase' = "updating"
  /\ UpdateServer(keys, over)

(* The enforcement changed nothing. *)
StartWithinLimits ==
  /\ ApplyLimits(StartTask)
  /\ over' = over
  /\ StartUpdate

(* The enforcement failed, which start() only logs. *)
StartUnenforced == QueryFailed(StartTask) /\ StartUpdate

(* The update made by the enforcement is settled, either way. *)
StartEnforced ==
  /\ phase = "limiting"
  /\ StartUpdate
  /\ UNCHANGED <<memory, disk, usage, tasks, creating, removed, unsaved, lost,
                 checked, faults>>

(* start()'s own update is done: the hourly timer is set. *)
Started ==
  /\ phase = "updating"
  /\ phase' = "running"
  /\ UNCHANGED <<memory, disk, usage, tasks, requested, creating, removed,
                 unsaved, lost, checked, faults>>

(* The process ends - killed, or by itself when start()'s update fails -   *)
(* and the container is started again from the files.                      *)
Restart ==
  /\ Fault
  /\ Boot(keyFile, configFile)
  /\ creating' = [id \in Ids |->
                    IF creating[id] = "waiting" THEN "dropped" ELSE creating[id]]
  /\ lost' = (lost \/ unsaved # {})
  /\ unsaved' = {}
  /\ missed' = FALSE
  /\ lastSample' = NoUsage
  /\ UNCHANGED <<disk, usage, removed>>

----------------------------------------------------------------------------
(* Environment: the 30-day usage of a key grows and, as old traffic leaves  *)
(* the window, shrinks; that of a removed key is remembered too.            *)
UsageChanges(id) ==
  /\ id < nextId
  /\ \E bytes \in Bytes \ {usage[id]} : usage' = [usage EXCEPT ![id] = bytes]
  /\ UNCHANGED <<phase, memory, disk, tasks, requested, creating, removed,
                 unsaved, lost, checked, faults>>

(* The steps that call shadowsocksServer.update, and the others. *)
UpdatingNext ==
  \/ CreateNewAccessKey
  \/ \E id \in Ids : RemoveAccessKey(id)
  \/ \E t \in Tasks : LimitStatusChanged(t)
  \/ StartWithinLimits
  \/ StartUnenforced
  \/ StartEnforced

ConfigNext ==
  \/ \E id \in Ids : RenameAccessKey(id)
  \/ \E id \in Ids, l \in Bytes : SetAccessKeyDataLimit(id, l)
  \/ \E id \in Ids : RemoveAccessKeyDataLimit(id)
  \/ \E l \in Bytes : SetDefaultDataLimit(l)
  \/ RemoveDefaultDataLimit
  \/ RenameServer
  \/ HourlyEnforcement
  \/ \E t \in Tasks : LimitStatusUnchanged(t)
  \/ \E t \in Tasks : EnforcementFails(t)

EnvironmentNext ==
  \/ \E t \in Tasks : PrometheusAnswers(t)
  \/ \E id \in Ids : UsageChanges(id)

(* What follows an await of shadowsocksServer.update. *)
SettleNext ==
  \/ \E id \in Ids : AnswerCreate(id)
  \/ \E id \in Ids : CreateRejected(id)
  \/ Started

Next == UpdatingNext \/ ConfigNext \/ EnvironmentNext \/ SettleNext \/ Restart

Spec == Init /\ [][Next]_vars

(* The event loop runs every continuation that is due, Prometheus answers, *)
(* the hourly timer fires, and writes of the proxy's configuration end.    *)
Fairness ==
  /\ \A t \in Tasks : /\ WF_vars(PrometheusAnswers(t))
                      /\ WF_vars(LimitStatusChanged(t))
                      /\ WF_vars(LimitStatusUnchanged(t))
  /\ WF_vars(StartWithinLimits)
  /\ WF_vars(StartEnforced)
  /\ WF_vars(Started)
  /\ WF_vars(HourlyEnforcement)
  /\ \A id \in Ids : WF_vars(AnswerCreate(id) \/ CreateRejected(id))

FairSpec == Spec /\ Fairness

----------------------------------------------------------------------------
TypeOK ==
  /\ phase \in {"enforcing", "limiting", "updating", "running"}
  /\ keys \in SUBSET Ids
  /\ limits \in [Ids -> Limits]
  /\ over \in SUBSET Ids
  /\ nextId \in 0 .. MaxId
  /\ defaultLimit \in Limits
  /\ serverConfig \in Limits
  /\ keyFile \in [keys : SUBSET Ids, limits : [Ids -> Limits], nextId : 0 .. MaxId]
  /\ configFile \in Limits
  /\ usage \in [Ids -> Bytes]
  /\ tasks \in [Tasks -> [pc : {"idle", "querying", "answered"},
                          sample : [Ids -> Bytes]]]
  /\ requested \in (SUBSET Ids) \cup {NotRequested}
  /\ creating \in [Ids -> {"none", "waiting", "answered", "hung", "dropped"}]
  /\ removed \in SUBSET Ids
  /\ unsaved \in SUBSET {"keys", "config"}
  /\ lost \in BOOLEAN
  /\ missed \in BOOLEAN
  /\ lastSample \in [Ids -> Bytes]
  /\ faults \in 0 .. MaxFaults

(* The proxy was last asked for exactly the keys in memory that are not    *)
(* marked over their limit, once start() or a request has asked for any;   *)
(* and start() does not end without asking.  Five separate call sites of   *)
(* updateServer, and the "did a status change" test, have to get it right. *)
ProxyInSync ==
  /\ requested # NotRequested => requested = keys \ over
  /\ phase # "enforcing" => requested # NotRequested

(* Memory and disk agree, but for the file whose last write failed; and    *)
(* the limit that is enforced is the one GET /server shows.                *)
FilesInSync ==
  /\ "keys" \notin unsaved =>
       keyFile = [keys |-> keys, limits |-> limits, nextId |-> nextId]
  /\ "config" \notin unsaved => configFile = serverConfig
  /\ serverConfig = defaultLimit

(* Through any number of restarts, as long as none finds a file behind     *)
(* memory: a deleted key does not come back, its id is not given out       *)
(* again, and a key whose creation was answered stays until it is deleted. *)
KeysDurable ==
  ~lost =>
    /\ removed \cap keys = {}
    /\ \A id \in keys \cup removed : id < nextId
    /\ \A id \in Ids : creating[id] = "answered" => id \in keys \cup removed

(* When no enforcement is outstanding and none failed since the last one,  *)
(* the marks are those the current limits give on the usage that           *)
(* enforcement saw, whatever requests came in while it was waiting.        *)
LimitsEnforced ==
  (~lost /\ ~missed /\ \A t \in Tasks : tasks[t].pc = "idle")
    => over = OverLimit(lastSample)

(* If from some time on the usage, the keys and the limits stay as they    *)
(* are and nothing fails, then from some time on every mark is right for   *)
(* them, out-of-order answers and enforcements that failed before          *)
(* notwithstanding: the hourly enforcement repairs what they left behind.  *)
Disturbance == <<usage, keys, limits, defaultLimit, faults>>
EnforcementConverges ==
  <>[][UNCHANGED Disturbance]_vars => <>[](over = OverLimit(usage))
============================================================================
