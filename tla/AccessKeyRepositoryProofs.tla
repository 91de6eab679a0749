---------------------- MODULE AccessKeyRepositoryProofs ----------------------
(***************************************************************************)
(* The safety properties of AccessKeyRepository for every value of its     *)
(* constants: any number of keys, bytes, concurrent enforcements and       *)
(* faults.                                                                 *)
(***************************************************************************)
EXTENDS AccessKeyRepository, TLAPS

----------------------------------------------------------------------------
(* Type correctness. *)
LEMMA FaultType == TypeOK /\ Fault => faults' \in 0 .. MaxFaults
BY ConstantsAssumption DEF TypeOK, Fault

LEMMA SaveAccessKeysType ==
  ASSUME TypeOK, NEW ks \in SUBSET Ids, NEW lims \in [Ids -> Limits],
         NEW next \in 0 .. MaxId, SaveAccessKeys(ks, lims, next)
  PROVE  /\ keyFile' \in [keys : SUBSET Ids, limits : [Ids -> Limits],
                          nextId : 0 .. MaxId]
         /\ configFile' \in Limits
         /\ unsaved' \in SUBSET {"keys", "config"}
         /\ faults' \in 0 .. MaxFaults
<1>1. configFile' \in Limits
  BY DEF TypeOK, SaveAccessKeys
<1>2. unsaved' \in SUBSET {"keys", "config"}
  BY DEF TypeOK, SaveAccessKeys
<1>3. faults' \in 0 .. MaxFaults
  BY FaultType DEF TypeOK, SaveAccessKeys
<1>4. keyFile' \in [keys : SUBSET Ids, limits : [Ids -> Limits],
                    nextId : 0 .. MaxId]
  BY DEF TypeOK, SaveAccessKeys
<1> QED
  BY <1>1, <1>2, <1>3, <1>4

LEMMA SaveServerConfigType ==
  ASSUME TypeOK, NEW limit \in Limits, SaveServerConfig(limit)
  PROVE  /\ keyFile' \in [keys : SUBSET Ids, limits : [Ids -> Limits],
                          nextId : 0 .. MaxId]
         /\ configFile' \in Limits
         /\ unsaved' \in SUBSET {"keys", "config"}
         /\ faults' \in 0 .. MaxFaults
<1>1. configFile' \in Limits
  BY DEF TypeOK, SaveServerConfig
<1>2. unsaved' \in SUBSET {"keys", "config"}
  BY DEF TypeOK, SaveServerConfig
<1>3. faults' \in 0 .. MaxFaults
  BY FaultType DEF TypeOK, SaveServerConfig
<1>4. keyFile' \in [keys : SUBSET Ids, limits : [Ids -> Limits],
                    nextId : 0 .. MaxId]
  BY DEF TypeOK, SaveServerConfig
<1> QED
  BY <1>1, <1>2, <1>3, <1>4

LEMMA IdleTyped ==
  /\ NoUsage \in [Ids -> Bytes]
  /\ Idle \in [pc : {"idle", "querying", "answered"}, sample : [Ids -> Bytes]]
  /\ Querying \in [pc : {"idle", "querying", "answered"}, sample : [Ids -> Bytes]]
BY ConstantsAssumption DEF NoUsage, Idle, Querying, Bytes

LEMMA InitTypeOK == Init => TypeOK
<1> SUFFICES ASSUME Init PROVE TypeOK
  OBVIOUS
<1>1. tasks \in [Tasks -> [pc : {"idle", "querying", "answered"},
                           sample : [Ids -> Bytes]]]
  BY IdleTyped DEF Init
<1>2. /\ limits \in [Ids -> Limits]
      /\ keyFile \in [keys : SUBSET Ids, limits : [Ids -> Limits],
                      nextId : 0 .. MaxId]
  BY ConstantsAssumption DEF Init, EmptyFile, Limits
<1>3. nextId \in 0 .. MaxId /\ faults \in 0 .. MaxFaults
  BY ConstantsAssumption DEF Init
<1>4. creating \in [Ids -> {"none", "waiting", "answered", "hung", "dropped"}]
  BY DEF Init
<1>5. usage \in [Ids -> Bytes] /\ lastSample \in [Ids -> Bytes]
  BY IdleTyped DEF Init
<1> QED
  BY <1>1, <1>2, <1>3, <1>4, <1>5 DEF Init, TypeOK, Limits

LEMMA NextTypeOK == TypeOK /\ [Next]_vars => TypeOK'
<1> SUFFICES ASSUME TypeOK, [Next]_vars PROVE TypeOK'
  OBVIOUS
<1> USE ConstantsAssumption
<1> DEFINE Task == [pc : {"idle", "querying", "answered"}, sample : [Ids -> Bytes]]
<1>1. CASE CreateNewAccessKey
  <2>1. /\ keys' \in SUBSET Ids /\ nextId' \in 0 .. MaxId
        /\ limits \in [Ids -> Limits] /\ requested' \in SUBSET Ids
    BY <1>1 DEF CreateNewAccessKey, TypeOK, Ids, UpdateServer
  <2> QED
    BY <1>1, <2>1, SaveAccessKeysType DEF CreateNewAccessKey, TypeOK, checked
<1>2. ASSUME NEW id \in Ids, RemoveAccessKey(id) PROVE TypeOK'
  <2>1. /\ keys' \in SUBSET Ids /\ limits' \in [Ids -> Limits]
        /\ nextId \in 0 .. MaxId /\ requested' \in SUBSET Ids
    BY <1>2 DEF RemoveAccessKey, TypeOK, UpdateServer, Limits
  <2> QED
    BY <1>2, <2>1, SaveAccessKeysType DEF RemoveAccessKey, TypeOK, checked
<1>3. ASSUME NEW t \in Tasks, ApplyLimits(t),
             requested' \in SUBSET Ids \/ requested' = requested,
             phase' \in {"enforcing", "limiting", "updating", "running"}
      PROVE TypeOK'
  <2>1. tasks' \in [Tasks -> Task] /\ lastSample' \in [Ids -> Bytes]
    BY <1>3, IdleTyped DEF ApplyLimits, TypeOK
  <2>2. over' \in SUBSET Ids
    BY <1>3 DEF ApplyLimits, OverLimit, TypeOK
  <2> QED
    BY <1>3, <2>1, <2>2 DEF ApplyLimits, TypeOK, disk
<1>4. ASSUME NEW t \in Tasks, QueryFailed(t),
             requested' \in SUBSET Ids \/ requested' = requested,
             phase' \in {"enforcing", "limiting", "updating", "running"}
      PROVE TypeOK'
  <2>1. tasks' \in [Tasks -> Task] /\ faults' \in 0 .. MaxFaults
    BY <1>4, IdleTyped DEF QueryFailed, Fault, TypeOK
  <2> QED
    BY <1>4, <2>1 DEF QueryFailed, TypeOK, disk, memory
<1>5. ASSUME NEW t \in Tasks, LimitStatusChanged(t) PROVE TypeOK'
  <2>1. requested' \in SUBSET Ids
    BY <1>5 DEF LimitStatusChanged, ApplyLimits, UpdateServer, TypeOK
  <2> QED
    BY <1>5, <2>1, <1>3 DEF LimitStatusChanged, TypeOK
<1>6. CASE StartWithinLimits
  <2>1. requested' \in SUBSET Ids
    BY <1>6 DEF StartWithinLimits, StartUpdate, UpdateServer, TypeOK
  <2> QED
    BY <1>6, <2>1, <1>3 DEF StartWithinLimits, StartUpdate
<1>7. CASE StartUnenforced
  <2>1. requested' \in SUBSET Ids
    BY <1>7 DEF StartUnenforced, StartUpdate, UpdateServer, TypeOK
  <2> QED
    BY <1>7, <2>1, <1>4 DEF StartUnenforced, StartUpdate
<1>8. CASE StartEnforced
  BY <1>8 DEF StartEnforced, StartUpdate, UpdateServer, TypeOK, memory, disk,
    checked
<1>9. ASSUME NEW id \in Ids, RenameAccessKey(id) PROVE TypeOK'
  <2>1. /\ keys \in SUBSET Ids /\ limits \in [Ids -> Limits]
        /\ nextId \in 0 .. MaxId
    BY DEF TypeOK
  <2> QED
    BY <1>9, <2>1, SaveAccessKeysType DEF RenameAccessKey, TypeOK, memory, checked
<1>10. ASSUME EnforceAccessKeyDataLimits PROVE tasks' \in [Tasks -> Task]
  BY <1>10, IdleTyped DEF EnforceAccessKeyDataLimits, TypeOK
<1>11. ASSUME NEW id \in Ids, NEW limit \in Limits,
              ChangeAccessKeyLimit(id, limit)
       PROVE TypeOK'
  <2>1. /\ keys \in SUBSET Ids /\ limits' \in [Ids -> Limits]
        /\ nextId \in 0 .. MaxId
    BY <1>11 DEF ChangeAccessKeyLimit, TypeOK
  <2> QED
    BY <1>11, <2>1, <1>10, SaveAccessKeysType
    DEF ChangeAccessKeyLimit, TypeOK, checked
<1>12. ASSUME NEW limit \in Limits, ChangeDefaultLimit(limit) PROVE TypeOK'
  BY <1>12, <1>10, SaveServerConfigType DEF ChangeDefaultLimit, TypeOK, checked
<1>13. CASE RenameServer
  <2>1. serverConfig \in Limits
    BY DEF TypeOK
  <2> QED
    BY <1>13, <2>1, SaveServerConfigType DEF RenameServer, TypeOK, memory, checked
<1>14. CASE HourlyEnforcement
  BY <1>14, <1>10 DEF HourlyEnforcement, TypeOK, memory, disk, checked
<1>15. ASSUME NEW t \in Tasks, LimitStatusUnchanged(t) PROVE TypeOK'
  BY <1>15, <1>3 DEF LimitStatusUnchanged, TypeOK
<1>16. ASSUME NEW t \in Tasks, EnforcementFails(t) PROVE TypeOK'
  BY <1>16, <1>4 DEF EnforcementFails, TypeOK
<1>17. ASSUME NEW t \in Tasks, PrometheusAnswers(t) PROVE TypeOK'
  <2>1. tasks' \in [Tasks -> Task]
    BY <1>17 DEF PrometheusAnswers, TypeOK
  <2> QED
    BY <1>17, <2>1 DEF PrometheusAnswers, TypeOK, memory, disk, checked
<1>18. ASSUME NEW id \in Ids, UsageChanges(id) PROVE TypeOK'
  BY <1>18 DEF UsageChanges, TypeOK, memory, disk, checked
<1>19. ASSUME NEW id \in Ids, AnswerCreate(id) \/ CreateRejected(id)
       PROVE TypeOK'
  BY <1>19 DEF AnswerCreate, CreateRejected, TypeOK, memory, disk, checked
<1>20. CASE Started
  BY <1>20 DEF Started, TypeOK, memory, disk, checked
<1>21. CASE Restart
  <2>1. /\ keys' \in SUBSET Ids /\ limits' \in [Ids -> Limits]
        /\ nextId' \in 0 .. MaxId /\ defaultLimit' \in Limits
        /\ serverConfig' \in Limits /\ over' \in SUBSET Ids
    BY <1>21 DEF Restart, Boot, TypeOK
  <2>2. tasks' \in [Tasks -> Task]
    BY <1>21, IdleTyped DEF Restart, Boot
  <2>3. creating' \in [Ids -> {"none", "waiting", "answered", "hung", "dropped"}]
    BY <1>21 DEF Restart, TypeOK
  <2>4. /\ faults' \in 0 .. MaxFaults
        /\ lastSample' \in [Ids -> Bytes] /\ usage' \in [Ids -> Bytes]
    BY <1>21, FaultType, IdleTyped DEF Restart, TypeOK
  <2>5. /\ keyFile' \in [keys : SUBSET Ids, limits : [Ids -> Limits],
                          nextId : 0 .. MaxId]
        /\ configFile' \in Limits
    BY <1>21 DEF Restart, TypeOK, disk
  <2>6. /\ unsaved' \in SUBSET {"keys", "config"} /\ removed' \in SUBSET Ids
        /\ lost' \in BOOLEAN /\ missed' \in BOOLEAN
    BY <1>21 DEF Restart, TypeOK
  <2> QED
    BY <1>21, <2>1, <2>2, <2>3, <2>4, <2>5, <2>6 DEF Restart, Boot, TypeOK
<1>22. CASE UNCHANGED vars
  BY <1>22 DEF vars, TypeOK, memory, disk, checked
<1>23. NoLimit \in Limits /\ Bytes \subseteq Limits
  BY DEF Limits
<1> QED
  BY <1>1, <1>2, <1>5, <1>6, <1>7, <1>8, <1>9, <1>11, <1>12, <1>13, <1>14,
     <1>15, <1>16, <1>17, <1>18, <1>19, <1>20, <1>21, <1>22, <1>23
  DEF Next, UpdatingNext, ConfigNext, EnvironmentNext, SettleNext,
      SetAccessKeyDataLimit, RemoveAccessKeyDataLimit, SetDefaultDataLimit,
      RemoveDefaultDataLimit

(* Every variable keeps its type: in particular no id beyond MaxId, and no *)
(* mark, limit or write of an unknown key.                                 *)
THEOREM TypeCorrect == Spec => []TypeOK
<1>1. Init => TypeOK
  BY InitTypeOK
<1>2. TypeOK /\ [Next]_vars => TypeOK'
  BY NextTypeOK
<1> QED
  BY <1>1, <1>2, PTL DEF Spec

----------------------------------------------------------------------------
(* The proxy is asked for the right keys.  ProxyInSync is inductive: a step *)
(* that changes keys or over calls updateServer with what it leaves.       *)
LEMMA UpdateServerInSync ==
  ASSUME TypeOK, TypeOK', UpdateServer(keys', over')
  PROVE  ProxyInSync'
<1>1. requested' \in SUBSET Ids
  BY DEF UpdateServer, TypeOK, Ids
<1> QED
  BY <1>1, ConstantsAssumption DEF UpdateServer, ProxyInSync, Ids

LEMMA NextProxyInSync ==
  ASSUME TypeOK, TypeOK', ProxyInSync, [Next]_vars
  PROVE  ProxyInSync'
<1>1. CASE UpdatingNext
  <2>1. CASE CreateNewAccessKey
    BY <1>1, <2>1, UpdateServerInSync DEF CreateNewAccessKey
  <2>2. ASSUME NEW id \in Ids, RemoveAccessKey(id) PROVE ProxyInSync'
    BY <2>2, UpdateServerInSync DEF RemoveAccessKey
  <2>3. ASSUME NEW t \in Tasks, LimitStatusChanged(t) PROVE ProxyInSync'
    BY <2>3, UpdateServerInSync DEF LimitStatusChanged, ApplyLimits, UpdateServer
  <2>4. CASE StartWithinLimits
    BY <2>4, UpdateServerInSync
    DEF StartWithinLimits, ApplyLimits, StartUpdate, UpdateServer
  <2>5. CASE StartUnenforced
    BY <2>5, UpdateServerInSync
    DEF StartUnenforced, QueryFailed, StartUpdate, UpdateServer, memory
  <2>6. CASE StartEnforced
    BY <2>6, UpdateServerInSync DEF StartEnforced, StartUpdate, UpdateServer, memory
  <2> QED
    BY <1>1, <2>1, <2>2, <2>3, <2>4, <2>5, <2>6 DEF UpdatingNext
<1>2. ASSUME UNCHANGED <<phase, keys, over, requested>> PROVE ProxyInSync'
  BY <1>2 DEF ProxyInSync
<1>3. CASE ConfigNext
  <2>1. ASSUME NEW id \in Ids, RenameAccessKey(id) PROVE ProxyInSync'
    BY <1>2, <2>1 DEF RenameAccessKey, memory
  <2>2. ASSUME NEW id \in Ids, NEW l, ChangeAccessKeyLimit(id, l)
        PROVE ProxyInSync'
    BY <1>2, <2>2 DEF ChangeAccessKeyLimit
  <2>3. ASSUME NEW l, ChangeDefaultLimit(l) PROVE ProxyInSync'
    BY <1>2, <2>3 DEF ChangeDefaultLimit
  <2>4. CASE RenameServer
    BY <1>2, <2>4 DEF RenameServer, memory
  <2>5. CASE HourlyEnforcement
    BY <1>2, <2>5 DEF HourlyEnforcement, memory
  <2>6. ASSUME NEW t \in Tasks, LimitStatusUnchanged(t) PROVE ProxyInSync'
    BY <1>2, <2>6 DEF LimitStatusUnchanged, ApplyLimits
  <2>7. ASSUME NEW t \in Tasks, EnforcementFails(t) PROVE ProxyInSync'
    BY <1>2, <2>7 DEF EnforcementFails, QueryFailed, memory
  <2> QED
    BY <1>3, <2>1, <2>2, <2>3, <2>4, <2>5, <2>6, <2>7
    DEF ConfigNext, SetAccessKeyDataLimit, RemoveAccessKeyDataLimit,
        SetDefaultDataLimit, RemoveDefaultDataLimit
<1>4. CASE EnvironmentNext
  BY <1>2, <1>4 DEF EnvironmentNext, PrometheusAnswers, UsageChanges, memory
<1>5. CASE SettleNext
  <2>1. ASSUME NEW id \in Ids, AnswerCreate(id) \/ CreateRejected(id)
        PROVE ProxyInSync'
    BY <1>2, <2>1 DEF AnswerCreate, CreateRejected, memory
  <2>2. CASE Started
    BY <2>2 DEF Started, ProxyInSync, memory
  <2> QED
    BY <1>5, <2>1, <2>2 DEF SettleNext
<1>6. CASE Restart
  BY <1>6 DEF Restart, Boot, ProxyInSync
<1>7. CASE UNCHANGED vars
  BY <1>2, <1>7 DEF vars, memory
<1> QED
  BY <1>1, <1>3, <1>4, <1>5, <1>6, <1>7 DEF Next

(* Whatever requests, enforcements and restarts come in whichever order,   *)
(* the last update the proxy was given is for exactly the keys that exist  *)
(* and are not marked over their limit.                                    *)
THEOREM ProxyAskedForEnabledKeys == Spec => []ProxyInSync
<1>1. Init => ProxyInSync
  BY DEF Init, ProxyInSync
<1>2. TypeOK /\ TypeOK' /\ ProxyInSync /\ [Next]_vars => ProxyInSync'
  BY NextProxyInSync
<1> QED
  BY <1>1, <1>2, TypeCorrect, PTL DEF Spec

----------------------------------------------------------------------------
(* Files.  FilesInSync is inductive as well: what a write stores is what   *)
(* the same step leaves in memory.                                         *)
LEMMA NextFilesInSync ==
  ASSUME TypeOK, FilesInSync, [Next]_vars
  PROVE  FilesInSync'
<1>1. ASSUME UNCHANGED <<keys, limits, nextId, defaultLimit, serverConfig, disk,
                         unsaved>>
      PROVE  FilesInSync'
  BY <1>1 DEF FilesInSync, disk
<1>2. ASSUME SaveAccessKeys(keys', limits', nextId'),
             UNCHANGED <<defaultLimit, serverConfig>>
      PROVE  FilesInSync'
  BY <1>2 DEF SaveAccessKeys, FilesInSync, TypeOK
<1>3. ASSUME SaveServerConfig(serverConfig'), serverConfig' = defaultLimit',
             UNCHANGED <<keys, limits, nextId>>
      PROVE  FilesInSync'
  BY <1>3 DEF SaveServerConfig, FilesInSync, TypeOK
<1>4. CASE UpdatingNext
  <2>1. CASE CreateNewAccessKey
    BY <1>2, <2>1 DEF CreateNewAccessKey
  <2>2. ASSUME NEW id \in Ids, RemoveAccessKey(id) PROVE FilesInSync'
    BY <1>2, <2>2 DEF RemoveAccessKey
  <2>3. ASSUME NEW t \in Tasks, LimitStatusChanged(t) PROVE FilesInSync'
    BY <1>1, <2>3 DEF LimitStatusChanged, ApplyLimits
  <2>4. CASE StartWithinLimits
    BY <1>1, <2>4 DEF StartWithinLimits, ApplyLimits
  <2>5. CASE StartUnenforced
    BY <1>1, <2>5 DEF StartUnenforced, QueryFailed, memory
  <2>6. CASE StartEnforced
    BY <1>1, <2>6 DEF StartEnforced, memory
  <2> QED
    BY <1>4, <2>1, <2>2, <2>3, <2>4, <2>5, <2>6 DEF UpdatingNext
<1>5. CASE ConfigNext
  <2>1. ASSUME NEW id \in Ids, RenameAccessKey(id) PROVE FilesInSync'
    BY <1>2, <2>1 DEF RenameAccessKey, memory
  <2>2. ASSUME NEW id \in Ids, NEW l, ChangeAccessKeyLimit(id, l)
        PROVE FilesInSync'
    BY <1>2, <2>2 DEF ChangeAccessKeyLimit
  <2>3. ASSUME NEW l, ChangeDefaultLimit(l) PROVE FilesInSync'
    BY <1>3, <2>3 DEF ChangeDefaultLimit
  <2>4. CASE RenameServer
    BY <1>3, <2>4 DEF RenameServer, memory, FilesInSync
  <2>5. CASE HourlyEnforcement
    BY <1>1, <2>5 DEF HourlyEnforcement, memory
  <2>6. ASSUME NEW t \in Tasks, LimitStatusUnchanged(t) PROVE FilesInSync'
    BY <1>1, <2>6 DEF LimitStatusUnchanged, ApplyLimits
  <2>7. ASSUME NEW t \in Tasks, EnforcementFails(t) PROVE FilesInSync'
    BY <1>1, <2>7 DEF EnforcementFails, QueryFailed, memory
  <2> QED
    BY <1>5, <2>1, <2>2, <2>3, <2>4, <2>5, <2>6, <2>7
    DEF ConfigNext, SetAccessKeyDataLimit, RemoveAccessKeyDataLimit,
        SetDefaultDataLimit, RemoveDefaultDataLimit
<1>6. CASE EnvironmentNext
  BY <1>1, <1>6 DEF EnvironmentNext, PrometheusAnswers, UsageChanges, memory
<1>7. CASE SettleNext
  BY <1>1, <1>7 DEF SettleNext, AnswerCreate, CreateRejected, Started, memory
<1>8. CASE Restart
  BY <1>8 DEF Restart, Boot, disk, FilesInSync, TypeOK
<1>9. CASE UNCHANGED vars
  BY <1>1, <1>9 DEF vars, memory
<1> QED
  BY <1>4, <1>5, <1>6, <1>7, <1>8, <1>9 DEF Next

(* Memory and disk agree but for a file whose last write failed, and the   *)
(* limit in force is the one in the server configuration.                  *)
THEOREM FilesHoldMemory == Spec => []FilesInSync
<1>1. Init => FilesInSync
  BY DEF Init, EmptyFile, FilesInSync
<1>2. TypeOK /\ FilesInSync /\ [Next]_vars => FilesInSync'
  BY NextFilesInSync
<1> QED
  BY <1>1, <1>2, TypeCorrect, PTL DEF Spec

----------------------------------------------------------------------------
(* Durability.  KeysDurable is not inductive: a key whose POST is still    *)
(* waiting has to be known too, for it may be answered next.               *)
KeysRemembered ==
  ~lost =>
    /\ removed \cap keys = {}
    /\ \A id \in keys \cup removed : id < nextId
    /\ \A id \in Ids :
         creating[id] \in {"waiting", "answered"} => id \in keys \cup removed

(* A restart that loses nothing finds what was in memory. *)
LEMMA RestartUpToDate ==
  ASSUME TypeOK, FilesInSync, Restart, ~lost'
  PROVE  /\ ~lost /\ keys' = keys /\ nextId' = nextId
         /\ removed' = removed /\ usage' = usage
<1>1. ~lost /\ unsaved = {}
  BY DEF Restart, TypeOK
<1>2. keyFile = [keys |-> keys, limits |-> limits, nextId |-> nextId]
  BY <1>1 DEF FilesInSync
<1>3. keys' = keys /\ nextId' = nextId
  BY <1>2 DEF Restart, Boot
<1> QED
  BY <1>1, <1>3 DEF Restart

LEMMA NextKeysRemembered ==
  ASSUME TypeOK, FilesInSync, KeysRemembered, [Next]_vars
  PROVE  KeysRemembered'
<1>1. ASSUME UNCHANGED <<keys, nextId, creating, removed, lost>>
      PROVE  KeysRemembered'
  BY <1>1 DEF KeysRemembered
<1>2. CASE UpdatingNext
  <2>1. CASE CreateNewAccessKey
    BY <2>1 DEF CreateNewAccessKey, KeysRemembered, TypeOK, Ids
  <2>2. ASSUME NEW id \in Ids, RemoveAccessKey(id) PROVE KeysRemembered'
    BY <2>2 DEF RemoveAccessKey, KeysRemembered, TypeOK
  <2>3. ASSUME NEW t \in Tasks, LimitStatusChanged(t) PROVE KeysRemembered'
    BY <1>1, <2>3 DEF LimitStatusChanged, ApplyLimits
  <2>4. CASE StartWithinLimits
    BY <1>1, <2>4 DEF StartWithinLimits, ApplyLimits
  <2>5. CASE StartUnenforced
    BY <1>1, <2>5 DEF StartUnenforced, QueryFailed, memory
  <2>6. CASE StartEnforced
    BY <1>1, <2>6 DEF StartEnforced, memory
  <2> QED
    BY <1>2, <2>1, <2>2, <2>3, <2>4, <2>5, <2>6 DEF UpdatingNext
<1>3. CASE ConfigNext
  <2>1. ASSUME NEW id \in Ids, NEW l, ChangeAccessKeyLimit(id, l)
        PROVE KeysRemembered'
    BY <1>1, <2>1 DEF ChangeAccessKeyLimit
  <2>2. ASSUME NEW l, ChangeDefaultLimit(l) PROVE KeysRemembered'
    BY <1>1, <2>2 DEF ChangeDefaultLimit
  <2>3. ASSUME NEW t \in Tasks, LimitStatusUnchanged(t) \/ EnforcementFails(t)
        PROVE KeysRemembered'
    BY <1>1, <2>3
    DEF LimitStatusUnchanged, ApplyLimits, EnforcementFails, QueryFailed, memory
  <2>4. ASSUME RenameServer \/ HourlyEnforcement
                 \/ \E id \in Ids : RenameAccessKey(id)
        PROVE KeysRemembered'
    BY <1>1, <2>4 DEF RenameServer, HourlyEnforcement, RenameAccessKey, memory
  <2> QED
    BY <1>3, <2>1, <2>2, <2>3, <2>4
    DEF ConfigNext, SetAccessKeyDataLimit, RemoveAccessKeyDataLimit,
        SetDefaultDataLimit, RemoveDefaultDataLimit
<1>4. CASE EnvironmentNext
  BY <1>1, <1>4 DEF EnvironmentNext, PrometheusAnswers, UsageChanges, memory
<1>5. CASE SettleNext
  <2>1. ASSUME NEW id \in Ids, AnswerCreate(id) \/ CreateRejected(id)
        PROVE KeysRemembered'
    BY <2>1 DEF AnswerCreate, CreateRejected, KeysRemembered, TypeOK, memory
  <2>2. CASE Started
    BY <1>1, <2>2 DEF Started, memory
  <2> QED
    BY <1>5, <2>1, <2>2 DEF SettleNext
<1>6. CASE Restart
  <2>1. SUFFICES ASSUME ~lost' PROVE KeysRemembered'
    BY DEF KeysRemembered
  <2>2. ~lost /\ keys' = keys /\ nextId' = nextId /\ removed' = removed
    BY <1>6, <2>1, RestartUpToDate
  <2>3. \A id \in Ids : creating'[id] \in {"waiting", "answered"}
                          => creating[id] \in {"waiting", "answered"}
    BY <1>6 DEF Restart, TypeOK
  <2> QED
    BY <2>2, <2>3 DEF KeysRemembered
<1>7. CASE UNCHANGED vars
  BY <1>1, <1>7 DEF vars, memory
<1> QED
  BY <1>2, <1>3, <1>4, <1>5, <1>6, <1>7 DEF Next

(* Over any number of restarts that find the files up to date, a deleted   *)
(* key stays deleted, no id is given out twice, and a key whose creation   *)
(* was answered exists until it is deleted.                                *)
THEOREM KeysSurviveRestarts == Spec => []KeysDurable
<1>1. Init => KeysRemembered
  BY DEF Init, KeysRemembered
<1>2. TypeOK /\ FilesInSync /\ KeysRemembered /\ [Next]_vars => KeysRemembered'
  BY NextKeysRemembered
<1>3. KeysRemembered => KeysDurable
  BY DEF KeysRemembered, KeysDurable
<1> QED
  BY <1>1, <1>2, <1>3, TypeCorrect, FilesHoldMemory, PTL DEF Spec

----------------------------------------------------------------------------
(* Data limits.  An id that was not given out has no usage, so a key that  *)
(* is created does not change what the last enforcement would have marked. *)
FreshUnused ==
  ~lost =>
    \A id \in Ids : id >= nextId =>
      /\ usage[id] = 0
      /\ lastSample[id] = 0
      /\ \A t \in Tasks : tasks[t].sample[id] = 0

LEMMA IdleUnused ==
  \A id \in Ids : /\ NoUsage[id] = 0
                  /\ Idle.sample[id] = 0
                  /\ Querying.sample[id] = 0
BY DEF NoUsage, Idle, Querying

LEMMA NextFreshUnused ==
  ASSUME TypeOK, FilesInSync, FreshUnused, [Next]_vars
  PROVE  FreshUnused'
<1>1. ASSUME UNCHANGED <<nextId, lost, usage, lastSample, tasks>>
      PROVE  FreshUnused'
  BY <1>1 DEF FreshUnused
<1>2. ASSUME UNCHANGED <<nextId, lost, usage, lastSample>>,
             EnforceAccessKeyDataLimits
      PROVE  FreshUnused'
  BY <1>2, IdleUnused DEF FreshUnused, EnforceAccessKeyDataLimits, TypeOK
<1>3. ASSUME NEW t \in Tasks, ApplyLimits(t) PROVE FreshUnused'
  BY <1>3, IdleUnused DEF FreshUnused, ApplyLimits, TypeOK
<1>4. ASSUME NEW t \in Tasks, QueryFailed(t) PROVE FreshUnused'
  BY <1>4, IdleUnused DEF FreshUnused, QueryFailed, TypeOK, memory
<1>5. CASE UpdatingNext
  <2>1. CASE CreateNewAccessKey
    BY <2>1 DEF CreateNewAccessKey, FreshUnused, checked, TypeOK, Ids
  <2>2. ASSUME NEW id \in Ids, RemoveAccessKey(id) PROVE FreshUnused'
    BY <1>1, <2>2 DEF RemoveAccessKey, checked
  <2>3. CASE StartEnforced
    BY <1>1, <2>3 DEF StartEnforced, memory, checked
  <2> QED
    BY <1>3, <1>4, <1>5, <2>1, <2>2, <2>3, ConstantsAssumption
    DEF UpdatingNext, LimitStatusChanged, StartWithinLimits, StartUnenforced
<1>6. CASE ConfigNext
  <2>1. ASSUME NEW id \in Ids, NEW l, ChangeAccessKeyLimit(id, l)
        PROVE FreshUnused'
    BY <1>2, <2>1 DEF ChangeAccessKeyLimit, checked
  <2>2. ASSUME NEW l, ChangeDefaultLimit(l) PROVE FreshUnused'
    BY <1>2, <2>2 DEF ChangeDefaultLimit, checked
  <2>3. CASE HourlyEnforcement
    BY <1>2, <2>3 DEF HourlyEnforcement, memory, checked
  <2>4. ASSUME RenameServer \/ \E id \in Ids : RenameAccessKey(id)
        PROVE FreshUnused'
    BY <1>1, <2>4 DEF RenameServer, RenameAccessKey, memory, checked
  <2> QED
    BY <1>3, <1>4, <1>6, <2>1, <2>2, <2>3, <2>4
    DEF ConfigNext, SetAccessKeyDataLimit, RemoveAccessKeyDataLimit,
        SetDefaultDataLimit, RemoveDefaultDataLimit, LimitStatusUnchanged,
        EnforcementFails
<1>7. CASE EnvironmentNext
  <2>1. ASSUME NEW t \in Tasks, PrometheusAnswers(t) PROVE FreshUnused'
    BY <2>1 DEF PrometheusAnswers, FreshUnused, memory, checked, TypeOK
  <2>2. ASSUME NEW id \in Ids, UsageChanges(id) PROVE FreshUnused'
    BY <2>2 DEF UsageChanges, FreshUnused, memory, checked, TypeOK, Ids
  <2> QED
    BY <1>7, <2>1, <2>2 DEF EnvironmentNext
<1>8. CASE SettleNext
  BY <1>1, <1>8
  DEF SettleNext, AnswerCreate, CreateRejected, Started, memory, checked
<1>9. CASE Restart
  <2>1. SUFFICES ASSUME ~lost' PROVE FreshUnused'
    BY DEF FreshUnused
  <2>2. ~lost /\ nextId' = nextId /\ usage' = usage
    BY <1>9, <2>1, RestartUpToDate
  <2>3. /\ lastSample' = NoUsage
        /\ \A t \in Tasks : tasks'[t] \in {Idle, Querying}
    BY <1>9 DEF Restart, Boot
  <2> QED
    BY <2>2, <2>3, IdleUnused DEF FreshUnused
<1>10. CASE UNCHANGED vars
  BY <1>1, <1>10 DEF vars, memory, checked
<1> QED
  BY <1>5, <1>6, <1>7, <1>8, <1>9, <1>10 DEF Next

(* Some enforcement call is outstanding. *)
Enforcing == \E t \in Tasks : tasks[t].pc # "idle"

LEMMA NextLimitsEnforced ==
  ASSUME TypeOK, FreshUnused, LimitsEnforced, [Next]_vars
  PROVE  LimitsEnforced'
<1>1. ASSUME UNCHANGED <<keys, limits, over, defaultLimit, lost, missed,
                         lastSample>>,
             Enforcing => Enforcing'
      PROVE  LimitsEnforced'
  BY <1>1 DEF LimitsEnforced, OverLimit, LimitOf, Enforcing
<1>2. ASSUME Enforcing' PROVE LimitsEnforced'
  BY <1>2 DEF LimitsEnforced, Enforcing
<1>3. ASSUME EnforceAccessKeyDataLimits PROVE Enforcing'
  BY <1>3 DEF EnforceAccessKeyDataLimits, Enforcing, Querying, TypeOK
<1>4. ASSUME NEW t \in Tasks, ApplyLimits(t) PROVE LimitsEnforced'
  BY <1>4 DEF ApplyLimits, LimitsEnforced, OverLimit, LimitOf
<1>5. ASSUME missed' PROVE LimitsEnforced'
  BY <1>5 DEF LimitsEnforced
<1>6. CASE CreateNewAccessKey
  <2>1. SUFFICES ASSUME ~lost, ~missed, ~Enforcing
                 PROVE  over = OverLimit(lastSample)'
    BY <1>6 DEF CreateNewAccessKey, LimitsEnforced, Enforcing, checked
  <2>2. over = OverLimit(lastSample)
    BY <2>1 DEF LimitsEnforced, Enforcing
  <2>3. nextId \in Ids /\ lastSample[nextId] = 0
    BY <1>6, <2>1, ConstantsAssumption
    DEF CreateNewAccessKey, FreshUnused, TypeOK, Ids
  <2>4. ~Exceeds(lastSample[nextId], LimitOf(nextId))
    BY <2>3 DEF Exceeds, LimitOf, TypeOK, Limits, Bytes
  <2> QED
    BY <1>6, <2>2, <2>4
    DEF CreateNewAccessKey, OverLimit, LimitOf, checked
<1>7. ASSUME NEW id \in Ids, RemoveAccessKey(id) PROVE LimitsEnforced'
  <2>1. SUFFICES ASSUME ~lost, ~missed, ~Enforcing
                 PROVE  over' = OverLimit(lastSample)'
    BY <1>7 DEF RemoveAccessKey, LimitsEnforced, Enforcing, checked
  <2>2. over = OverLimit(lastSample)
    BY <2>1 DEF LimitsEnforced, Enforcing
  <2>3. \A k \in keys \ {id} : LimitOf(k)' = LimitOf(k)
    BY <1>7 DEF RemoveAccessKey, LimitOf, TypeOK
  <2> QED
    BY <1>7, <2>2, <2>3 DEF RemoveAccessKey, OverLimit, checked
<1>8. CASE StartEnforced
  BY <1>1, <1>8 DEF StartEnforced, Enforcing, memory, checked
<1>9. CASE UpdatingNext
  BY <1>4, <1>5, <1>6, <1>7, <1>8, <1>9, ConstantsAssumption
  DEF UpdatingNext, LimitStatusChanged, StartWithinLimits, StartUnenforced,
      QueryFailed
<1>10. CASE ConfigNext
  <2>1. ASSUME RenameServer \/ \E id \in Ids : RenameAccessKey(id)
        PROVE LimitsEnforced'
    BY <1>1, <2>1 DEF RenameServer, RenameAccessKey, Enforcing, memory, checked
  <2> QED
    BY <1>2, <1>3, <1>4, <1>5, <1>10, <2>1
    DEF ConfigNext, SetAccessKeyDataLimit, RemoveAccessKeyDataLimit,
        SetDefaultDataLimit, RemoveDefaultDataLimit, ChangeAccessKeyLimit,
        ChangeDefaultLimit, HourlyEnforcement, LimitStatusUnchanged,
        EnforcementFails, QueryFailed
<1>11. CASE EnvironmentNext
  <2>1. ASSUME NEW t \in Tasks, PrometheusAnswers(t) PROVE Enforcing'
    BY <2>1 DEF PrometheusAnswers, Enforcing, TypeOK
  <2>2. ASSUME NEW id \in Ids, UsageChanges(id) PROVE LimitsEnforced'
    BY <1>1, <2>2 DEF UsageChanges, Enforcing, memory, checked
  <2> QED
    BY <1>2, <1>11, <2>1, <2>2 DEF EnvironmentNext
<1>12. CASE SettleNext
  BY <1>1, <1>12
  DEF SettleNext, AnswerCreate, CreateRejected, Started, Enforcing, memory, checked
<1>13. CASE Restart
  <2>1. tasks'[StartTask].pc = "querying"
    BY <1>13, ConstantsAssumption DEF Restart, Boot, Querying
  <2> QED
    BY <1>2, <2>1, ConstantsAssumption DEF Enforcing
<1>14. CASE UNCHANGED vars
  BY <1>1, <1>14 DEF vars, Enforcing, memory, checked
<1> QED
  BY <1>9, <1>10, <1>11, <1>12, <1>13, <1>14 DEF Next

(* Whenever no enforcement is outstanding or was missed, exactly the keys  *)
(* whose sampled usage exceeds their current limit are marked, in whatever *)
(* order limits were changed and enforcements answered.                    *)
THEOREM MarksFollowLimits == Spec => []LimitsEnforced
<1>1. Init => FreshUnused /\ LimitsEnforced
  BY IdleUnused, ConstantsAssumption
  DEF Init, FreshUnused, LimitsEnforced, Querying
<1>2. TypeOK /\ FilesInSync /\ FreshUnused /\ [Next]_vars => FreshUnused'
  BY NextFreshUnused
<1>3. TypeOK /\ FreshUnused /\ LimitsEnforced /\ [Next]_vars => LimitsEnforced'
  BY NextLimitsEnforced
<1> QED
  BY <1>1, <1>2, <1>3, TypeCorrect, FilesHoldMemory, PTL DEF Spec
==============================================================================
