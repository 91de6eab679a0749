----------------------------- MODULE Shadowbox -----------------------------
(***************************************************************************)
(* The server as main.ts wires it: AccessKeyRepository calling             *)
(* ShadowsocksServer.  A step of the repository that calls updateServer is *)
(* one step with the start of a write of the proxy's configuration, and    *)
(* the end of a write is one step with whatever awaits it: the answer to a *)
(* POST, the next stretch of start(), or nothing.                          *)
(***************************************************************************)
EXTENDS Naturals

CONSTANTS MaxId, MaxUsage, NoLimit, Tasks, StartTask, NotRequested, MaxFaults,
          Writes, NoCaller, StartCaller, MaxCrashes

VARIABLES phase, keys, limits, over, nextId, defaultLimit, serverConfig,
          keyFile, configFile, usage, tasks, requested, creating,
          removed, unsaved, lost, missed, lastSample, faults
VARIABLES writes, file, process, hup, loaded, asked, overlapped, broken, crashes

Repo == INSTANCE AccessKeyRepository
Proxy == INSTANCE ShadowsocksServer WITH
           Unsupported <- {},
           Callers <- Repo!Ids \cup {StartCaller}

repositoryVars == <<phase, keys, limits, over, nextId, defaultLimit, serverConfig,
                    keyFile, configFile, usage, tasks, requested, creating,
                    removed, unsaved, lost, missed, lastSample, faults>>
proxyVars == <<writes, file, process, hup, loaded, asked, overlapped, broken,
               crashes>>
vars == <<repositoryVars, proxyVars>>

Init == Repo!Init /\ Proxy!Init

----------------------------------------------------------------------------
(* Calls of updateServer: each says who awaits the update. *)
CreateNewAccessKey == Repo!CreateNewAccessKey /\ Proxy!Update(requested', nextId)

RemoveAccessKey(id) ==
  Repo!RemoveAccessKey(id) /\ Proxy!Update(requested', NoCaller)

LimitStatusChanged(t) ==
  /\ Repo!LimitStatusChanged(t)
  /\ Proxy!Update(requested', IF t = StartTask THEN StartCaller ELSE NoCaller)

StartUpdate ==
  /\ Repo!StartWithinLimits \/ Repo!StartUnenforced
  /\ Proxy!Update(requested', StartCaller)

(* The steps that only one of the two takes. *)
RepositoryStep ==
  /\ Repo!ConfigNext \/ Repo!EnvironmentNext
  /\ UNCHANGED proxyVars

ProxyStep == Proxy!Internal /\ UNCHANGED repositoryVars

----------------------------------------------------------------------------
(* A write ends: the continuation of the update it belongs to runs. *)
Unawaited(w) ==
  /\ writes[w].caller = NoCaller
  /\ Proxy!WriteSucceeds(w) \/ Proxy!WriteFails(w)
  /\ UNCHANGED repositoryVars

CreateSettled(w) ==
  \E id \in Repo!Ids :
    /\ writes[w].caller = id
    /\ \/ Proxy!WriteSucceeds(w) /\ Repo!AnswerCreate(id)
       \/ Proxy!WriteFails(w) /\ Repo!CreateRejected(id)

(* start() awaits the update of its enforcement, whose error it only logs, *)
(* and then makes its own.                                                 *)
StartEnforced(w) ==
  /\ writes[w].caller = StartCaller
  /\ Repo!StartEnforced
  /\ Proxy!Signal(w) \/ Proxy!WriteError(w)
  /\ Proxy!UpdateAgain(w, requested', StartCaller)

Started(w) ==
  /\ writes[w].caller = StartCaller
  /\ Repo!Started
  /\ Proxy!WriteSucceeds(w)

(* The container is started anew: it was killed, or start()'s own update   *)
(* failed and main() ended the process.                                    *)
Restart ==
  /\ Repo!Restart
  /\ Proxy!Restart
  /\ UNCHANGED crashes

StartFails(w) ==
  /\ writes[w].caller = StartCaller
  /\ phase = "updating"
  /\ writes[w].pc \in {"opening", "truncated"}
  /\ Proxy!Fail
  /\ Repo!Restart
  /\ Proxy!Restart

Settled(w) == Unawaited(w) \/ CreateSettled(w) \/ StartEnforced(w) \/ Started(w)

Next ==
  \/ CreateNewAccessKey
  \/ \E id \in Repo!Ids : RemoveAccessKey(id)
  \/ \E t \in Tasks : LimitStatusChanged(t)
  \/ StartUpdate
  \/ RepositoryStep
  \/ ProxyStep
  \/ \E w \in Writes : Unawaited(w)
  \/ \E w \in Writes : CreateSettled(w)
  \/ \E w \in Writes : StartEnforced(w)
  \/ \E w \in Writes : Started(w)
  \/ \E w \in Writes : StartFails(w)
  \/ Restart

Spec == Init /\ [][Next]_vars

(* What the event loop, the thread pool, Prometheus and the proxy do by    *)
(* themselves; no request and no fault is fair.                            *)
Fairness ==
  /\ \A t \in Tasks :
       WF_vars(\/ RepositoryStep /\ Repo!PrometheusAnswers(t)
               \/ RepositoryStep /\ Repo!LimitStatusUnchanged(t)
               \/ LimitStatusChanged(t))
  /\ WF_vars(RepositoryStep /\ Repo!HourlyEnforcement)
  /\ WF_vars(StartUpdate)
  /\ \A w \in Writes :
       WF_vars(\/ ProxyStep /\ Proxy!OpenFile(w)
               \/ ProxyStep /\ Proxy!WriteData(w)
               \/ Settled(w))
  /\ WF_vars(ProxyStep /\ (\/ Proxy!ProcessStarts
                          \/ Proxy!ProcessReloads
                          \/ Proxy!ExitEvent))

FairSpec == Spec /\ Fairness

----------------------------------------------------------------------------
(* Nothing is under way that would still change what the proxy serves. *)
Quiet == Proxy!Serial /\ process = "up" /\ ~hup

(* Once nothing is under way, and unless the last update failed or was     *)
(* called while another was being written, the proxy accepts exactly the   *)
(* keys that exist and are within their limits.                            *)
EnabledKeysServed ==
  (Quiet /\ ~overlapped /\ ~broken) => loaded = keys \ over

(* However updates of a POST, a DELETE and start() overlap: a running proxy *)
(* that does not serve what its file lists has a SIGHUP coming, unless the *)
(* last write failed or two writes mixed in the file.                      *)
NoLostReload == Proxy!NoLostReload

(* The proxy never accepts a key beyond those the repository has created,  *)
(* not even one that its own file still lists from before a restart that   *)
(* lost the key.                                                           *)
NoUnknownKeyServed == \A k \in loaded : k < nextId

(* "Updates the server to accept only the given access keys"               *)
(* (model/shadowsocks_server.ts): a key whose DELETE was answered is not   *)
(* accepted any more, at least once nothing is under way.                  *)
DeletedKeyRefused ==
  (Quiet /\ phase = "running" /\ \A t \in Tasks : tasks[t].pc = "idle")
    => loaded \cap removed = {}

(* The exact condition under which that holds, in any phase and with any   *)
(* enforcement under way: the last updates did not overlap or fail, and no *)
(* restart lost a change of the files (an id that is given out again is    *)
(* that of another key).                                                   *)
RemovedKeysRefused ==
  (Quiet /\ ~overlapped /\ ~broken /\ ~lost) => loaded \cap removed = {}

(* ... and, once every enforcement was made, the keys that are accepted are*)
(* exactly those whose usage, as Prometheus last reported it, is within    *)
(* the limit that they have now.                                           *)
LimitsServed ==
  (/\ Quiet /\ ~overlapped /\ ~broken /\ ~lost
   /\ ~missed /\ \A t \in Tasks : tasks[t].pc = "idle")
    => loaded = keys \ Repo!OverLimit(lastSample)

(* If usage, keys and limits come to rest and nothing fails any more, the  *)
(* proxy ends up accepting exactly the keys whose usage is within their    *)
(* limits, unless the last updates overlapped, the last write failed or    *)
(* the process could not be spawned.                                       *)
Disturbance == <<usage, keys, limits, defaultLimit, faults, crashes>>
LimitsReachProxy ==
  <>[][UNCHANGED Disturbance]_vars
    => <>[](\/ overlapped \/ broken \/ process = "gone"
            \/ loaded = keys \ Repo!OverLimit(usage))
============================================================================
