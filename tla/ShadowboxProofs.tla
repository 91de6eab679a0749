-------------------------- MODULE ShadowboxProofs --------------------------
(***************************************************************************)
(* For any number of keys, requests, overlapping writes and failures: what *)
(* the proxy serves when the repository and the proxy manager run          *)
(* together, that the whole implements AccessKeyRepository, and what it    *)
(* therefore inherits from the theorems about that module.  Only those     *)
(* that inherit need the assumption AccessKeyRepository makes on its       *)
(* constants.                                                              *)
(***************************************************************************)
EXTENDS Shadowbox, TLAPS

----------------------------------------------------------------------------
(* What a step is for the proxy.  The repository asks for the keys it then *)
(* has that are within their limits, whether it starts an update or        *)
(* replaces the one that start() has just seen settled.                    *)
AsksAnew == \E c \in Nat \cup {StartCaller, NoCaller} :
              Proxy!Update(keys' \ over', c)
AsksAgain(w) ==
  /\ Proxy!Signal(w) \/ Proxy!WriteError(w)
  /\ Proxy!UpdateAgain(w, keys' \ over', StartCaller)

(* The proxy goes on by itself, or the repository does.                    *)
ProxyGoesOn ==
  \/ Proxy!Internal
  \/ \E w \in Writes : Proxy!WriteSucceeds(w) \/ Proxy!WriteFails(w)

SameKeys == UNCHANGED <<keys, over, nextId, keyFile>>

(* Memory and file list keys whose ids were given out. *)
Below(n) == {k \in Nat : k < n}

KeysGivenOut ==
  /\ nextId \in Nat /\ keys \subseteq Below(nextId)
  /\ keyFile.nextId \in Nat /\ keyFile.keys \subseteq Below(keyFile.nextId)

LEMMA StepKinds ==
  KeysGivenOut /\ [Next]_vars =>
    \/ AsksAnew
    \/ \E w \in Writes : AsksAgain(w)
    \/ ProxyGoesOn /\ SameKeys
    \/ UNCHANGED <<proxyVars, keys, over, nextId>>
    \/ Proxy!Restart
<1> SUFFICES ASSUME KeysGivenOut, [Next]_vars
             PROVE  \/ AsksAnew
                    \/ \E w \in Writes : AsksAgain(w)
                    \/ ProxyGoesOn /\ SameKeys
                    \/ UNCHANGED <<proxyVars, keys, over, nextId>>
                    \/ Proxy!Restart
  OBVIOUS
<1>1. CASE CreateNewAccessKey
  <2>1. requested' = keys' \ over' /\ nextId \in Nat
    BY <1>1 DEF CreateNewAccessKey, Repo!CreateNewAccessKey,
       Repo!UpdateServer, KeysGivenOut
  <2> QED
    BY <1>1, <2>1 DEF CreateNewAccessKey, AsksAnew
<1>2. ASSUME NEW id \in Repo!Ids, RemoveAccessKey(id) PROVE AsksAnew
  BY <1>2 DEF RemoveAccessKey, Repo!RemoveAccessKey, Repo!UpdateServer,
     AsksAnew
<1>3. ASSUME NEW t \in Tasks, LimitStatusChanged(t) PROVE AsksAnew
  <2>1. requested' = keys' \ over'
    BY <1>3 DEF LimitStatusChanged, Repo!LimitStatusChanged,
       Repo!ApplyLimits, Repo!UpdateServer
  <2> QED
    BY <1>3, <2>1 DEF LimitStatusChanged, AsksAnew
<1>4. CASE StartUpdate
  <2>1. requested' = keys' \ over'
    BY <1>4 DEF StartUpdate, Repo!StartWithinLimits, Repo!StartUnenforced,
       Repo!StartUpdate, Repo!ApplyLimits, Repo!QueryFailed,
       Repo!UpdateServer, Repo!memory
  <2> QED
    BY <1>4, <2>1 DEF StartUpdate, AsksAnew
<1>5. CASE RepositoryStep
  <2>1. CASE Repo!ConfigNext
    <3>1. UNCHANGED <<keys, over, nextId>>
      BY <2>1 DEF Repo!ConfigNext, Repo!RenameAccessKey,
         Repo!SetAccessKeyDataLimit, Repo!RemoveAccessKeyDataLimit,
         Repo!ChangeAccessKeyLimit, Repo!SetDefaultDataLimit,
         Repo!RemoveDefaultDataLimit, Repo!ChangeDefaultLimit,
         Repo!RenameServer, Repo!HourlyEnforcement,
         Repo!LimitStatusUnchanged, Repo!ApplyLimits, Repo!EnforcementFails,
         Repo!QueryFailed, Repo!memory
    <3> QED
      BY <1>5, <3>1 DEF RepositoryStep
  <2>2. CASE Repo!EnvironmentNext
    BY <1>5, <2>2 DEF RepositoryStep, Repo!EnvironmentNext,
       Repo!PrometheusAnswers, Repo!UsageChanges, Repo!memory
  <2> QED
    BY <1>5, <2>1, <2>2 DEF RepositoryStep
<1>6. CASE ProxyStep
  BY <1>6 DEF ProxyStep, ProxyGoesOn, SameKeys, repositoryVars
<1>7. ASSUME NEW w \in Writes, Unawaited(w) PROVE ProxyGoesOn /\ SameKeys
  BY <1>7 DEF Unawaited, ProxyGoesOn, SameKeys, repositoryVars
<1>8. ASSUME NEW w \in Writes, CreateSettled(w) PROVE ProxyGoesOn /\ SameKeys
  BY <1>8 DEF CreateSettled, ProxyGoesOn, SameKeys, Repo!AnswerCreate,
     Repo!CreateRejected, Repo!memory, Repo!disk
<1>9. ASSUME NEW w \in Writes, StartEnforced(w) PROVE AsksAgain(w)
  <2>1. requested' = keys' \ over'
    BY <1>9 DEF StartEnforced, Repo!StartEnforced, Repo!StartUpdate,
       Repo!UpdateServer, Repo!memory
  <2> QED
    BY <1>9, <2>1 DEF StartEnforced, AsksAgain
<1>10. ASSUME NEW w \in Writes, Started(w) PROVE ProxyGoesOn /\ SameKeys
  BY <1>10 DEF Started, Repo!Started, ProxyGoesOn, SameKeys, Repo!memory,
     Repo!disk
<1>11. CASE Restart \/ \E w \in Writes : StartFails(w)
  BY <1>11 DEF Restart, StartFails
<1>12. CASE UNCHANGED vars
  BY <1>12 DEF vars, repositoryVars
<1> QED
  BY <1>1, <1>2, <1>3, <1>4, <1>5, <1>6, <1>7, <1>8, <1>9, <1>10, <1>11,
     <1>12 DEF Next

(* A file of keys is what was there, or what is in memory after the step.  *)
LEMMA NextKeysGivenOut ==
  KeysGivenOut /\ [Next]_vars => KeysGivenOut'
<1> SUFFICES ASSUME KeysGivenOut, [Next]_vars PROVE KeysGivenOut'
  OBVIOUS
<1>1. ASSUME UNCHANGED <<keys, nextId>>,
             keyFile' = keyFile \/ \E lims : Repo!SaveAccessKeys(keys, lims, nextId)
      PROVE  KeysGivenOut'
  BY <1>1 DEF KeysGivenOut, Repo!SaveAccessKeys
<1>2. CASE CreateNewAccessKey
  <2>1. /\ nextId' = nextId + 1 /\ keys' = keys \cup {nextId}
        /\ Repo!SaveAccessKeys(keys', limits, nextId')
    BY <1>2 DEF CreateNewAccessKey, Repo!CreateNewAccessKey
  <2>2. nextId' \in Nat /\ keys' \subseteq Below(nextId')
    BY <2>1 DEF KeysGivenOut, Below
  <2> QED
    BY <2>1, <2>2 DEF KeysGivenOut, Repo!SaveAccessKeys
<1>3. ASSUME NEW id \in Repo!Ids, RemoveAccessKey(id) PROVE KeysGivenOut'
  <2>1. /\ nextId' = nextId /\ keys' = keys \ {id}
        /\ Repo!SaveAccessKeys(keys', limits', nextId)
    BY <1>3 DEF RemoveAccessKey, Repo!RemoveAccessKey
  <2>2. keys' \subseteq Below(nextId')
    BY <2>1 DEF KeysGivenOut
  <2> QED
    BY <2>1, <2>2 DEF KeysGivenOut, Repo!SaveAccessKeys
<1>4. ASSUME NEW t \in Tasks, LimitStatusChanged(t) PROVE KeysGivenOut'
  BY <1>1, <1>4 DEF LimitStatusChanged, Repo!LimitStatusChanged,
     Repo!ApplyLimits, Repo!disk
<1>5. CASE StartUpdate
  BY <1>1, <1>5 DEF StartUpdate, Repo!StartWithinLimits, Repo!ApplyLimits,
     Repo!StartUnenforced, Repo!QueryFailed, Repo!memory, Repo!disk
<1>6. CASE Repo!ConfigNext
  <2>1. ASSUME NEW id \in Repo!Ids, Repo!RenameAccessKey(id)
        PROVE  KeysGivenOut'
    BY <1>1, <2>1 DEF Repo!RenameAccessKey, Repo!memory
  <2>2. ASSUME NEW id \in Repo!Ids, NEW l, Repo!ChangeAccessKeyLimit(id, l)
        PROVE  KeysGivenOut'
    BY <1>1, <2>2 DEF Repo!ChangeAccessKeyLimit
  <2>3. ASSUME NEW l, Repo!ChangeDefaultLimit(l) PROVE KeysGivenOut'
    BY <1>1, <2>3 DEF Repo!ChangeDefaultLimit, Repo!SaveServerConfig
  <2>4. CASE Repo!RenameServer
    BY <1>1, <2>4 DEF Repo!RenameServer, Repo!SaveServerConfig, Repo!memory
  <2>5. CASE Repo!HourlyEnforcement
    BY <1>1, <2>5 DEF Repo!HourlyEnforcement, Repo!memory, Repo!disk
  <2>6. ASSUME NEW t \in Tasks,
               Repo!LimitStatusUnchanged(t) \/ Repo!EnforcementFails(t)
        PROVE  KeysGivenOut'
    BY <1>1, <2>6 DEF Repo!LimitStatusUnchanged, Repo!ApplyLimits,
       Repo!EnforcementFails, Repo!QueryFailed, Repo!memory, Repo!disk
  <2> QED
    BY <1>6, <2>1, <2>2, <2>3, <2>4, <2>5, <2>6
    DEF Repo!ConfigNext, Repo!SetAccessKeyDataLimit,
        Repo!RemoveAccessKeyDataLimit, Repo!SetDefaultDataLimit,
        Repo!RemoveDefaultDataLimit
<1>7. CASE Repo!EnvironmentNext
  BY <1>1, <1>7 DEF Repo!EnvironmentNext, Repo!PrometheusAnswers,
     Repo!UsageChanges, Repo!memory, Repo!disk
<1>8. CASE \/ ProxyStep
           \/ \E w \in Writes : \/ Unawaited(w) \/ CreateSettled(w)
                                \/ StartEnforced(w) \/ Started(w)
  BY <1>1, <1>8 DEF ProxyStep, Unawaited, CreateSettled, StartEnforced,
     Started, repositoryVars, Repo!AnswerCreate, Repo!CreateRejected,
     Repo!StartEnforced, Repo!Started, Repo!memory, Repo!disk
<1>9. CASE Restart \/ \E w \in Writes : StartFails(w)
  <2>1. /\ keys' = keyFile.keys /\ nextId' = keyFile.nextId
        /\ keyFile' = keyFile
    BY <1>9 DEF Restart, StartFails, Repo!Restart, Repo!Boot, Repo!disk
  <2> QED
    BY <2>1 DEF KeysGivenOut
<1>10. CASE UNCHANGED vars
  BY <1>1, <1>10 DEF vars, repositoryVars
<1> QED
  BY <1>2, <1>3, <1>4, <1>5, <1>6, <1>7, <1>8, <1>9, <1>10
  DEF Next, RepositoryStep

(* Ids are not taken back, except by a restart.                            *)
LEMMA IdsGrow ==
  KeysGivenOut /\ [Next]_vars =>
    nextId' \in {nextId, nextId + 1} \/ Proxy!Restart
<1> SUFFICES ASSUME KeysGivenOut, [Next]_vars, ~Proxy!Restart
             PROVE  nextId' \in {nextId, nextId + 1}
  OBVIOUS
<1>1. CASE CreateNewAccessKey
  BY <1>1 DEF CreateNewAccessKey, Repo!CreateNewAccessKey
<1>2. CASE \/ \E id \in Repo!Ids : RemoveAccessKey(id)
           \/ \E t \in Tasks : LimitStatusChanged(t)
           \/ StartUpdate
  BY <1>2 DEF RemoveAccessKey, Repo!RemoveAccessKey, LimitStatusChanged,
     Repo!LimitStatusChanged, Repo!ApplyLimits, StartUpdate,
     Repo!StartWithinLimits, Repo!StartUnenforced, Repo!QueryFailed,
     Repo!memory
<1>3. CASE \/ RepositoryStep \/ ProxyStep
           \/ \E w \in Writes : \/ Unawaited(w) \/ CreateSettled(w)
                                \/ Started(w)
  BY <1>3 DEF RepositoryStep, Repo!ConfigNext, Repo!RenameAccessKey,
     Repo!SetAccessKeyDataLimit, Repo!RemoveAccessKeyDataLimit,
     Repo!ChangeAccessKeyLimit, Repo!SetDefaultDataLimit,
     Repo!RemoveDefaultDataLimit, Repo!ChangeDefaultLimit,
     Repo!RenameServer, Repo!HourlyEnforcement, Repo!LimitStatusUnchanged,
     Repo!ApplyLimits, Repo!EnforcementFails, Repo!QueryFailed,
     Repo!EnvironmentNext, Repo!PrometheusAnswers, Repo!UsageChanges,
     ProxyStep, Unawaited, CreateSettled, Repo!AnswerCreate,
     Repo!CreateRejected, Started, Repo!Started, repositoryVars, Repo!memory
<1>4. ASSUME NEW w \in Writes, StartEnforced(w) PROVE nextId' = nextId
  BY <1>4 DEF StartEnforced, Repo!StartEnforced, Repo!memory
<1>5. CASE Restart \/ \E w \in Writes : StartFails(w)
  BY <1>5 DEF Restart, StartFails
<1>6. CASE UNCHANGED vars
  BY <1>6 DEF vars, repositoryVars
<1> QED
  BY <1>1, <1>2, <1>3, <1>4, <1>5, <1>6 DEF Next

----------------------------------------------------------------------------
(* No key beyond those that were given out is served.  The file of the     *)
(* proxy may list one that a restart has lost; but no process runs before  *)
(* a write has emptied the file.                                           *)
WriteRecord ==
  [pc : {"idle", "opening", "truncated", "written"}, keys : SUBSET Nat,
   caller : Nat \cup {StartCaller, NoCaller}]

WritesTyped == writes \in [Writes -> WriteRecord]

UnknownKept ==
  /\ loaded \subseteq Below(nextId)
  /\ \A w \in Writes : writes[w].keys \subseteq Below(nextId)
  /\ process # "none" \/ Proxy!Unsettled => file.keys \subseteq Below(nextId)

KnownInv == KeysGivenOut /\ WritesTyped /\ UnknownKept

(* What a write leaves in the file lists keys it wrote or found there. *)
LEMMA OverlayKeys ==
  ASSUME NEW ks, NEW content, NEW f \in Proxy!Overlay(ks, content)
  PROVE  f.keys \subseteq ks \cup content.keys
<1>1. \A n : Proxy!Rest(content.keys, n) \subseteq content.keys
  BY DEF Proxy!Rest
<1>2. f \in {Proxy!Config(ks), Proxy!Garbled,
             Proxy!Config(ks \cup Proxy!Rest(content.keys, Proxy!Cardinality(ks)))}
  BY DEF Proxy!Overlay
<1> QED
  BY <1>1, <1>2 DEF Proxy!Config, Proxy!Garbled

LEMMA InitKnownInv == Init => KnownInv
<1> SUFFICES ASSUME Init PROVE KnownInv
  OBVIOUS
<1>1. KeysGivenOut
  BY DEF Init, Repo!Init, Repo!EmptyFile, KeysGivenOut
<1>2. writes = [w \in Writes |-> Proxy!Idle] /\ loaded = {} /\ process = "none"
  BY DEF Init, Proxy!Init
<1>3. WritesTyped
  BY <1>2 DEF Proxy!Idle, WritesTyped, WriteRecord
<1>4. UnknownKept
  BY <1>2 DEF Proxy!Idle, UnknownKept, Proxy!Unsettled
<1> QED
  BY <1>1, <1>3, <1>4 DEF KnownInv

(* The keys that are written, loaded and found in the file stay known      *)
(* while ids are only given out.                                           *)
LEMMA BelowGrows ==
  ASSUME NEW m \in Nat, NEW n \in {m, m + 1}
  PROVE  Below(m) \subseteq Below(n)
BY DEF Below

(* One write of the proxy's file starts. *)
LEMMA OpeningTyped ==
  ASSUME KnownInv, NEW w \in Writes, NEW ks \in SUBSET Below(nextId'),
         NEW c \in Nat \cup {StartCaller, NoCaller},
         writes' = [writes EXCEPT ![w] = Proxy!Opening(ks, c)],
         nextId' \in {nextId, nextId + 1}
  PROVE  /\ WritesTyped'
         /\ \A v \in Writes : writes'[v].keys \subseteq Below(nextId')
         /\ Proxy!Unsettled' => Proxy!Unsettled
<1>1. Below(nextId) \subseteq Below(nextId') /\ Below(nextId') \subseteq Nat
  BY BelowGrows DEF KnownInv, KeysGivenOut, Below
<1>2. Proxy!Opening(ks, c) \in WriteRecord
  BY <1>1 DEF Proxy!Opening, WriteRecord
<1>3. WritesTyped'
  BY <1>2 DEF KnownInv, WritesTyped
<1>4. \A v \in Writes : writes'[v] = IF v = w THEN Proxy!Opening(ks, c)
                                     ELSE writes[v]
  BY DEF KnownInv, WritesTyped
<1>5. \A v \in Writes : writes'[v].keys \subseteq Below(nextId')
  BY <1>1, <1>4 DEF KnownInv, UnknownKept, Proxy!Opening
<1>6. Proxy!Unsettled' => Proxy!Unsettled
  BY <1>4 DEF Proxy!Unsettled, Proxy!Opening
<1> QED
  BY <1>3, <1>5, <1>6

(* One write ends. *)
LEMMA IdleTyped ==
  ASSUME KnownInv, NEW w \in Writes,
         writes' = [writes EXCEPT ![w] = Proxy!Idle], nextId' = nextId
  PROVE  /\ WritesTyped'
         /\ \A v \in Writes : writes'[v].keys \subseteq Below(nextId')
         /\ Proxy!Unsettled' => Proxy!Unsettled
<1>1. Proxy!Idle \in WriteRecord
  BY DEF Proxy!Idle, WriteRecord
<1>2. WritesTyped'
  BY <1>1 DEF KnownInv, WritesTyped
<1>3. \A v \in Writes : writes'[v] = IF v = w THEN Proxy!Idle ELSE writes[v]
  BY DEF KnownInv, WritesTyped
<1> QED
  BY <1>2, <1>3 DEF KnownInv, UnknownKept, Proxy!Unsettled, Proxy!Idle

(* One write goes on. *)
LEMMA AdvanceTyped ==
  ASSUME KnownInv, NEW w \in Writes, NEW from,
         NEW to \in {"truncated", "written"},
         Proxy!Advance(w, from, to), nextId' = nextId
  PROVE  /\ WritesTyped'
         /\ \A v \in Writes : writes'[v].keys \subseteq Below(nextId')
<1>1. WritesTyped'
  BY DEF Proxy!Advance, KnownInv, WritesTyped, WriteRecord
<1>2. \A v \in Writes : writes'[v].keys = writes[v].keys
  BY DEF Proxy!Advance, KnownInv, WritesTyped, WriteRecord
<1> QED
  BY <1>1, <1>2 DEF KnownInv, UnknownKept

LEMMA NextKnownInv == KnownInv /\ [Next]_vars => KnownInv'
<1> SUFFICES ASSUME KnownInv, [Next]_vars PROVE KnownInv'
  OBVIOUS
<1>1. KeysGivenOut'
  BY NextKeysGivenOut DEF KnownInv
<1> SUFFICES WritesTyped' /\ UnknownKept'
  BY <1>1 DEF KnownInv
<1>2. CASE Proxy!Restart
  BY <1>2 DEF Proxy!Restart, Proxy!Idle, WritesTyped, WriteRecord,
     UnknownKept, Proxy!Unsettled
<1>3. SUFFICES ASSUME nextId' \in {nextId, nextId + 1}
               PROVE  WritesTyped' /\ UnknownKept'
  BY <1>2, IdsGrow DEF KnownInv
<1>4. Below(nextId) \subseteq Below(nextId') /\ keys' \ over' \in SUBSET Below(nextId')
  BY <1>1, <1>3, BelowGrows DEF KnownInv, KeysGivenOut
<1>5. CASE AsksAnew
  <2>1. PICK c \in Nat \cup {StartCaller, NoCaller} :
               Proxy!Update(keys' \ over', c)
    BY <1>5 DEF AsksAnew
  <2>2. PICK w \in Writes :
               writes' = [writes EXCEPT ![w] = Proxy!Opening(keys' \ over', c)]
    BY <2>1 DEF Proxy!Update, Proxy!IdleWrites
  <2>3. UNCHANGED <<file, process, loaded>>
    BY <2>1 DEF Proxy!Update
  <2> QED
    BY <1>3, <1>4, <2>2, <2>3, OpeningTyped DEF KnownInv, UnknownKept
<1>6. ASSUME NEW w \in Writes, AsksAgain(w) PROVE WritesTyped' /\ UnknownKept'
  <2>1. /\ writes' = [writes EXCEPT ![w] =
                        Proxy!Opening(keys' \ over', StartCaller)]
        /\ UNCHANGED <<file, loaded>>
    BY <1>6 DEF AsksAgain, Proxy!Signal, Proxy!WriteError, Proxy!UpdateAgain
  <2>2. process' # "none" => process # "none" \/ Proxy!Unsettled
    BY <1>6 DEF AsksAgain, Proxy!Signal, Proxy!WriteError, Proxy!Unsettled
  <2> QED
    BY <1>3, <1>4, <2>1, <2>2, OpeningTyped DEF KnownInv, UnknownKept
<1>7. CASE ProxyGoesOn /\ SameKeys
  <2>1. nextId' = nextId
    BY <1>7 DEF SameKeys
  <2>2. ASSUME NEW w \in Writes, Proxy!OpenFile(w)
        PROVE  WritesTyped' /\ UnknownKept'
    <3>1. file' = Proxy!Empty /\ UNCHANGED <<process, loaded>>
      BY <2>2 DEF Proxy!OpenFile
    <3>2. Proxy!Advance(w, "opening", "truncated")
      BY <2>2 DEF Proxy!OpenFile
    <3> QED
      BY <2>1, <3>1, <3>2, AdvanceTyped
      DEF KnownInv, UnknownKept, Proxy!Empty, Proxy!Config
  <2>3. ASSUME NEW w \in Writes, Proxy!WriteData(w)
        PROVE  WritesTyped' /\ UnknownKept'
    <3>1. /\ file' \in Proxy!Overlay(writes[w].keys, file)
          /\ UNCHANGED <<process, loaded>>
          /\ Proxy!Advance(w, "truncated", "written")
      BY <2>3 DEF Proxy!WriteData
    <3>2. Proxy!Unsettled
      BY <3>1 DEF Proxy!Advance, Proxy!Unsettled
    <3>3. file'.keys \subseteq Below(nextId)
      BY <3>1, <3>2, OverlayKeys DEF KnownInv, UnknownKept
    <3> QED
      BY <2>1, <3>1, <3>3, AdvanceTyped DEF KnownInv, UnknownKept
  <2>4. ASSUME NEW w \in Writes, Proxy!WriteSucceeds(w) \/ Proxy!WriteFails(w)
        PROVE  WritesTyped' /\ UnknownKept'
    <3>1. writes' = [writes EXCEPT ![w] = Proxy!Idle] /\ UNCHANGED <<file, loaded>>
      BY <2>4 DEF Proxy!WriteSucceeds, Proxy!WriteFails, Proxy!Signal,
         Proxy!WriteError, Proxy!Finish
    <3>2. process' # "none" => process # "none" \/ Proxy!Unsettled
      BY <2>4 DEF Proxy!WriteSucceeds, Proxy!WriteFails, Proxy!Signal,
         Proxy!WriteError, Proxy!Unsettled
    <3> QED
      BY <2>1, <3>1, <3>2, IdleTyped DEF KnownInv, UnknownKept
  <2>5. CASE Proxy!ProcessStarts \/ Proxy!ProcessReloads
    <3>1. /\ UNCHANGED <<writes, file>> /\ process # "none"
          /\ loaded' \in {file.keys, loaded}
      BY <2>5 DEF Proxy!ProcessStarts, Proxy!ProcessReloads
    <3> QED
      BY <2>1, <3>1 DEF KnownInv, WritesTyped, UnknownKept, Proxy!Unsettled
  <2>6. CASE Proxy!ProcessCrashes \/ Proxy!SpawnFails \/ Proxy!ExitEvent
    <3>1. /\ UNCHANGED <<writes, file>> /\ process # "none"
          /\ loaded' \in {{}, loaded}
      BY <2>6 DEF Proxy!ProcessCrashes, Proxy!SpawnFails, Proxy!ExitEvent
    <3> QED
      BY <2>1, <3>1 DEF KnownInv, WritesTyped, UnknownKept, Proxy!Unsettled
  <2> QED
    BY <1>7, <2>2, <2>3, <2>4, <2>5, <2>6 DEF ProxyGoesOn, Proxy!Internal
<1>8. CASE UNCHANGED <<proxyVars, keys, over, nextId>>
  BY <1>8 DEF proxyVars, KnownInv, WritesTyped, UnknownKept, Proxy!Unsettled
<1> QED
  BY <1>2, <1>5, <1>6, <1>7, <1>8, StepKinds DEF KnownInv

(* The proxy never accepts a key that the repository did not create: ids   *)
(* that a restart takes back, because their file was not written, are in   *)
(* the file of the proxy still, but no process reads that file before an   *)
(* update has emptied it.                                                  *)
THEOREM OnlyKnownKeysServed == Spec => []NoUnknownKeyServed
<1>1. KnownInv => NoUnknownKeyServed
  BY DEF KnownInv, UnknownKept, NoUnknownKeyServed, Below
<1> QED
  BY <1>1, InitKnownInv, NextKnownInv, PTL DEF Spec

----------------------------------------------------------------------------
(* A reload that is due is not lost, although the end of one update and    *)
(* the start of the next may be one step here.                             *)
LEMMA NextNoLostReload ==
  KnownInv /\ NoLostReload /\ [Next]_vars => NoLostReload'
<1> SUFFICES ASSUME KnownInv, NoLostReload, [Next]_vars PROVE NoLostReload'
  OBVIOUS
<1> USE DEF NoLostReload
<1>1. CASE AsksAnew
  <2>1. PICK c \in Nat \cup {StartCaller, NoCaller} :
               Proxy!Update(keys' \ over', c)
    BY <1>1 DEF AsksAnew
  <2>2. Proxy!Unsettled => Proxy!Unsettled'
    BY <2>1 DEF Proxy!Update, Proxy!IdleWrites, Proxy!Unsettled, KnownInv,
       WritesTyped
  <2> QED
    BY <2>1, <2>2 DEF Proxy!Update, Proxy!NoLostReload
<1>2. ASSUME NEW w \in Writes,
             Proxy!Signal(w) \/ Proxy!WriteError(w)
      PROVE  NoLostReload'
  <2>1. CASE Proxy!Signal(w)
    <3>1. process' = "up" => hup'
      BY <2>1 DEF Proxy!Signal
    <3> QED
      BY <3>1 DEF Proxy!NoLostReload
  <2>2. CASE Proxy!WriteError(w)
    BY <2>2 DEF Proxy!WriteError, Proxy!NoLostReload
  <2> QED
    BY <1>2, <2>1, <2>2
<1>3. ASSUME NEW w \in Writes, Proxy!OpenFile(w) \/ Proxy!WriteData(w)
      PROVE  NoLostReload'
  <2>1. writes'[w].pc \in {"truncated", "written"}
    BY <1>3 DEF Proxy!OpenFile, Proxy!WriteData, Proxy!Advance, KnownInv,
       WritesTyped, WriteRecord
  <2> QED
    BY <2>1 DEF Proxy!NoLostReload, Proxy!Unsettled
<1>4. CASE \/ Proxy!ProcessStarts \/ Proxy!ProcessReloads
           \/ Proxy!ProcessCrashes \/ Proxy!SpawnFails \/ Proxy!ExitEvent
           \/ Proxy!Restart
  BY <1>4 DEF Proxy!ProcessStarts, Proxy!ProcessReloads,
     Proxy!ProcessCrashes, Proxy!SpawnFails, Proxy!ExitEvent, Proxy!Restart,
     Proxy!NoLostReload
<1>5. CASE UNCHANGED proxyVars
  BY <1>5 DEF proxyVars, Proxy!NoLostReload, Proxy!Unsettled
<1> QED
  BY <1>1, <1>2, <1>3, <1>4, <1>5, StepKinds
  DEF AsksAgain, ProxyGoesOn, Proxy!Internal, Proxy!WriteSucceeds,
      Proxy!WriteFails, KnownInv

(* However the updates of a POST, a DELETE, an enforcement and start()     *)
(* overlap, a running proxy that does not serve what its file lists has a  *)
(* SIGHUP coming, unless the last write failed or two mixed in the file.   *)
THEOREM ReloadsNotLost == Spec => []NoLostReload
<1>1. Init => NoLostReload
  BY DEF Init, Proxy!Init, NoLostReload, Proxy!NoLostReload
<1> QED
  BY <1>1, InitKnownInv, NextKnownInv, NextNoLostReload, PTL DEF Spec

----------------------------------------------------------------------------
(* The right keys are served.  From the first update of a process on, the  *)
(* last one asked for the keys that exist and are within their limits;     *)
(* unless it overlapped another one, the write under way is its own, and   *)
(* the file is what this write left there.                                 *)
Active(w) == writes[w].pc # "idle"

AskedForEnabled ==
  process # "none" \/ (\E w \in Writes : Active(w)) => asked = keys \ over

OneWrite == \A v, w \in Writes : Active(v) /\ Active(w) => v = w

WriteOfLastUpdate ==
  \A w \in Writes :
    /\ Active(w) => writes[w].keys = asked
    /\ writes[w].pc = "truncated" => file = Proxy!Empty
    /\ writes[w].pc = "written" => file = Proxy!Config(asked)

FileOfLastUpdate ==
  ~broken /\ process # "none" /\ (\A w \in Writes : ~Active(w))
    => file = Proxy!Config(asked)

LastUpdateInFile == OneWrite /\ WriteOfLastUpdate /\ FileOfLastUpdate

ServedInv == AskedForEnabled /\ (~overlapped => LastUpdateInFile)

LEMMA InitServedInv == Init => ServedInv
BY DEF Init, Proxy!Init, Proxy!Idle, ServedInv, AskedForEnabled,
   LastUpdateInFile, OneWrite, WriteOfLastUpdate, FileOfLastUpdate, Active

(* A write that starts while no other is under way is the last update's.   *)
LEMMA OpeningAlone ==
  ASSUME WritesTyped, NEW w \in Writes, NEW c,
         writes' = [writes EXCEPT ![w] = Proxy!Opening(asked', c)]
  PROVE  /\ Active(w)'
         /\ (\A v \in Writes \ {w} : ~Active(v)) => LastUpdateInFile'
<1>1. \A v \in Writes : writes'[v] = IF v = w THEN Proxy!Opening(asked', c)
                                     ELSE writes[v]
  BY DEF WritesTyped
<1>2. writes'[w].pc = "opening" /\ writes'[w].keys = asked'
  BY <1>1 DEF Proxy!Opening
<1>3. ASSUME \A v \in Writes \ {w} : ~Active(v) PROVE LastUpdateInFile'
  <2>1. \A v \in Writes \ {w} : writes'[v].pc = "idle"
    BY <1>1, <1>3 DEF Active
  <2> QED
    BY <1>2, <2>1 DEF LastUpdateInFile, OneWrite, WriteOfLastUpdate,
       FileOfLastUpdate, Active
<1> QED
  BY <1>2, <1>3 DEF Active

LEMMA NextServedInv == KnownInv /\ ServedInv /\ [Next]_vars => ServedInv'
<1> SUFFICES ASSUME KnownInv, ServedInv, [Next]_vars PROVE ServedInv'
  OBVIOUS
<1>1. WritesTyped
  BY DEF KnownInv
<1>2. CASE AsksAnew
  <2>1. PICK c \in Nat \cup {StartCaller, NoCaller} :
               Proxy!Update(keys' \ over', c)
    BY <1>2 DEF AsksAnew
  <2>2. PICK w \in Writes :
               writes' = [writes EXCEPT ![w] = Proxy!Opening(keys' \ over', c)]
    BY <2>1 DEF Proxy!Update, Proxy!IdleWrites
  <2>3. asked' = keys' \ over' /\ overlapped' = (Proxy!IdleWrites # Writes)
    BY <2>1 DEF Proxy!Update
  <2>4. ~overlapped' => \A v \in Writes \ {w} : ~Active(v)
    BY <2>3 DEF Proxy!IdleWrites, Active
  <2> QED
    BY <1>1, <2>2, <2>3, <2>4, OpeningAlone DEF ServedInv, AskedForEnabled
<1>3. ASSUME NEW w \in Writes, AsksAgain(w) PROVE ServedInv'
  <2>1. /\ writes' = [writes EXCEPT ![w] =
                        Proxy!Opening(keys' \ over', StartCaller)]
        /\ asked' = keys' \ over'
        /\ overlapped' = (Proxy!IdleWrites \cup {w} # Writes)
    BY <1>3 DEF AsksAgain, Proxy!UpdateAgain
  <2>2. ~overlapped' => \A v \in Writes \ {w} : ~Active(v)
    BY <2>1 DEF Proxy!IdleWrites, Active
  <2> QED
    BY <1>1, <2>1, <2>2, OpeningAlone DEF ServedInv, AskedForEnabled
<1>4. ASSUME NEW w \in Writes, Proxy!OpenFile(w) \/ Proxy!WriteData(w),
             UNCHANGED <<keys, over>>
      PROVE  ServedInv'
  <2>1. /\ Active(w) /\ Active(w)' /\ writes'[w].keys = writes[w].keys
        /\ \A v \in Writes \ {w} : writes'[v] = writes[v]
    BY <1>1, <1>4 DEF Proxy!OpenFile, Proxy!WriteData, Proxy!Advance,
       WritesTyped, WriteRecord, Active
  <2>2. UNCHANGED <<process, asked, overlapped, broken>>
    BY <1>4 DEF Proxy!OpenFile, Proxy!WriteData
  <2>3. AskedForEnabled'
    BY <1>4, <2>1, <2>2 DEF ServedInv, AskedForEnabled
  <2>4. ASSUME ~overlapped PROVE LastUpdateInFile'
    <3>1. LastUpdateInFile /\ \A v \in Writes \ {w} : ~Active(v) /\ ~Active(v)'
      BY <2>1, <2>4 DEF ServedInv, LastUpdateInFile, OneWrite, Active
    <3>2. writes'[w].keys = asked'
      BY <2>1, <2>2, <3>1 DEF LastUpdateInFile, WriteOfLastUpdate
    <3>3. CASE Proxy!OpenFile(w)
      <4>1. writes'[w].pc = "truncated" /\ file' = Proxy!Empty
        BY <1>1, <3>3 DEF Proxy!OpenFile, Proxy!Advance, WritesTyped,
           WriteRecord
      <4> QED
        BY <2>1, <3>1, <3>2, <4>1 DEF LastUpdateInFile, OneWrite,
           WriteOfLastUpdate, FileOfLastUpdate, Active
    <3>4. CASE Proxy!WriteData(w)
      <4>1. writes[w].pc = "truncated" /\ writes'[w].pc = "written"
        BY <1>1, <3>4 DEF Proxy!WriteData, Proxy!Advance, WritesTyped,
           WriteRecord
      <4>2. file' \in Proxy!Overlay(asked, Proxy!Empty)
        BY <2>1, <2>2, <3>1, <3>2, <3>4, <4>1
        DEF Proxy!WriteData, LastUpdateInFile, WriteOfLastUpdate
      <4>3. file' = Proxy!Config(asked')
        BY <2>2, <4>2 DEF Proxy!Overlay
      <4> QED
        BY <2>1, <3>1, <3>2, <4>1, <4>3 DEF LastUpdateInFile, OneWrite,
           WriteOfLastUpdate, FileOfLastUpdate, Active
    <3> QED
      BY <1>4, <3>3, <3>4
  <2> QED
    BY <2>2, <2>3, <2>4 DEF ServedInv
<1>5. ASSUME NEW w \in Writes, Proxy!WriteSucceeds(w) \/ Proxy!WriteFails(w),
             UNCHANGED <<keys, over>>
      PROVE  ServedInv'
  <2>1. /\ writes' = [writes EXCEPT ![w] = Proxy!Idle]
        /\ UNCHANGED <<file, asked, overlapped>> /\ Active(w)
    BY <1>5 DEF Proxy!WriteSucceeds, Proxy!WriteFails, Proxy!Signal,
       Proxy!WriteError, Proxy!Finish, Active
  <2>2. \A v \in Writes : writes'[v] = IF v = w THEN Proxy!Idle ELSE writes[v]
    BY <1>1, <2>1 DEF WritesTyped
  <2>3. asked = keys \ over
    BY <2>1 DEF ServedInv, AskedForEnabled
  <2>4. ASSUME ~overlapped PROVE LastUpdateInFile'
    <3>1. LastUpdateInFile /\ \A v \in Writes : ~Active(v)'
      BY <2>1, <2>2, <2>4 DEF ServedInv, LastUpdateInFile, OneWrite, Active,
         Proxy!Idle
    <3>2. CASE Proxy!WriteSucceeds(w)
      <4>1. file = Proxy!Config(asked)
        BY <3>1, <3>2 DEF Proxy!WriteSucceeds, Proxy!Signal,
           LastUpdateInFile, WriteOfLastUpdate
      <4> QED
        BY <2>1, <3>1, <4>1 DEF LastUpdateInFile, OneWrite,
           WriteOfLastUpdate, FileOfLastUpdate, Active
    <3>3. CASE Proxy!WriteFails(w)
      <4>1. broken'
        BY <3>3 DEF Proxy!WriteFails, Proxy!WriteError
      <4> QED
        BY <3>1, <4>1 DEF LastUpdateInFile, OneWrite, WriteOfLastUpdate,
           FileOfLastUpdate, Active
    <3> QED
      BY <1>5, <3>2, <3>3
  <2> QED
    BY <1>5, <2>1, <2>3, <2>4 DEF ServedInv, AskedForEnabled
<1>6. CASE /\ \/ Proxy!ProcessStarts \/ Proxy!ProcessReloads
              \/ Proxy!ProcessCrashes \/ Proxy!SpawnFails \/ Proxy!ExitEvent
           /\ UNCHANGED <<keys, over>>
  <2>1. /\ UNCHANGED <<writes, file, asked, overlapped, broken>>
        /\ process # "none"
    BY <1>6 DEF Proxy!ProcessStarts, Proxy!ProcessReloads,
       Proxy!ProcessCrashes, Proxy!SpawnFails, Proxy!ExitEvent
  <2> QED
    BY <1>6, <2>1 DEF ServedInv, AskedForEnabled, LastUpdateInFile, OneWrite,
       WriteOfLastUpdate, FileOfLastUpdate, Active
<1>7. CASE Proxy!Restart
  <2>1. process' = "none" /\ \A w \in Writes : writes'[w].pc = "idle"
    BY <1>7 DEF Proxy!Restart, Proxy!Idle
  <2> QED
    BY <2>1 DEF ServedInv, AskedForEnabled, LastUpdateInFile, OneWrite,
       WriteOfLastUpdate, FileOfLastUpdate, Active
<1>8. CASE UNCHANGED <<proxyVars, keys, over>>
  BY <1>8 DEF proxyVars, ServedInv, AskedForEnabled, LastUpdateInFile,
     OneWrite, WriteOfLastUpdate, FileOfLastUpdate, Active
<1> QED
  BY <1>2, <1>3, <1>4, <1>5, <1>6, <1>7, <1>8, StepKinds
  DEF ProxyGoesOn, Proxy!Internal, SameKeys, KnownInv

(* Whenever the server has come to rest with the last update neither       *)
(* failed nor overlapped, the proxy accepts exactly the keys that exist    *)
(* and are within their limits: through every way an update can start (a   *)
(* request, an enforcement, start()), crashes of the proxy and restarts.   *)
THEOREM EnabledKeysAreServed == Spec => []EnabledKeysServed
<1>1. ServedInv /\ NoLostReload => EnabledKeysServed
  <2> SUFFICES ASSUME ServedInv, NoLostReload, Quiet, ~overlapped, ~broken
               PROVE  loaded = keys \ over
    BY DEF EnabledKeysServed
  <2>1. process = "up" /\ ~hup /\ \A w \in Writes : writes[w].pc = "idle"
    BY DEF Quiet, Proxy!Serial, Proxy!IdleWrites
  <2>2. file = Proxy!Config(asked) /\ asked = keys \ over
    BY <2>1 DEF ServedInv, AskedForEnabled, LastUpdateInFile,
       FileOfLastUpdate, Active
  <2>3. loaded = file.keys \/ ~file.ok
    BY <2>1 DEF NoLostReload, Proxy!NoLostReload, Proxy!Unsettled
  <2> QED
    BY <2>2, <2>3 DEF Proxy!Config
<1>2. Spec => []NoLostReload
  BY ReloadsNotLost
<1> QED
  BY <1>1, <1>2, InitKnownInv, NextKnownInv, InitServedInv, NextServedInv, PTL
  DEF Spec
----------------------------------------------------------------------------
(* What the repository guarantees alone, it guarantees in the composition: *)
(* every step of the server is one of the repository or leaves it as it is,*)
(* whatever the proxy does and whichever write of its configuration ends.  *)
LEMMA RepositoryUnchanged ==
  UNCHANGED repositoryVars => UNCHANGED Repo!vars
BY DEF repositoryVars, Repo!vars, Repo!memory, Repo!disk, Repo!checked

LEMMA RepositorySteps == Next => Repo!Next \/ UNCHANGED Repo!vars
<1> SUFFICES ASSUME Next PROVE Repo!Next \/ UNCHANGED Repo!vars
  OBVIOUS
<1>1. CASE CreateNewAccessKey
  BY <1>1 DEF CreateNewAccessKey, Repo!Next, Repo!UpdatingNext
<1>2. ASSUME NEW id \in Repo!Ids, RemoveAccessKey(id) PROVE Repo!Next
  BY <1>2 DEF RemoveAccessKey, Repo!Next, Repo!UpdatingNext
<1>3. ASSUME NEW t \in Tasks, LimitStatusChanged(t) PROVE Repo!Next
  BY <1>3 DEF LimitStatusChanged, Repo!Next, Repo!UpdatingNext
<1>4. CASE StartUpdate
  BY <1>4 DEF StartUpdate, Repo!Next, Repo!UpdatingNext
<1>5. CASE RepositoryStep
  BY <1>5 DEF RepositoryStep, Repo!Next
<1>6. CASE ProxyStep
  BY <1>6, RepositoryUnchanged DEF ProxyStep
<1>7. ASSUME NEW w \in Writes, Unawaited(w) PROVE UNCHANGED Repo!vars
  BY <1>7, RepositoryUnchanged DEF Unawaited
<1>8. ASSUME NEW w \in Writes, CreateSettled(w) PROVE Repo!Next
  BY <1>8 DEF CreateSettled, Repo!Next, Repo!SettleNext
<1>9. ASSUME NEW w \in Writes, StartEnforced(w) PROVE Repo!Next
  BY <1>9 DEF StartEnforced, Repo!Next, Repo!UpdatingNext
<1>10. ASSUME NEW w \in Writes, Started(w) PROVE Repo!Next
  BY <1>10 DEF Started, Repo!Next, Repo!SettleNext
<1>11. ASSUME NEW w \in Writes, StartFails(w) PROVE Repo!Next
  BY <1>11 DEF StartFails, Repo!Next
<1>12. CASE Restart
  BY <1>12 DEF Restart, Repo!Next
<1> QED
  BY <1>1, <1>2, <1>3, <1>4, <1>5, <1>6, <1>7, <1>8, <1>9, <1>10, <1>11,
     <1>12 DEF Next

(* The server implements its repository: it starts as that does, and each  *)
(* of its steps is a step of AccessKeyRepository or a stutter.             *)
THEOREM RepositoryImplemented == Spec => Repo!Spec
<1>1. Init => Repo!Init
  BY DEF Init
<1>2. [Next]_vars => [Repo!Next]_(Repo!vars)
  <2>1. CASE Next
    BY <2>1, RepositorySteps
  <2>2. CASE UNCHANGED vars
    BY <2>2, RepositoryUnchanged DEF vars
  <2> QED
    BY <2>1, <2>2
<1> QED
  BY <1>1, <1>2, PTL DEF Spec, Repo!Spec

(* The theorems about the repository are about this instance of it.        *)
RepoProofs == INSTANCE AccessKeyRepositoryProofs

LEMMA SameRepository == Repo!Spec => RepoProofs!Spec
<1> USE DEF
      Repo!Ids, RepoProofs!Ids, Repo!Bytes, RepoProofs!Bytes, Repo!Limits,
      RepoProofs!Limits, Repo!memory, RepoProofs!memory, Repo!disk,
      RepoProofs!disk, Repo!saving, RepoProofs!saving, Repo!checked,
      RepoProofs!checked, Repo!vars, RepoProofs!vars, Repo!NoUsage,
      RepoProofs!NoUsage, Repo!Idle, RepoProofs!Idle, Repo!Querying,
      RepoProofs!Querying, Repo!LimitOf, RepoProofs!LimitOf, Repo!Exceeds,
      RepoProofs!Exceeds, Repo!OverLimit, RepoProofs!OverLimit
<1>1. Repo!Init => RepoProofs!Init
  BY DEF Repo!Init, RepoProofs!Init, Repo!EmptyFile, RepoProofs!EmptyFile
<1>2. [Repo!Next]_(Repo!vars) => [RepoProofs!Next]_(RepoProofs!vars)
  BY DEF
      Repo!Next, RepoProofs!Next, Repo!UpdateServer, RepoProofs!UpdateServer,
      Repo!Fault, RepoProofs!Fault, Repo!SaveAccessKeys,
      RepoProofs!SaveAccessKeys, Repo!SaveServerConfig,
      RepoProofs!SaveServerConfig, Repo!EnforceAccessKeyDataLimits,
      RepoProofs!EnforceAccessKeyDataLimits, Repo!Boot, RepoProofs!Boot,
      Repo!CreateNewAccessKey, RepoProofs!CreateNewAccessKey,
      Repo!RemoveAccessKey, RepoProofs!RemoveAccessKey, Repo!RenameAccessKey,
      RepoProofs!RenameAccessKey, Repo!ChangeAccessKeyLimit,
      RepoProofs!ChangeAccessKeyLimit, Repo!SetAccessKeyDataLimit,
      RepoProofs!SetAccessKeyDataLimit, Repo!RemoveAccessKeyDataLimit,
      RepoProofs!RemoveAccessKeyDataLimit, Repo!ChangeDefaultLimit,
      RepoProofs!ChangeDefaultLimit, Repo!SetDefaultDataLimit,
      RepoProofs!SetDefaultDataLimit, Repo!RemoveDefaultDataLimit,
      RepoProofs!RemoveDefaultDataLimit, Repo!RenameServer,
      RepoProofs!RenameServer, Repo!AnswerCreate, RepoProofs!AnswerCreate,
      Repo!CreateRejected, RepoProofs!CreateRejected, Repo!HourlyEnforcement,
      RepoProofs!HourlyEnforcement, Repo!PrometheusAnswers,
      RepoProofs!PrometheusAnswers, Repo!ApplyLimits, RepoProofs!ApplyLimits,
      Repo!LimitStatusChanged, RepoProofs!LimitStatusChanged,
      Repo!LimitStatusUnchanged, RepoProofs!LimitStatusUnchanged,
      Repo!QueryFailed, RepoProofs!QueryFailed, Repo!EnforcementFails,
      RepoProofs!EnforcementFails, Repo!StartUpdate, RepoProofs!StartUpdate,
      Repo!StartWithinLimits, RepoProofs!StartWithinLimits,
      Repo!StartUnenforced, RepoProofs!StartUnenforced, Repo!StartEnforced,
      RepoProofs!StartEnforced, Repo!Started, RepoProofs!Started,
      Repo!Restart, RepoProofs!Restart, Repo!UsageChanges,
      RepoProofs!UsageChanges, Repo!UpdatingNext, RepoProofs!UpdatingNext,
      Repo!ConfigNext, RepoProofs!ConfigNext, Repo!EnvironmentNext,
      RepoProofs!EnvironmentNext, Repo!SettleNext, RepoProofs!SettleNext
<1> HIDE DEF Repo!vars, RepoProofs!vars
<1> QED
  BY <1>1, <1>2, PTL DEF Repo!Spec, RepoProofs!Spec

(* So the files hold what is in memory, deletions and answered requests    *)
(* outlive restarts, the proxy was asked for the enabled keys and the marks*)
(* follow the limits also while the proxy's file is written, its updates   *)
(* overlap or fail, and it crashes.                                        *)
THEOREM RepositoryGuarantees ==
  ASSUME Repo!ConstantsAssumption
  PROVE  Spec => [](/\ Repo!TypeOK /\ Repo!FilesInSync /\ Repo!KeysDurable
                    /\ Repo!ProxyInSync /\ Repo!LimitsEnforced)
<1> DEFINE Guarantees ==
      /\ RepoProofs!TypeOK /\ RepoProofs!FilesInSync
      /\ RepoProofs!KeysDurable /\ RepoProofs!ProxyInSync
      /\ RepoProofs!LimitsEnforced
<1>1. RepoProofs!Spec => []RepoProofs!TypeOK
  BY RepoProofs!TypeCorrect
<1>2. RepoProofs!Spec => []RepoProofs!FilesInSync
  BY RepoProofs!FilesHoldMemory
<1>3. RepoProofs!Spec => []RepoProofs!KeysDurable
  BY RepoProofs!KeysSurviveRestarts
<1>4. RepoProofs!Spec => []RepoProofs!ProxyInSync
  BY RepoProofs!ProxyAskedForEnabledKeys
<1>5. RepoProofs!Spec => []RepoProofs!LimitsEnforced
  BY RepoProofs!MarksFollowLimits
<1>6. Guarantees => /\ Repo!TypeOK /\ Repo!FilesInSync /\ Repo!KeysDurable
                    /\ Repo!ProxyInSync /\ Repo!LimitsEnforced
  BY DEF Repo!TypeOK, RepoProofs!TypeOK, Repo!FilesInSync,
     RepoProofs!FilesInSync, Repo!KeysDurable, RepoProofs!KeysDurable,
     Repo!ProxyInSync, RepoProofs!ProxyInSync, Repo!LimitsEnforced,
     RepoProofs!LimitsEnforced, Repo!Ids, RepoProofs!Ids, Repo!Bytes,
     RepoProofs!Bytes, Repo!Limits, RepoProofs!Limits, Repo!OverLimit,
     RepoProofs!OverLimit, Repo!Exceeds, RepoProofs!Exceeds, Repo!LimitOf,
     RepoProofs!LimitOf
<1> QED
  BY <1>1, <1>2, <1>3, <1>4, <1>5, <1>6, RepositoryImplemented,
     SameRepository, PTL

(* A key whose DELETE was answered is not accepted once the server is at   *)
(* rest, unless the last updates overlapped or failed, or a restart came   *)
(* before a change was saved: what the code gives for the promise of       *)
(* DeletedKeyRefused, and these are the only exceptions.                   *)
THEOREM RemovedKeysAreRefused ==
  ASSUME Repo!ConstantsAssumption
  PROVE  Spec => []RemovedKeysRefused
<1>1. EnabledKeysServed /\ Repo!KeysDurable => RemovedKeysRefused
  BY DEF EnabledKeysServed, RemovedKeysRefused, Repo!KeysDurable
<1> QED
  BY <1>1, EnabledKeysAreServed, RepositoryGuarantees, PTL

(* From usage to the proxy: at rest, and with no enforcement outstanding or*)
(* missed, the proxy accepts exactly the keys whose usage is within the    *)
(* limits of now, in whatever order requests, enforcements, writes and     *)
(* reloads came.                                                           *)
THEOREM LimitsAreServed ==
  ASSUME Repo!ConstantsAssumption
  PROVE  Spec => []LimitsServed
<1>1. EnabledKeysServed /\ Repo!LimitsEnforced => LimitsServed
  <2> SUFFICES ASSUME EnabledKeysServed, Repo!LimitsEnforced,
                      Quiet, ~overlapped, ~broken, ~lost, ~missed,
                      \A t \in Tasks : tasks[t].pc = "idle"
               PROVE  loaded = keys \ Repo!OverLimit(lastSample)
    BY DEF LimitsServed
  <2>1. loaded = keys \ over
    BY DEF EnabledKeysServed
  <2>2. over = Repo!OverLimit(lastSample)
    BY DEF Repo!LimitsEnforced
  <2> QED
    BY <2>1, <2>2
<1> QED
  BY <1>1, EnabledKeysAreServed, RepositoryGuarantees, PTL

=============================================================================
