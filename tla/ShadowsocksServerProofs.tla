---------------------- MODULE ShadowsocksServerProofs ----------------------
(***************************************************************************)
(* For any keys, any number of updates that are outstanding at once and    *)
(* any number of failures: the proxy manager loses no reload, and with one *)
(* update at a time it implements the access control of ProxyAccess.       *)
(***************************************************************************)
EXTENDS ShadowsocksServer, TLAPS

----------------------------------------------------------------------------
(* What a write can leave in the file. *)
LEMMA OverlayTyped ==
  ASSUME NEW ks \in SUBSET Keys, NEW content \in File
  PROVE  Overlay(ks, content) \subseteq File
<1>1. \A s \in SUBSET Keys : Config(s) \in File
  BY DEF Config, File
<1>2. Garbled \in File
  BY DEF Garbled, File
<1>3. \A n : Rest(content.keys, n) \in SUBSET Keys
  BY DEF Rest, File
<1>4. ks \cup Rest(content.keys, Cardinality(ks)) \in SUBSET Keys
  BY <1>3
<1>5. CASE content = Empty
  BY <1>1, <1>5 DEF Overlay
<1>6. CASE content # Empty
  BY <1>1, <1>2, <1>4, <1>6 DEF Overlay
<1> QED
  BY <1>5, <1>6

(* ... which is the keys that were written, if the file was empty: what    *)
(* the truncation that comes first is for.                                 *)
LEMMA OverlayEmpty ==
  ASSUME NEW ks PROVE Overlay(ks, Empty) = {Config(ks)}
BY DEF Overlay

----------------------------------------------------------------------------
WriteRecord ==
  [pc : {"idle", "opening", "truncated", "written"}, keys : SUBSET Keys,
   caller : Callers \cup {NoCaller}]

LEMMA WriteRecords ==
  /\ Idle \in WriteRecord
  /\ \A ks \in SUBSET Keys, c \in Callers \cup {NoCaller} :
       Opening(ks, c) \in WriteRecord
BY DEF WriteRecord, Idle, Opening

LEMMA InitTypeOK == Init => TypeOK
<1> SUFFICES ASSUME Init PROVE TypeOK
  OBVIOUS
<1>1. writes \in [Writes -> WriteRecord]
  BY WriteRecords DEF Init
<1>2. file \in File /\ crashes \in 0 .. MaxCrashes
  BY ConstantsAssumption DEF Init, File, Empty, Config
<1> QED
  BY <1>1, <1>2 DEF Init, TypeOK, WriteRecord

(* The steps of a write, by what they do to it. *)
LEMMA AdvanceTyped ==
  ASSUME TypeOK, NEW w \in Writes, NEW from,
         NEW to \in {"idle", "opening", "truncated", "written"},
         Advance(w, from, to)
  PROVE  writes' \in [Writes -> WriteRecord]
BY DEF TypeOK, Advance, WriteRecord

LEMMA NextTypeOK == TypeOK /\ [Next]_vars => TypeOK'
<1> SUFFICES ASSUME TypeOK, [Next]_vars PROVE TypeOK'
  OBVIOUS
<1>1. CASE AnyUpdate
  <2>1. PICK ks \in SUBSET Keys, c \in Callers \cup {NoCaller} : Update(ks, c)
    BY <1>1 DEF AnyUpdate
  <2>2. writes' \in [Writes -> WriteRecord]
    BY <2>1, WriteRecords DEF Update, TypeOK, IdleWrites, WriteRecord
  <2>3. overlapped' \in BOOLEAN
    BY <2>1 DEF Update
  <2> QED
    BY <2>1, <2>2, <2>3 DEF Update, TypeOK, WriteRecord
<1>2. ASSUME NEW w \in Writes, OpenFile(w) PROVE TypeOK'
  <2>1. writes' \in [Writes -> WriteRecord]
    BY <1>2, AdvanceTyped DEF OpenFile
  <2> QED
    BY <1>2, <2>1 DEF OpenFile, TypeOK, WriteRecord, File, Empty, Config
<1>3. ASSUME NEW w \in Writes, WriteData(w) PROVE TypeOK'
  <2>1. writes' \in [Writes -> WriteRecord]
    BY <1>3, AdvanceTyped DEF WriteData
  <2>2. file' \in File
    BY <1>3, OverlayTyped DEF WriteData, TypeOK
  <2> QED
    BY <1>3, <2>1, <2>2 DEF WriteData, TypeOK, WriteRecord
<1>4. CASE ProcessStarts
  BY <1>4 DEF ProcessStarts, TypeOK, File
<1>5. CASE ProcessReloads
  BY <1>5 DEF ProcessReloads, TypeOK, File
<1>6. CASE ProcessCrashes
  <2>1. crashes' \in 0 .. MaxCrashes
    BY <1>6, ConstantsAssumption DEF ProcessCrashes, Fail, TypeOK
  <2> QED
    BY <1>6, <2>1 DEF ProcessCrashes, TypeOK
<1>7. CASE SpawnFails
  BY <1>7, ConstantsAssumption DEF SpawnFails, Fail, TypeOK
<1>8. CASE ExitEvent
  BY <1>8 DEF ExitEvent, TypeOK
<1>9. ASSUME NEW w \in Writes, WriteSucceeds(w) PROVE TypeOK'
  <2>1. writes' \in [Writes -> WriteRecord]
    BY <1>9, WriteRecords DEF WriteSucceeds, Finish, TypeOK, WriteRecord
  <2>2. process' \in {"none", "starting", "up", "dead", "gone"}
    BY <1>9 DEF WriteSucceeds, Signal, TypeOK
  <2>3. hup' \in BOOLEAN
    BY <1>9, Zenon DEF WriteSucceeds, Signal, TypeOK
  <2>4. UNCHANGED <<file, loaded, asked, overlapped, crashes>> /\ broken' = FALSE
    BY <1>9 DEF WriteSucceeds, Signal, Finish
  <2> QED
    BY <2>1, <2>2, <2>3, <2>4 DEF TypeOK, WriteRecord
<1>10. ASSUME NEW w \in Writes, WriteFails(w) PROVE TypeOK'
  <2>1. writes' \in [Writes -> WriteRecord]
    BY <1>10, WriteRecords DEF WriteFails, Finish, TypeOK, WriteRecord
  <2> QED
    BY <1>10, <2>1, ConstantsAssumption
    DEF WriteFails, WriteError, Finish, Fail, TypeOK, WriteRecord
<1>11. CASE Restart /\ Fail
  <2>1. writes' \in [Writes -> WriteRecord]
    BY <1>11, WriteRecords DEF Restart
  <2>2. crashes' \in 0 .. MaxCrashes
    BY <1>11, ConstantsAssumption DEF Fail, TypeOK
  <2> QED
    BY <1>11, <2>1, <2>2 DEF Restart, TypeOK, WriteRecord
<1>12. CASE UNCHANGED vars
  BY <1>12 DEF vars, TypeOK
<1> QED
  BY <1>1, <1>2, <1>3, <1>4, <1>5, <1>6, <1>7, <1>8, <1>9, <1>10, <1>11,
     <1>12 DEF Next, Internal, Succeeds, Fails

(* The variables keep their types.  In particular no write, whatever was   *)
(* in the file before it, makes the file list a key that does not exist.   *)
THEOREM TypeCorrect == Spec => []TypeOK
BY InitTypeOK, NextTypeOK, PTL DEF Spec

----------------------------------------------------------------------------
(* NoLostReload is inductive as it stands. *)
LEMMA NextNoLostReload ==
  TypeOK /\ NoLostReload /\ [Next]_vars => NoLostReload'
<1> SUFFICES ASSUME TypeOK, NoLostReload, [Next]_vars PROVE NoLostReload'
  OBVIOUS
<1>1. CASE AnyUpdate
  <2>1. PICK ks \in SUBSET Keys, c \in Callers \cup {NoCaller} : Update(ks, c)
    BY <1>1 DEF AnyUpdate
  <2>2. Unsettled => Unsettled'
    BY <2>1 DEF Update, Unsettled, IdleWrites, TypeOK
  <2> QED
    BY <2>1, <2>2 DEF Update, NoLostReload
<1>2. ASSUME NEW w \in Writes, OpenFile(w) \/ WriteData(w)
      PROVE  NoLostReload'
  <2>1. writes'[w].pc \in {"truncated", "written"}
    BY <1>2 DEF OpenFile, WriteData, Advance, TypeOK
  <2> QED
    BY <2>1 DEF NoLostReload, Unsettled
<1>3. CASE ProcessStarts
  BY <1>3 DEF ProcessStarts, NoLostReload
<1>4. CASE ProcessReloads
  BY <1>4 DEF ProcessReloads, NoLostReload
<1>5. CASE ProcessCrashes \/ SpawnFails \/ ExitEvent \/ Restart
  BY <1>5 DEF ProcessCrashes, SpawnFails, ExitEvent, Restart, NoLostReload
<1>6. ASSUME NEW w \in Writes, WriteSucceeds(w) PROVE NoLostReload'
  <2>1. process' = "up" => hup'
    BY <1>6 DEF WriteSucceeds, Signal
  <2> QED
    BY <2>1 DEF NoLostReload
<1>7. ASSUME NEW w \in Writes, WriteFails(w) PROVE NoLostReload'
  BY <1>7 DEF WriteFails, WriteError, NoLostReload
<1>8. CASE UNCHANGED vars
  BY <1>8 DEF vars, NoLostReload, Unsettled
<1> QED
  BY <1>1, <1>2, <1>3, <1>4, <1>5, <1>6, <1>7, <1>8
  DEF Next, Internal, Succeeds, Fails

(* However many writes of the configuration file overlap and whenever the  *)
(* process ends, is started or is signalled in between: a running process  *)
(* that does not serve what the file lists has a SIGHUP coming.            *)
THEOREM ReloadsNotLost == Spec => []NoLostReload
<1>1. Init => NoLostReload
  BY DEF Init, NoLostReload
<1> QED
  BY <1>1, InitTypeOK, NextTypeOK, NextNoLostReload, PTL DEF Spec

----------------------------------------------------------------------------
(* The refinement.  One update at a time: the write under way, if any, is  *)
(* that of the last update, and the file is its own since it was opened.   *)
OneWrite ==
  \A v, w \in Writes : writes[v].pc # "idle" /\ writes[w].pc # "idle" => v = w

WriteOfLastUpdate ==
  \A w \in Writes :
    /\ writes[w].pc # "idle" => writes[w].keys = asked \ Unsupported
    /\ writes[w].pc = "truncated" => file = Empty
    /\ writes[w].pc = "written" => file = Config(writes[w].keys)

SerialInv == TypeOK /\ OneWrite /\ WriteOfLastUpdate

LEMMA InitSerialInv == Init => SerialInv
BY InitTypeOK DEF SerialInv, OneWrite, WriteOfLastUpdate, Init, Idle

LEMMA SerialImpliesNext == [SerialNext]_vars => [Next]_vars
BY DEF SerialNext, Next

LEMMA NextSerialInv == SerialInv /\ [SerialNext]_vars => SerialInv'
<1> SUFFICES ASSUME SerialInv, [SerialNext]_vars PROVE SerialInv'
  OBVIOUS
<1> USE DEF SerialInv
<1>1. TypeOK'
  BY NextTypeOK, SerialImpliesNext
<1> SUFFICES OneWrite' /\ WriteOfLastUpdate'
  BY <1>1
<1>2. CASE Serial /\ AnyUpdate
  <2>1. PICK ks \in SUBSET Keys, c \in Callers \cup {NoCaller} : Update(ks, c)
    BY <1>2 DEF AnyUpdate
  <2>2. PICK w \in Writes : writes' = [writes EXCEPT ![w] = Opening(ks, c)]
    BY <2>1 DEF Update, IdleWrites
  <2>3. \A v \in Writes : writes[v].pc = "idle"
    BY <1>2 DEF Serial, IdleWrites
  <2>4. \A v \in Writes \ {w} : writes'[v].pc = "idle"
    BY <2>2, <2>3 DEF TypeOK
  <2>5. writes'[w].pc = "opening" /\ writes'[w].keys = ks \ Unsupported
    BY <2>2 DEF TypeOK, Opening
  <2> QED
    BY <2>1, <2>4, <2>5 DEF Update, OneWrite, WriteOfLastUpdate
<1>3. ASSUME NEW w \in Writes, OpenFile(w) PROVE OneWrite' /\ WriteOfLastUpdate'
  <2>1. writes[w].pc = "opening" /\ writes' = [writes EXCEPT ![w].pc = "truncated"]
    BY <1>3 DEF OpenFile, Advance
  <2>2. /\ writes'[w].pc = "truncated" /\ writes'[w].keys = writes[w].keys
        /\ \A v \in Writes \ {w} : writes'[v] = writes[v] /\ writes[v].pc = "idle"
    BY <2>1 DEF TypeOK, OneWrite
  <2>3. file' = Empty /\ asked' = asked
    BY <1>3 DEF OpenFile
  <2> QED
    BY <2>1, <2>2, <2>3 DEF OneWrite, WriteOfLastUpdate
<1>4. ASSUME NEW w \in Writes, WriteData(w) PROVE OneWrite' /\ WriteOfLastUpdate'
  <2>1. writes[w].pc = "truncated" /\ writes' = [writes EXCEPT ![w].pc = "written"]
    BY <1>4 DEF WriteData, Advance
  <2>2. /\ writes'[w].pc = "written" /\ writes'[w].keys = writes[w].keys
        /\ \A v \in Writes \ {w} : writes'[v] = writes[v] /\ writes[v].pc = "idle"
    BY <2>1 DEF TypeOK, OneWrite
  <2>3. file' = Config(writes[w].keys) /\ asked' = asked
    BY <1>4, <2>1, OverlayEmpty DEF WriteData, WriteOfLastUpdate
  <2> QED
    BY <2>1, <2>2, <2>3 DEF OneWrite, WriteOfLastUpdate
<1>5. ASSUME NEW w \in Writes, WriteSucceeds(w) \/ WriteFails(w)
      PROVE  OneWrite' /\ WriteOfLastUpdate'
  <2>1. writes' = [writes EXCEPT ![w] = Idle] /\ UNCHANGED <<file, asked>>
    BY <1>5 DEF WriteSucceeds, WriteFails, Signal, WriteError, Finish
  <2>2. \A v \in Writes : writes'[v] = writes[v] \/ writes'[v].pc = "idle"
    BY <2>1 DEF TypeOK, Idle
  <2> QED
    BY <2>1, <2>2 DEF OneWrite, WriteOfLastUpdate
<1>6. CASE Restart
  BY <1>6 DEF Restart, Idle, OneWrite, WriteOfLastUpdate
<1>7. CASE UNCHANGED <<writes, file, asked>>
  BY <1>7 DEF OneWrite, WriteOfLastUpdate
<1>8. CASE ProcessStarts \/ ProcessReloads \/ ProcessCrashes \/ SpawnFails
             \/ ExitEvent
  BY <1>7, <1>8 DEF ProcessStarts, ProcessReloads, ProcessCrashes, SpawnFails,
     ExitEvent
<1>9. CASE UNCHANGED vars
  BY <1>7, <1>9 DEF vars
<1> QED
  BY <1>2, <1>3, <1>4, <1>5, <1>6, <1>8, <1>9
  DEF SerialNext, Internal, Succeeds, Fails

(* What is readable: with no write under way the file, and otherwise also  *)
(* nothing and what is written.                                            *)
LEMMA ReadableAtRest == Serial => readable = {file.keys}
BY DEF Serial, readable

LEMMA ReadableDuring ==
  ASSUME SerialInv, NEW w \in Writes, writes[w].pc # "idle"
  PROVE  ~Serial /\ readable = {file.keys, {}, writes[w].keys}
<1>1. Writes \ IdleWrites = {w}
  BY DEF SerialInv, OneWrite, IdleWrites
<1> QED
  BY <1>1 DEF Serial, readable

(* Every step of the proxy manager is one that ProxyAccess allows. *)
LEMMA StepImplementsAccess ==
  SerialInv /\ SerialInv' /\ [SerialNext]_vars => [Access!Next]_(Access!vars)
<1> SUFFICES ASSUME SerialInv, SerialInv', [SerialNext]_vars
             PROVE  [Access!Next]_(Access!vars)
  OBVIOUS
<1>1. CASE Serial /\ AnyUpdate
  <2>1. PICK ks \in SUBSET Keys, c \in Callers \cup {NoCaller} : Update(ks, c)
    BY <1>1 DEF AnyUpdate
  <2>2. PICK w \in Writes : writes' = [writes EXCEPT ![w] = Opening(ks, c)]
    BY <2>1 DEF Update, IdleWrites
  <2>3. writes'[w].pc = "opening" /\ writes'[w].keys = ks \ Unsupported
    BY <2>2 DEF SerialInv, TypeOK, Opening
  <2>4. ~Serial' /\ readable' = {file.keys, {}, ks \ Unsupported}
    <3>1. (Writes \ IdleWrites)' = {w}
      BY <2>3 DEF SerialInv, OneWrite, IdleWrites
    <3>2. file' = file
      BY <2>1 DEF Update
    <3>3. readable' = {file'.keys, {}, writes'[w].keys}
      BY <3>1 DEF readable
    <3> QED
      BY <2>3, <3>1, <3>2, <3>3 DEF Serial
  <2>5. Access!Update(ks \ Unsupported)
    BY <1>1, <2>1, <2>4, ReadableAtRest DEF Access!Update, Update
  <2>6. ks \ Unsupported \in SUBSET Keys
    OBVIOUS
  <2> QED
    BY <2>5, <2>6 DEF Access!Next
<1>2. ASSUME NEW w \in Writes, OpenFile(w) \/ WriteData(w)
      PROVE  Access!Progress
  <2>1. /\ writes[w].pc # "idle" /\ writes'[w].pc # "idle"
        /\ writes'[w].keys = writes[w].keys
    BY <1>2 DEF OpenFile, WriteData, Advance, SerialInv, TypeOK
  <2>2. file'.keys \in {{}, writes[w].keys}
    <3>1. CASE OpenFile(w)
      BY <3>1 DEF OpenFile, Empty, Config
    <3>2. CASE WriteData(w)
      <4>1. file = Empty
        BY <3>2 DEF WriteData, Advance, SerialInv, WriteOfLastUpdate
      <4>2. file' = Config(writes[w].keys)
        BY <3>2, <4>1, OverlayEmpty DEF WriteData
      <4> QED
        BY <4>2 DEF Config
    <3> QED
      BY <1>2, <3>1, <3>2
  <2>3. ~Serial /\ readable = {file.keys, {}, writes[w].keys}
    BY <2>1, ReadableDuring
  <2>4. ~Serial' /\ readable' = {file'.keys, {}, writes[w].keys}
    <3>1. (Writes \ IdleWrites)' = {w}
      BY <2>1 DEF SerialInv, OneWrite, IdleWrites
    <3> QED
      BY <2>1, <3>1 DEF Serial, readable
  <2>5. UNCHANGED <<asked, broken, loaded>>
    BY <1>2 DEF OpenFile, WriteData
  <2> QED
    BY <2>2, <2>3, <2>4, <2>5 DEF Access!Progress, Access!Narrowed
<1>3. ASSUME NEW w \in Writes, WriteSucceeds(w) \/ WriteFails(w)
      PROVE  Serial' /\ readable' = {file.keys} /\ UNCHANGED <<asked, loaded>>
  <2>1. writes' = [writes EXCEPT ![w] = Idle] /\ UNCHANGED <<file, asked, loaded>>
    BY <1>3 DEF WriteSucceeds, WriteFails, Signal, WriteError, Finish
  <2>2. writes[w].pc # "idle"
    BY <1>3 DEF WriteSucceeds, WriteFails, Signal, WriteError
  <2>3. \A v \in Writes : writes'[v].pc = "idle"
    BY <2>1, <2>2 DEF SerialInv, TypeOK, OneWrite, Idle
  <2>4. Serial'
    BY <2>3 DEF Serial, IdleWrites
  <2> QED
    BY <2>1, <2>4 DEF Serial, readable
<1>4. ASSUME NEW w \in Writes, WriteSucceeds(w) PROVE Access!Fulfil
  <2>1. /\ writes[w].pc = "written" /\ broken' = FALSE
        /\ file.keys = asked \ Unsupported
    BY <1>4 DEF WriteSucceeds, Signal, SerialInv, WriteOfLastUpdate, Config
  <2> QED
    BY <1>3, <1>4, <2>1, ReadableDuring DEF Access!Fulfil
<1>5. ASSUME NEW w \in Writes, WriteFails(w) PROVE Access!Reject
  <2>1. writes[w].pc # "idle" /\ broken' = TRUE
    BY <1>5 DEF WriteFails, WriteError
  <2> QED
    BY <1>3, <1>5, <2>1, ReadableDuring DEF Access!Reject, Access!Narrowed
<1>6. CASE ProcessStarts \/ ProcessReloads
  <2>1. UNCHANGED <<asked, Serial, broken, readable>>
    BY <1>6 DEF ProcessStarts, ProcessReloads, Serial, IdleWrites, readable
  <2>2. loaded' = file.keys \/ loaded' = loaded
    BY <1>6 DEF ProcessStarts, ProcessReloads
  <2>3. file.keys \in readable
    BY DEF readable
  <2> QED
    BY <2>1, <2>2, <2>3 DEF Access!Next, Access!Read, Access!vars
<1>7. CASE ProcessCrashes
  <2>1. UNCHANGED <<asked, Serial, broken, readable>> /\ loaded' = {}
    BY <1>7 DEF ProcessCrashes, Serial, IdleWrites, readable
  <2> QED
    BY <2>1 DEF Access!Next, Access!Stop
<1>8. CASE SpawnFails \/ ExitEvent \/ UNCHANGED vars
  BY <1>8 DEF SpawnFails, ExitEvent, vars, Access!vars, Serial, IdleWrites,
     readable
<1>9. CASE Restart
  <2>1. \A v \in Writes : writes'[v].pc = "idle"
    BY <1>9 DEF Restart, Idle
  <2>2. Serial' /\ readable' = {file.keys}
    BY <1>9, <2>1 DEF Restart, Serial, IdleWrites, readable
  <2>3. file.keys \in readable
    BY DEF readable
  <2> QED
    BY <1>9, <2>2, <2>3 DEF Restart, Access!Next, Access!StartOver,
       Access!Narrowed
<1> QED
  BY <1>1, <1>2, <1>4, <1>5, <1>6, <1>7, <1>8, <1>9
  DEF SerialNext, Internal, Succeeds, Fails, Access!Next

(* With one update at a time the proxy manager implements access control   *)
(* on the proxy: once an update is fulfilled, a process that reads its     *)
(* configuration finds the keys of that update and no others, through      *)
(* writes that fail half way, crashes of the process and restarts of the   *)
(* container.                                                              *)
THEOREM AccessImplemented == SerialSpec => ImplementsAccess
<1>1. Init => Access!Init
  <2> SUFFICES ASSUME Init PROVE Access!Init
    OBVIOUS
  <2>1. Serial
    BY DEF Init, Serial, IdleWrites, Idle
  <2>2. readable = {{}}
    BY <2>1, ReadableAtRest DEF Init, Empty, Config
  <2> QED
    BY <2>1, <2>2 DEF Init, Access!Init
<1> QED
  BY <1>1, InitSerialInv, NextSerialInv, StepImplementsAccess, PTL
  DEF SerialSpec, ImplementsAccess, Access!Spec
=============================================================================
