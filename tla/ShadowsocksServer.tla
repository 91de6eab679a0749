------------------------- MODULE ShadowsocksServer -------------------------
(***************************************************************************)
(* The proxy as the manager runs it: OutlineShadowsocksServer              *)
(* (outline_shadowsocks_server.ts), the configuration file it writes, and  *)
(* the outline-ss-server process that reads the file when it starts and    *)
(* when it gets a SIGHUP.                                                  *)
(*                                                                         *)
(* fs.writeFile is not atomic: it opens the file truncating it, writes     *)
(* from offset 0 of its own descriptor, closes, and only then calls back.  *)
(* update neither waits for the write of an earlier update nor cancels it, *)
(* so the steps of several writes can interleave.                          *)
(***************************************************************************)
EXTENDS Naturals, FiniteSets

CONSTANTS
  MaxId,        \* access keys are the ids 0 .. MaxId - 1
  Unsupported,  \* the keys whose cipher is not an AEAD cipher
  Callers,      \* who waits for the promise of an update
  NoCaller,     \* ... which nobody does
  Writes,       \* bound: updates that can be outstanding at once
  MaxCrashes    \* bound: failed writes and failures of the process

ASSUME ConstantsAssumption ==
  /\ MaxId \in Nat
  /\ MaxCrashes \in Nat
  /\ Unsupported \subseteq 0 .. (MaxId - 1)

Keys == 0 .. (MaxId - 1)

VARIABLES
  writes,   \* the writes of the configuration file that are under way
  file,     \* the file: the keys it lists, and whether it parses
  process,  \* the process behind ssProcess
  hup,      \* a SIGHUP the process has not handled yet
  loaded,   \* the keys the process serves
  asked,    \* history: the keys of the last update
  overlapped, \* history: that update was called while another was under way
  broken,   \* history: a write failed and none succeeded since
  crashes   \* failures so far

vars == <<writes, file, process, hup, loaded, asked, overlapped, broken, crashes>>

File == [keys : SUBSET Keys, ok : BOOLEAN]

ConfigWithDefault(ks) ==  \* mutant: a default key is always listed
  [keys |-> ks \cup {MaxId}, ok |-> TRUE]
Config(ks) == [keys |-> ks, ok |-> TRUE]
Empty   == Config({})
Garbled == [keys |-> {}, ok |-> FALSE]

Idle == [pc |-> "idle", keys |-> {}, caller |-> NoCaller]
Opening(ks, caller) ==
  [pc |-> "opening", keys |-> ks \ Unsupported, caller |-> caller]

IdleWrites == {w \in Writes : writes[w].pc = "idle"}

(* The keys listed in the file after the first n. *)
Rest(ks, n) == {k \in ks : Cardinality({j \in ks : j <= k}) > n}

(* What the file can hold once ks is written from its start and content was *)
(* there: shorter text leaves the end of the longer one, which is further   *)
(* list entries when the lengths of the entries agree and rubbish otherwise. *)
Overlay(ks, content) ==
  IF content = Empty THEN {Config(ks)}
  ELSE IF ~content.ok THEN {Config(ks), Garbled}
  ELSE IF ks = {} THEN {Garbled}
  ELSE IF Cardinality(ks) > Cardinality(content.keys) THEN {Config(ks)}
  ELSE {Config(ks \cup Rest(content.keys, Cardinality(ks)))}
         \cup IF ks = content.keys THEN {} ELSE {Garbled}

Fail == crashes < MaxCrashes /\ crashes' = crashes + 1

----------------------------------------------------------------------------
Init ==
  /\ writes = [w \in Writes |-> Idle]
  /\ file = Empty
  /\ process = "none"
  /\ hup = FALSE
  /\ loaded = {}
  /\ asked = {}
  /\ overlapped = FALSE
  /\ broken = FALSE
  /\ crashes = 0

(* update(keys): the write is handed to the thread pool. *)
Update(ks, caller) ==
  /\ \E w \in IdleWrites : writes' = [writes EXCEPT ![w] = Opening(ks, caller)]
  /\ asked' = ks
  /\ overlapped' = (IdleWrites # Writes)
  /\ UNCHANGED <<file, process, hup, loaded, broken, crashes>>

Advance(w, from, to) ==
  /\ writes[w].pc = from
  /\ writes' = [writes EXCEPT ![w].pc = to]

OpenFile(w) ==
  /\ Advance(w, "opening", "truncated")
  /\ file' = Empty
  /\ UNCHANGED <<process, hup, loaded, asked, overlapped, broken, crashes>>

WriteData(w) ==
  /\ Advance(w, "truncated", "written")
  /\ file' \in Overlay(writes[w].keys, file)
  /\ UNCHANGED <<process, hup, loaded, asked, overlapped, broken, crashes>>

(* Mutant: the process is started but never told to reload. *)
SignalOnlyStarts(w) ==
  /\ writes[w].pc = "written"
  /\ broken' = FALSE
  /\ process' = IF process = "none" THEN "starting" ELSE process
  /\ UNCHANGED <<file, hup, loaded, crashes>>

(* Mutant: the process is signalled when the file is open, not written. *)
SignalEarly(w) ==
  /\ writes[w].pc \in {"truncated", "written"}
  /\ broken' = FALSE
  /\ process' = IF process = "none" THEN "starting" ELSE process
  /\ hup' = (hup \/ process = "up")
  /\ UNCHANGED <<file, loaded, crashes>>

(* The callback of a write without error: the process is started the first *)
(* time and told to reload afterwards.  A SIGHUP ends a process that has   *)
(* not installed its handler yet, and does nothing to one that has ended.  *)
Signal(w) ==
  /\ writes[w].pc = "written"
  /\ broken' = FALSE
  /\ process' = CASE process = "none" -> "starting"
                  [] process = "starting" -> "dead"
                  [] OTHER -> process
  /\ hup' = (hup \/ process = "up")
  /\ UNCHANGED <<file, loaded, crashes>>

(* The callback of a write with an error - nothing was opened, or the file *)
(* was left truncated: the promise is rejected and no signal is sent.      *)
WriteError(w) ==
  /\ writes[w].pc \in {"opening", "truncated"}
  /\ Fail
  /\ broken' = TRUE
  /\ UNCHANGED <<file, process, hup, loaded>>

(* The promise is settled: nobody updates again in the same turn ... *)
Finish(w) ==
  /\ writes' = [writes EXCEPT ![w] = Idle]
  /\ UNCHANGED <<asked, overlapped>>

(* ... or the caller that waited for it does so at once. *)
UpdateAgain(w, ks, caller) ==
  /\ writes' = [writes EXCEPT ![w] = Opening(ks, caller)]
  /\ asked' = ks
  /\ overlapped' = (IdleWrites \cup {w} # Writes)

WriteSucceeds(w) == Signal(w) /\ Finish(w)
WriteFails(w) == WriteError(w) /\ Finish(w)

----------------------------------------------------------------------------
(* outline-ss-server (external): it serves what the file lists.  A file    *)
(* that does not parse ends it at its start and is ignored on a SIGHUP.    *)
ProcessStarts ==
  /\ process = "starting"
  /\ process' = IF file.ok THEN "up" ELSE "dead"
  /\ loaded' = file.keys
  /\ UNCHANGED <<writes, file, hup, asked, overlapped, broken, crashes>>

ProcessReloads ==
  /\ process = "up"
  /\ hup
  /\ hup' = FALSE
  /\ loaded' = IF file.ok THEN file.keys ELSE loaded
  /\ UNCHANGED <<writes, file, process, asked, overlapped, broken, crashes>>

ProcessCrashes ==
  /\ process = "up"
  /\ Fail
  /\ process' = "dead"
  /\ hup' = FALSE
  /\ loaded' = {}
  /\ UNCHANGED <<writes, file, asked, overlapped, broken>>

(* The spawn itself fails: an error event, no exit event. *)
SpawnFails ==
  /\ process = "starting"
  /\ Fail
  /\ process' = "gone"
  /\ UNCHANGED <<writes, file, hup, loaded, asked, overlapped, broken>>

(* Mutant: the handle is dropped and the next update starts the process. *)
ExitForgotten ==
  /\ process = "dead"
  /\ process' = "none"
  /\ UNCHANGED <<writes, file, hup, loaded, asked, overlapped, broken, crashes>>

(* The exit event: start() again, at once. *)
ExitEvent ==
  /\ process = "dead"
  /\ process' = "starting"
  /\ UNCHANGED <<writes, file, hup, loaded, asked, overlapped, broken, crashes>>

(* The container restarts: the file stays as it is, nobody is waiting, and *)
(* this process was not asked for anything yet.                            *)
Restart ==
  /\ writes' = [w \in Writes |-> Idle]
  /\ process' = "none"
  /\ hup' = FALSE
  /\ loaded' = {}
  /\ asked' = {}
  /\ overlapped' = FALSE
  /\ broken' = FALSE
  /\ UNCHANGED file

----------------------------------------------------------------------------
Succeeds == \E w \in Writes : WriteSucceeds(w)
Fails    == \E w \in Writes : WriteFails(w)

Internal ==
  \/ \E w \in Writes : OpenFile(w)
  \/ \E w \in Writes : WriteData(w)
  \/ ProcessStarts
  \/ ProcessReloads
  \/ ProcessCrashes
  \/ SpawnFails
  \/ ExitEvent

AnyUpdate ==
  \E ks \in SUBSET Keys, c \in Callers \cup {NoCaller} : Update(ks, c)

Next ==
  \/ AnyUpdate
  \/ Internal
  \/ Succeeds
  \/ Fails
  \/ Restart /\ Fail

Spec == Init /\ [][Next]_vars

(* The thread pool runs the writes to their end, the process runs, and     *)
(* Node delivers its exit.                                                 *)
Fairness ==
  /\ \A w \in Writes : WF_vars(OpenFile(w)) /\ WF_vars(WriteData(w))
                         /\ WF_vars(WriteSucceeds(w))
  /\ WF_vars(ProcessStarts)
  /\ WF_vars(ProcessReloads)
  /\ WF_vars(ExitEvent)

FairSpec == Spec /\ Fairness

(* A caller that waits for each update to settle before the next one. *)
Serial == IdleWrites = Writes

SerialNext ==
  \/ Serial /\ AnyUpdate
  \/ Internal
  \/ Succeeds
  \/ Fails
  \/ Restart /\ Fail

SerialSpec == Init /\ [][SerialNext]_vars /\ Fairness

----------------------------------------------------------------------------
TypeOK ==
  /\ writes \in [Writes -> [pc : {"idle", "opening", "truncated", "written"},
                            keys : SUBSET Keys,
                            caller : Callers \cup {NoCaller}]]
  /\ file \in File
  /\ process \in {"none", "starting", "up", "dead", "gone"}
  /\ hup \in BOOLEAN
  /\ loaded \in SUBSET Keys
  /\ asked \in SUBSET Keys
  /\ overlapped \in BOOLEAN
  /\ broken \in BOOLEAN
  /\ crashes \in 0 .. MaxCrashes

Unsettled == \E w \in Writes : writes[w].pc \in {"truncated", "written"}

(* However the writes overlap, and whenever the process is restarted in    *)
(* between: a running process that does not serve what the file lists has  *)
(* a SIGHUP coming, unless the last write failed or the file is rubbish.   *)
NoLostReload ==
  process = "up" =>
    \/ loaded = file.keys
    \/ hup \/ Unsettled \/ broken \/ ~file.ok

(* If updates and failures stop, the process ends up serving the last      *)
(* update, unless that one overlapped or failed or a spawn failed: neither *)
(* a signal sent to a starting process nor a crash between the write and   *)
(* the signal leaves it with old keys.                                     *)
UpdatesEventuallyServed ==
  <>[][~AnyUpdate /\ crashes' = crashes]_vars
    => <>[](overlapped \/ broken \/ process = "gone"
            \/ loaded = asked \ Unsupported)

----------------------------------------------------------------------------
(* The refinement: what a process that reads the file now, or after a step *)
(* of the write under way, can find in it.                                 *)
readable == {file.keys} \cup
            UNION {{{}, writes[w].keys} : w \in Writes \ IdleWrites}

Access == INSTANCE ProxyAccess WITH
            wanted <- asked \ Unsupported,
            busy <- ~Serial,
            rejected <- broken,
            serving <- loaded

(* One update at a time implements access control on the proxy. *)
ImplementsAccess == Access!Spec
============================================================================
