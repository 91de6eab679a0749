-------------------------- MODULE ServerManagement --------------------------
(***************************************************************************)
(* The page of the manager for each server: App's handlers of what the     *)
(* user does there (web_app/app.ts), the view and its settings             *)
(* (outline-server-view.js, outline-server-settings.js,                    *)
(* outline-validated-input.js, outline-per-key-data-limit-dialog.ts), the  *)
(* client object of the server (shadowbox_server.ts) with its copy of the  *)
(* configuration, and the requests to the management API                   *)
(* (manager_service.ts), any number of which are under way at once.        *)
(*                                                                         *)
(* A request is executed by the server, and later its answer is handled by *)
(* the code after the await; in between the user goes on, on this page or  *)
(* on the page of another server.                                          *)
(***************************************************************************)
EXTENDS Naturals, Sequences, FiniteSets

CONSTANTS
  Servers,
  First,      \* bound: the server that is selected at first, and the one the
              \* user does something to; the pages of others are only looked at
  None,
  MaxKeys,    \* bound: access keys that a server ever makes
  MaxTaps,    \* bound: things the user asks for
  MaxFaults   \* bound: requests that fail or whose answer is lost

ASSUME ManagementAssumption ==
  /\ IsFiniteSet(Servers) /\ First \in Servers /\ None \notin Servers
  /\ MaxKeys \in Nat \ {0}
  /\ MaxTaps \in Nat /\ MaxFaults \in Nat

Keys      == 1 .. MaxKeys
Validated == {"host", "port"}            \* edited in an outline-validated-input
Settings  == {"name", "metrics", "limit"} \cup Validated
Values    == {0, 1}                      \* of metrics: off, on; of limit: none, some
Config    == [Settings -> Values]
KeyStates == [Keys -> {"never", "free", "limited", "removed"}]

(* What a view shows of the settings, and its rows of access keys. *)
Shown == [Settings -> Values \cup {None}]
Row   == [key : Keys, limited : BOOLEAN]
View  ==
  [page : {"blank", "unreachable", "management"},
   title : Values \cup {None}, initial : Values \cup {None},
   rows : Seq(Row), set : Shown, saved : [Validated -> Values \cup {None}]]

(* A request to the management API, by its operation: what it is about,    *)
(* and what the server answers.                                            *)
Operations == {"config", "list", "stats", "add", "remove", "keyLimit", "set"}

Subjects(op) ==
  CASE op = "set"                  -> Settings
    [] op \in {"remove", "keyLimit"} -> Keys
    [] OTHER                       -> {None}

Answers(op) ==
  CASE op = "config"            -> Config
    [] op \in {"list", "stats"} -> KeyStates
    [] op = "add"               -> Keys
    [] OTHER                    -> {None}

Request(op) ==
  [op : {op}, server : Servers, view : Servers,
   what : Subjects(op), value : Values \cup {None},
   pc : {"sent", "done", "rejected"}, found : {None} \cup Answers(op),
   prev : Values \cup {None}, waits : BOOLEAN]

ASSUME NoneAssumption ==
  /\ None \notin Values \cup Keys \cup Config \cup KeyStates
  /\ \A op \in Operations : None \notin Request(op)

VARIABLES
  server,     \* each server: its settings and its access keys
  cache,      \* ShadowboxServer.serverConfig
  view,       \* the outline-server-view of each server
  selected,   \* App.selectedServer
  requests,   \* the requests under way
  live,       \* the servers whose transfer stats have an interval
  disturbed,  \* history: servers with a failure, or with requests that
              \* overlapped although they are about the same thing
  taps, faults

vars == <<server, cache, view, selected, requests, live, disturbed,
          taps, faults>>
manager == <<cache, view, selected, live>>

(* A request is known by what made it: the load of a server's page, the    *)
(* interval of its transfer stats, or the n-th tap of the user.  Its       *)
(* handler may go on with another one.                                     *)
Causes == {<<"load", s>> : s \in Servers} \cup {<<"interval", s>> : s \in Servers}
            \cup {<<"tap", n>> : n \in 1 .. MaxTaps}

NewRequest(op, s, v, what, value) ==
  [op |-> op, server |-> s, view |-> v, what |-> what, value |-> value,
   pc |-> "sent", found |-> None, prev |-> None, waits |-> op = "config"]

Outstanding == {i \in Causes : requests[i] # None}

Conflict(a, b) ==
  /\ a.server = b.server
  /\ LET ops == {a.op, b.op} IN
     \/ ops = {"set"} /\ a.what = b.what
     \/ ops = {"config", "set"}
     \/ "list" \in ops /\ ops \cap {"add", "remove"} # {}

Disturbs(r, but) == \E i \in Outstanding \ but : Conflict(r, requests[i])

Fault == faults < MaxFaults /\ faults' = faults + 1
Tap   == taps < MaxTaps /\ taps' = taps + 1

(* Bound: while the page is being loaded the user taps once at most.       *)
Send(r) ==
  /\ Tap
  /\ requests[<<"load", r.server>>] = None \/ taps = 0
  /\ requests' = [requests EXCEPT ![<<"tap", taps'>>] = r]
  /\ disturbed' = IF Disturbs(r, {}) THEN disturbed \cup {r.server}
                  ELSE disturbed
  /\ UNCHANGED <<server, faults>>

(* The handler of request i ends, or goes on with request r.               *)
Done(i) == requests' = [requests EXCEPT ![i] = None] /\ UNCHANGED disturbed
Then(i, r) ==
  /\ requests' = [requests EXCEPT ![i] = r]
  /\ disturbed' = IF Disturbs(r, {i}) THEN disturbed \cup {r.server}
                  ELSE disturbed

Stats(s, v) == NewRequest("stats", s, v, None, None)

BlankView ==
  [page |-> "blank", title |-> None, initial |-> None, rows |-> <<>>,
   set |-> [x \in Settings |-> IF x \in {"metrics", "limit"} THEN 0 ELSE None],
   saved |-> [x \in Validated |-> None]]

(* App.addServer has called updateServerView for the selected server, which*)
(* asks it for its configuration; until the answer its page is empty.  Or  *)
(* the page is shown already.  Bound: the pages of the other servers were  *)
(* loaded before, and their intervals found them not selected and ended.   *)
FirstConfig == [x \in Settings |-> 0]
FirstKeys   == [k \in Keys |-> IF k = 1 THEN "free" ELSE "never"]
LoadedView  ==
  [page |-> "management", title |-> 0, initial |-> None,
   rows |-> <<[key |-> 1, limited |-> FALSE]>>, set |-> FirstConfig,
   saved |-> [x \in Validated |-> 0]]

Init ==
  /\ server = [s \in Servers |-> [set |-> FirstConfig, keys |-> FirstKeys]]
  /\ selected = First
  /\ \E loading \in SUBSET {selected} :
       /\ cache = [s \in Servers |-> IF s \in loading THEN None ELSE FirstConfig]
       /\ view = [s \in Servers |-> IF s \in loading THEN BlankView ELSE LoadedView]
       /\ requests = [i \in Causes |->
            IF i[1] = "load" /\ i[2] \in loading
            THEN NewRequest("config", i[2], i[2], None, None) ELSE None]
       /\ live = {selected} \ loading
  /\ disturbed = {}
  /\ taps = 0
  /\ faults = 0

----------------------------------------------------------------------------
(* What the user does.  A page is used while its server is selected.       *)
ShowServer(s) ==
  /\ selected # s
  /\ selected' = s
  /\ UNCHANGED <<server, cache, view, requests, live, disturbed, taps,
                 faults>>

Used(s) == selected = s /\ s = First /\ view[s].page # "unreachable"

RetryDisplayingServer(s) ==
  /\ selected = s /\ view[s].page = "unreachable"
  /\ Send(NewRequest("config", s, s, None, None))
  /\ UNCHANGED manager

AddAccessKey(s) ==
  /\ Used(s)
  /\ Cardinality({k \in Keys : server[s].keys[k] = "never"})
       > Cardinality({i \in Outstanding : requests[i].op = "add"})   \* MaxKeys
  /\ Send(NewRequest("add", s, s, None, None))
  /\ UNCHANGED manager

RemoveAccessKey(s, k) ==
  /\ Used(s)
  /\ \E i \in DOMAIN view[s].rows : view[s].rows[i].key = k
  /\ Send(NewRequest("remove", s, s, k, None))
  /\ UNCHANGED manager

(* renameServer, if the name is not the one that the settings remembered:  *)
(* the one that was shown when their tab was opened, before this or before *)
(* an earlier renaming (_selectedTabChanged, setServerName).               *)
RenameServer(s, v) ==
  /\ Used(s)
  /\ view[s].set["name"] # v
  /\ \E remembered \in {view[s].initial, view[s].title} :
       /\ view' = [view EXCEPT ![s].set["name"] = v, ![s].initial = remembered]
       /\ IF v # remembered
          THEN Send(NewRequest("set", s, s, "name", v))
          ELSE Tap /\ UNCHANGED <<server, requests, disturbed, faults>>
  /\ UNCHANGED <<cache, selected, live>>

SetMetricsEnabled(s, v) ==
  /\ Used(s)
  /\ view[s].set["metrics"] # v
  /\ view' = [view EXCEPT ![s].set["metrics"] = v]
  /\ Send(NewRequest("set", s, s, "metrics", v))
  /\ UNCHANGED <<cache, selected, live>>

(* setDefaultDataLimit or removeDefaultDataLimit.  A limit that the copy   *)
(* has already is not set again.                                           *)
SetDefaultDataLimit(s, v) ==
  /\ Used(s) /\ view[s].page = "management"
  /\ view[s].set["limit"] # v
  /\ view' = [view EXCEPT ![s].set["limit"] = v]
  /\ IF v = 1 /\ cache[s]["limit"] = 1
     THEN Tap /\ UNCHANGED <<server, requests, disturbed, faults>>
     ELSE Send([NewRequest("set", s, s, "limit", v)
                EXCEPT !.prev = cache[s]["limit"]])
  /\ UNCHANGED <<cache, selected, live>>

(* setHostnameForAccessKeys of the client object writes its copy before    *)
(* the request is made.                                                    *)
SetHostname(c, s, v) == [c EXCEPT ![s]["host"] = v]

(* outline-validated-input's _save. *)
SetValidated(s, x, v) ==
  /\ Used(s) /\ view[s].page = "management"
  /\ view[s].saved[x] # v
  /\ view' = [view EXCEPT ![s].set[x] = v]
  /\ cache' = IF x = "host" THEN SetHostname(cache, s, v) ELSE cache
  /\ Send(NewRequest("set", s, s, x, v))
  /\ UNCHANGED <<selected, live>>

(* _cancel: Escape works while the value is being saved.                   *)
CancelInput(s, x) ==
  /\ Used(s) /\ Tap
  /\ view[s].set[x] # view[s].saved[x]
  /\ view' = [view EXCEPT ![s].set[x] = view[s].saved[x]]
  /\ disturbed' = disturbed \cup {s}
  /\ UNCHANGED <<server, cache, selected, requests, live, faults>>

(* outline-per-key-data-limit-dialog is opened for a key of the page, and  *)
(* savePerKeyDataLimit or removePerKeyDataLimit is called with the server  *)
(* and the key it was opened for.  A limit is removed only if the dialog   *)
(* was opened with one, be it the default limit.                           *)
SavePerKeyDataLimit(s, k, v) ==
  /\ Used(s)
  /\ \E i \in DOMAIN view[s].rows :
       /\ view[s].rows[i].key = k
       /\ v = 1 \/ view[s].rows[i].limited \/ view[s].set["limit"] = 1
  /\ Send(NewRequest("keyLimit", s, s, k, v))
  /\ UNCHANGED manager

----------------------------------------------------------------------------
(* The server: the handlers of ShadowsocksManagerService, one at a time.   *)
Execute(i) ==
  LET r == requests[i]
      s == r.server
  IN
  /\ r # None /\ r.pc = "sent"
  /\ \/ /\ r.op = "config"
        /\ requests' = [requests EXCEPT ![i].pc = "done",
                                        ![i].found = server[s].set]
        /\ UNCHANGED server
     \/ /\ r.op \in {"list", "stats"}
        /\ requests' = [requests EXCEPT ![i].pc = "done",
                                        ![i].found = server[s].keys]
        /\ UNCHANGED server
     \/ /\ r.op = "set"
        /\ requests' = [requests EXCEPT ![i].pc = "done"]
        /\ server' = [server EXCEPT ![s].set[r.what] = r.value]
     \/ /\ r.op = "add"
        /\ \E k \in Keys :
             /\ server[s].keys[k] = "never"
             /\ \A j \in 1 .. (k - 1) : server[s].keys[j] # "never"
             /\ server' = [server EXCEPT ![s].keys[k] = "free"]
             /\ requests' = [requests EXCEPT ![i].pc = "done", ![i].found = k]
     \/ /\ r.op \in {"remove", "keyLimit"}
        /\ server[s].keys[r.what] # "removed"
        /\ requests' = [requests EXCEPT ![i].pc = "done"]
        /\ server' = [server EXCEPT ![s].keys[r.what] =
                        IF r.op = "remove" THEN "removed"
                        ELSE IF r.value = 1 THEN "limited" ELSE "free"]
     \/ /\ r.op \in {"remove", "keyLimit"}     \* 404
        /\ server[s].keys[r.what] = "removed"
        /\ requests' = [requests EXCEPT ![i].pc = "rejected"]
        /\ UNCHANGED server
  /\ UNCHANGED <<manager, disturbed, taps, faults>>

----------------------------------------------------------------------------
(* The manager, when an answer comes.                                      *)
Answered(i, op) ==
  requests[i] # None /\ requests[i].pc = "done" /\ requests[i].op = op

Exists(keys, k) == keys[k] \in {"free", "limited"}

(* The rows of a list of keys, and rows whose limits are brought up to     *)
(* date with one: updateAccessKeyRow changes the first row of a key.       *)
Listed(keys) == {k \in Keys : Exists(keys, k)}
Place(keys, k) == Cardinality({j \in Listed(keys) : j <= k})
Rows(keys) ==
  [n \in 1 .. Cardinality(Listed(keys)) |->
     LET k == CHOOSE k \in Listed(keys) : Place(keys, k) = n
     IN  [key |-> k, limited |-> keys[k] = "limited"]]

UpdateRows(rows, keys) ==
  [i \in DOMAIN rows |->
     IF /\ Exists(keys, rows[i].key)
        /\ \A j \in 1 .. (i - 1) : rows[j].key # rows[i].key
     THEN [rows[i] EXCEPT !.limited = (keys[rows[i].key] = "limited")]
     ELSE rows[i]]

RemoveRow(rows, k) ==
  LET Behind(i) == \E j \in 1 .. i : rows[j].key = k IN
  IF ~Behind(Len(rows)) THEN rows
  ELSE [i \in 1 .. Len(rows) - 1 |-> IF Behind(i) THEN rows[i + 1] ELSE rows[i]]

(* Mutant: the page is shown, and the copy forgotten. *)
ConfigAnsweredOnly(i) ==
  LET s == requests[i].server
      c == requests[i].found
  IN
  /\ Answered(i, "config")
  /\ IF requests[i].waits
     THEN /\ view' = [view EXCEPT ![s].page = "management",
                                  ![s].title = c["name"], ![s].set = c,
                                  ![s].saved = [x \in Validated |-> c[x]]]
          /\ Then(i, NewRequest("list", s, s, None, None))
     ELSE Done(i) /\ UNCHANGED view
  /\ UNCHANGED <<server, cache, selected, live, taps, faults>>

(* isHealthy replaces the copy of the configuration, even after its time   *)
(* was up; setServerManagementView shows the copy and asks for the keys.   *)
ConfigAnswered(i) ==
  LET s == requests[i].server
      c == requests[i].found
  IN
  /\ Answered(i, "config")
  /\ cache' = [cache EXCEPT ![s] = c]
  /\ IF requests[i].waits
     THEN /\ view' = [view EXCEPT ![s].page = "management",
                                  ![s].title = c["name"], ![s].set = c,
                                  ![s].saved = [x \in Validated |-> c[x]]]
          /\ Then(i, NewRequest("list", s, s, None, None))
     ELSE Done(i) /\ UNCHANGED view
  /\ UNCHANGED <<server, selected, live, taps, faults>>

(* setServerUnreachableView: all that is left to the user is to try again. *)
Unreachable(w) == [w EXCEPT !.page = "unreachable"]

(* Mutant: the time limit of isHealthy is forgotten. *)
HealthTimeoutIgnored(i) ==
  /\ requests[i] # None /\ requests[i].op = "config" /\ requests[i].waits
  /\ requests' = [requests EXCEPT ![i].waits = FALSE]
  /\ UNCHANGED <<server, manager, disturbed, taps, faults>>

(* isHealthy fulfils with false after 30 s. *)
HealthTimeout(i) ==
  /\ requests[i] # None /\ requests[i].op = "config" /\ requests[i].waits
  /\ requests' = [requests EXCEPT ![i].waits = FALSE]
  /\ view' = [view EXCEPT ![requests[i].server] = Unreachable(@)]
  /\ UNCHANGED <<server, cache, selected, live, disturbed, taps, faults>>

(* The rows are replaced; showTransferStats asks at once, and every minute.*)
ListAnswered(i) ==
  LET s == requests[i].server IN
  /\ Answered(i, "list")
  /\ view' = [view EXCEPT ![s].rows = Rows(requests[i].found)]
  /\ live' = live \cup {s}
  /\ Then(i, Stats(s, s))
  /\ UNCHANGED <<server, cache, selected, taps, faults>>

(* Mutant: only the usage of the keys is refreshed. *)
StatsAnsweredUsage(i) ==
  /\ Answered(i, "stats")
  /\ Done(i)
  /\ UNCHANGED <<server, manager, taps, faults>>

(* refreshTransferStats: the view is the one it was called with.           *)
StatsAnswered(i) ==
  LET v == requests[i].view IN
  /\ Answered(i, "stats")
  /\ view' = [view EXCEPT ![v].rows = UpdateRows(@, requests[i].found)]
  /\ Done(i)
  /\ UNCHANGED <<server, cache, selected, live, taps, faults>>

(* The interval of showTransferStats: it ends when its server is not the   *)
(* selected one.  Bound: one request of it at a time.                      *)
Tick(s) ==
  /\ s \in live
  /\ IF selected # s
     THEN live' = live \ {s} /\ UNCHANGED requests
     ELSE /\ requests[<<"interval", s>>] = None
          /\ requests' = [requests EXCEPT ![<<"interval", s>>] = Stats(s, s)]
          /\ UNCHANGED live
  /\ UNCHANGED <<server, cache, view, selected, disturbed, taps, faults>>

(* Mutant: the key is shown with the server that is selected by now. *)
AddAnsweredSelected(i) ==
  /\ Answered(i, "add")
  /\ view' = [view EXCEPT ![selected].rows =
                Append(@, [key |-> requests[i].found, limited |-> FALSE])]
  /\ Done(i)
  /\ UNCHANGED <<server, cache, selected, live, taps, faults>>

AddAnswered(i) ==
  /\ Answered(i, "add")
  /\ view' = [view EXCEPT ![requests[i].server].rows =
                Append(@, [key |-> requests[i].found, limited |-> FALSE])]
  /\ Done(i)
  /\ UNCHANGED <<server, cache, selected, live, taps, faults>>

RemoveAnswered(i) ==
  /\ Answered(i, "remove")
  /\ view' = [view EXCEPT ![requests[i].server].rows =
                RemoveRow(@, requests[i].what)]
  /\ Done(i)
  /\ UNCHANGED <<server, cache, selected, live, taps, faults>>

(* The dialog is closed, and the stats are asked for.                      *)
KeyLimitAnswered(i) ==
  LET s == requests[i].server IN
  /\ Answered(i, "keyLimit")
  /\ Then(i, Stats(s, s))
  /\ UNCHANGED <<server, cache, view, selected, live, taps, faults>>

(* What is shown when a setting was saved, and when that failed, with the  *)
(* copies after it.  The name is taken back to the one of the server that  *)
(* is selected by now, the limit to the one before; the checkbox of the    *)
(* metrics, the host and the port are left as the user changed them.       *)
Renamed(w, name) ==
  [w EXCEPT !.title = name,
            !.set["name"] = IF w.title = name THEN @ ELSE name]

(* App.setMetricsEnabled: after a failure the page keeps the value it has, *)
(* and so does the checkbox the one that the user gave it.                 *)
MetricsEnabled(w, v) == [w EXCEPT !.set["metrics"] = v]

Saved(r, w) ==
  CASE r.what = "name"      -> Renamed(w, r.value)
    [] r.what \in Validated -> [w EXCEPT !.saved[r.what] = w.set[r.what]]
    [] r.what = "metrics"   -> MetricsEnabled(w, r.value)
    [] r.what = "limit"     -> [w EXCEPT !.set["limit"] = r.value]

NotSaved(r, w) ==
  LET oldName == IF cache[selected] = None THEN None ELSE cache[selected]["name"]
  IN  CASE r.what = "name"  -> [w EXCEPT !.title = oldName, !.set["name"] = oldName]
        [] r.what = "limit" -> [w EXCEPT !.set["limit"] = r.prev]
        [] OTHER            -> w

(* The client object changes its copy, then App the view.  After a change  *)
(* of the limit App asks the server that is selected by now for the stats. *)
SetAnswered(i) ==
  LET r == requests[i]
      s == r.server
  IN
  /\ Answered(i, "set")
  /\ cache[s] # None
  /\ cache' = [cache EXCEPT ![s][r.what] = r.value]
  /\ view' = [view EXCEPT ![s] = Saved(r, @)]
  /\ IF r.what = "limit" THEN Then(i, Stats(selected, s)) ELSE Done(i)
  /\ UNCHANGED <<server, selected, live, taps, faults>>

(* A request fails, before or after the server executed it, or it was      *)
(* rejected, or there is no copy of the configuration to change yet.       *)
Failed(i) ==
  LET r == requests[i]
      s == r.server
  IN
  /\ r # None
  /\ \/ r.pc = "rejected" /\ UNCHANGED faults
     \/ Answered(i, "set") /\ cache[s] = None /\ UNCHANGED faults
     \/ r.pc # "rejected" /\ Fault
  /\ requests' = [requests EXCEPT ![i] =
                    IF r.op = "list" THEN Stats(s, s) ELSE None]
  /\ live' = IF r.op = "list" THEN live \cup {s} ELSE live
  /\ view' = [view EXCEPT ![s] =
                CASE r.op = "config" /\ r.waits -> Unreachable(@)
                  [] r.op = "set"               -> NotSaved(r, @)
                  [] OTHER                      -> @]
  /\ disturbed' = IF r.pc = "rejected" \/ r.op = "stats" THEN disturbed ELSE disturbed \cup {s}
  /\ UNCHANGED <<server, cache, selected, taps>>

----------------------------------------------------------------------------
User ==
  \E s \in Servers :
       \/ ShowServer(s) \/ RetryDisplayingServer(s)
       \/ AddAccessKey(s)
       \/ \E k \in Keys :
            \/ RemoveAccessKey(s, k)
            \/ \E v \in Values : SavePerKeyDataLimit(s, k, v)
       \/ \E v \in Values :
            \/ RenameServer(s, v) \/ SetMetricsEnabled(s, v)
            \/ SetDefaultDataLimit(s, v)
            \/ \E x \in Validated : SetValidated(s, x, v)
       \/ \E x \in Validated : CancelInput(s, x)

Answer(i) ==
  \/ ConfigAnswered(i) \/ ListAnswered(i) \/ StatsAnswered(i)
  \/ AddAnswered(i) \/ RemoveAnswered(i) \/ KeyLimitAnswered(i)
  \/ SetAnswered(i)

Next ==
  \/ User
  \/ \E i \in Causes : Execute(i) \/ Answer(i) \/ HealthTimeout(i) \/ Failed(i)
  \/ \E s \in Servers : Tick(s)

Spec == Init /\ [][Next]_vars

(* Timers fire, and a server that could be reached answers.  The request   *)
(* for the configuration may hang: isHealthy has a time limit for it.      *)
Rejected(i) ==
  /\ requests[i] # None
  /\ \/ requests[i].pc = "rejected"
     \/ Answered(i, "set") /\ cache[requests[i].server] = None
  /\ Failed(i)

Proceeds(i) ==
  \/ requests[i] # None /\ requests[i].op # "config" /\ Execute(i)
  \/ Answer(i) \/ HealthTimeout(i) \/ Rejected(i)

Fairness ==
  /\ \A i \in Causes : WF_vars(Proceeds(i))
  /\ \A s \in Servers : WF_vars(Tick(s))

FairSpec == Spec /\ Fairness

----------------------------------------------------------------------------
TypeOK ==
  /\ server \in [Servers -> [set : Config, keys : KeyStates]]
  /\ cache \in [Servers -> Config \cup {None}]
  /\ view \in [Servers -> View]
  /\ \A s \in Servers : view[s].page = "management" => cache[s] # None
  /\ selected \in Servers
  /\ DOMAIN requests = Causes
  /\ \A i \in Outstanding :
       /\ requests[i].op \in Operations
       /\ requests[i] \in Request(requests[i].op)
  /\ live \subseteq Servers /\ disturbed \subseteq Servers
  /\ taps \in 0 .. MaxTaps /\ faults \in 0 .. MaxFaults

(* When nothing that a server was asked for is under way, the page of the  *)
(* server shows its keys, each once, and its settings, and the copy of the *)
(* configuration is right: whatever the user did on other pages meanwhile. *)
(* Not so after a failure, nor after requests about the same thing that    *)
(* overlapped.  The input of the name is left out: the settings send a     *)
(* name only if it differs from the one they were opened with.             *)
Idle(s) == \A i \in Outstanding : s \notin {requests[i].server, requests[i].view}

ViewsAgreeAtRest ==
  \A s \in Servers \ disturbed :
    Idle(s) /\ view[s].page = "management" =>
      /\ cache[s] = server[s].set
      /\ view[s].title = server[s].set["name"]
      /\ \A x \in Settings \ {"name"} : view[s].set[x] = server[s].set[x]
      /\ LET rows == view[s].rows IN
         /\ {rows[n].key : n \in DOMAIN rows} = Listed(server[s].keys)
         /\ \A m, n \in DOMAIN rows : rows[m].key = rows[n].key => m = n

(* While the interval of a server runs, what its page shows of the limits  *)
(* of its keys is brought up to date again and again: answers that come in *)
(* the wrong order, that fail, or that are of another server do not last.  *)
LimitsShown(s) == UpdateRows(view[s].rows, server[s].keys) = view[s].rows
RowLimitsConverge ==
  \A s \in Servers : []<>(s \notin live \/ LimitsShown(s))

(* The page of a server does not stay empty: isHealthy gives up after 30   *)
(* seconds, and then the page offers to try again.                         *)
ViewDecided == \A s \in Servers : (view[s].page = "blank") ~> (view[s].page # "blank")
=============================================================================
