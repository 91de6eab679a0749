-------------------------- MODULE ManagerAppProofs --------------------------
(***************************************************************************)
(* For any servers, URLs, users and number of sign-in flows, and however   *)
(* long they go on: what App lists, knows, has selected and has stored     *)
(* agrees after every step.                                                *)
(***************************************************************************)
EXTENDS ManagerApp, TLAPS

----------------------------------------------------------------------------
(* The inductive invariant.  Most of it is about the record app alone, and *)
(* is stated of any such record, so that what a part of a handler does to  *)
(* it is a lemma of its own.                                               *)

AppRecord ==
  [stored : AccountsOf, legacy : Users \cup {None},
   account : AccountsOf, shown : SUBSET Providers,
   serverList : SUBSET Servers, idServerMap : SUBSET Servers,
   selectedServer : Servers \cup {None},
   selectedServerId : Servers \cup {None},
   lastDisplayed : Servers \cup {None},
   page : Pages, manual : SUBSET Urls,
   options : BOOLEAN, creating : BOOLEAN,
   wizard : Users \cup {None}, mixed : SUBSET Providers]

(* Whose servers may be listed: those of the account that is connected, or *)
(* of another one that was still about when this one was.                  *)
MayList(a, p, s) ==
  Connected(a, p) /\ (Owner[s] = a.account[p] \/ p \in a.mixed)

AccountsOK(a) ==
  /\ a.stored = a.account
  /\ a.legacy # None => Connected(a, "do")
  /\ \A p \in Providers : \A s \in a.serverList \cap ServersOf(p) :
       MayList(a, p, s)

SelectionOK(a) ==
  LET s == a.selectedServerId
  IN s # None =>
       /\ a.selectedServer = s /\ a.lastDisplayed = s
       /\ s \in a.serverList \cup Urls

SessionOK(a) ==
  /\ a \in AppRecord
  /\ a.serverList = a.idServerMap
  /\ AccountsOK(a)
  /\ SelectionOK(a)

(* A request that is under way has its server. *)
RequestsNamed ==
  /\ creation.pc = "created" => creation.id # None
  /\ instance.pc = "created" => instance.id # None
  /\ deletion.pc # "none" => deletion.id # None
  /\ manual.pc # "none" => manual.id # None

(* Whoever the open dialog belongs to waits for it: a manual server is not *)
(* checked again, nor another one deleted, before it is answered.          *)
DialogAwaited ==
  /\ dialog.owner = "deletion" => deletion.pc = "dialog"
  /\ dialog.owner = "manual" => manual.pc = "dialog"

(* A server that was created belongs to the account that was asked to, and *)
(* the requests under way, unless mixed says otherwise, were sent to the   *)
(* account that is connected.                                              *)
CreatedOwn ==
  /\ creation.pc = "created" => Owner[creation.id] = creation.of
  /\ instance.pc = "created" => Owner[instance.id] = instance.of

Asked(r) == r.pc \in {"asking", "created"}

AskedOf(p, u) ==
  /\ \A w \in Loads : loads[p][w].pc = "listing" => loads[p][w].of = u
  /\ p = "do" /\ Asked(creation) => creation.of = u
  /\ p = "gcp" /\ Asked(instance) => instance.of = u
  /\ p = "gcp" /\ app.page = "gcpCreateServer" => app.wizard = u

RequestsOwn ==
  \A p \in Providers :
    Connected(app, p) /\ p \notin app.mixed => AskedOf(p, app.account[p])

OwnersOK == CreatedOwn /\ RequestsOwn

AppInv ==
  /\ TypeOK
  /\ SessionOK(app)
  /\ RequestsNamed
  /\ DialogAwaited
  /\ OwnersOK
  /\ StoredManualServersListed

----------------------------------------------------------------------------
(* What the parts of a handler do to a record app.                         *)

LEMMA Disjoint ==
  /\ ServersOf("do") = Droplets /\ ServersOf("gcp") = Instances
  /\ \A p \in Providers : ServersOf(p) \subseteq Managed
  /\ \A u \in Urls : u \in Servers /\ u \notin Managed /\ u # None
  /\ \A s \in Servers : s # None
  /\ \A s \in Managed : s \in Servers
  /\ \A u \in Users : u # None
BY NamesAssumption DEF ServersOf, Providers, Managed, Servers

(* What has to do with the accounts is as it was. *)
SameAccounts(a, b) ==
  b.account = a.account /\ b.mixed = a.mixed /\ b.wizard = a.wizard

LEMMA PageShown ==
  ASSUME NEW a, SessionOK(a), NEW q \in Pages
  PROVE  LET b == [a EXCEPT !.page = q]
         IN /\ SessionOK(b) /\ SameAccounts(a, b) /\ b.page = q
            /\ b.manual = a.manual /\ b.serverList = a.serverList
BY DEF SessionOK, AppRecord, AccountsOK, MayList, Connected, SelectionOK,
   SameAccounts

LEMMA IntroShown ==
  ASSUME NEW a, SessionOK(a)
  PROVE  LET b == ShowIntro(a)
         IN /\ SessionOK(b) /\ SameAccounts(a, b) /\ b.page = "intro"
            /\ b.manual = a.manual /\ b.serverList = a.serverList
BY DEF SessionOK, AppRecord, AccountsOK, MayList, Connected, SelectionOK,
   ShowIntro, Pages, SameAccounts

LEMMA ServerShown ==
  ASSUME NEW a, SessionOK(a), NEW id \in a.serverList \cup Urls
  PROVE  LET b == ShowServer(a, id)
         IN /\ SessionOK(b) /\ SameAccounts(a, b) /\ b.page = "serverView"
            /\ b.manual = a.manual /\ b.serverList = a.serverList
BY Disjoint DEF SessionOK, AppRecord, AccountsOK, MayList, Connected,
   SelectionOK, ShowServer, Pages, SameAccounts

LEMMA RecordWithout ==
  ASSUME NEW a \in AppRecord, NEW ids
  PROVE  LET b == RemoveServers(a, ids)
         IN /\ b \in AppRecord
            /\ b.stored = a.stored /\ b.legacy = a.legacy
            /\ SameAccounts(a, b) /\ b.page = a.page /\ b.manual = a.manual
            /\ b.serverList = a.serverList \ ids
            /\ b.idServerMap = a.idServerMap \ ids
            /\ b.selectedServerId =
                 IF a.selectedServerId \in ids THEN None ELSE a.selectedServerId
            /\ a.selectedServerId \notin ids =>
                 /\ b.selectedServer = a.selectedServer
                 /\ b.lastDisplayed = a.lastDisplayed
<1> DEFINE gone == a.selectedServerId \in ids
           id == IF gone THEN None ELSE a.selectedServerId
           selected == IF gone THEN None ELSE a.selectedServer
           displayed == IF gone THEN None ELSE a.lastDisplayed
<1>1. /\ id \in Servers \cup {None} /\ selected \in Servers \cup {None}
      /\ displayed \in Servers \cup {None}
      /\ ~gone => selected = a.selectedServer /\ displayed = a.lastDisplayed
  BY DEF AppRecord
<1>2. RemoveServers(a, ids) =
        [a EXCEPT !.idServerMap = @ \ ids, !.serverList = @ \ ids,
                  !.selectedServer = selected, !.selectedServerId = id,
                  !.lastDisplayed = displayed]
  BY DEF RemoveServers, AppRecord
<1> DEFINE b == [a EXCEPT !.idServerMap = @ \ ids, !.serverList = @ \ ids,
                          !.selectedServer = selected, !.selectedServerId = id,
                          !.lastDisplayed = displayed]
<1> HIDE DEF selected, displayed
<1>3. /\ b.idServerMap = a.idServerMap \ ids
      /\ b.serverList = a.serverList \ ids
      /\ b.selectedServer = selected /\ b.selectedServerId = id
      /\ b.lastDisplayed = displayed
      /\ b.stored = a.stored /\ b.legacy = a.legacy
      /\ b.account = a.account /\ b.mixed = a.mixed /\ b.wizard = a.wizard
      /\ b.page = a.page /\ b.manual = a.manual
      /\ b.shown = a.shown /\ b.options = a.options
      /\ b.creating = a.creating
  BY DEF AppRecord
<1>4. b \in AppRecord
  BY <1>1 DEF AppRecord
<1> HIDE DEF b
<1> QED
  BY <1>1, <1>2, <1>3, <1>4 DEF SameAccounts, b

LEMMA ServersRemoved ==
  ASSUME NEW a, SessionOK(a), NEW ids
  PROVE  LET b == RemoveServers(a, ids)
         IN /\ SessionOK(b) /\ SameAccounts(a, b) /\ b.page = a.page
            /\ b.manual = a.manual /\ b.serverList = a.serverList \ ids
<1> DEFINE b == RemoveServers(a, ids)
<1>1. /\ b \in AppRecord
      /\ b.stored = a.stored /\ b.legacy = a.legacy
      /\ SameAccounts(a, b) /\ b.page = a.page /\ b.manual = a.manual
      /\ b.serverList = a.serverList \ ids
      /\ b.idServerMap = a.idServerMap \ ids
      /\ b.selectedServerId =
           IF a.selectedServerId \in ids THEN None ELSE a.selectedServerId
      /\ a.selectedServerId \notin ids =>
           /\ b.selectedServer = a.selectedServer
           /\ b.lastDisplayed = a.lastDisplayed
  BY RecordWithout DEF SessionOK
<1> HIDE DEF b
<1>2. AccountsOK(b)
  BY <1>1 DEF SessionOK, AccountsOK, MayList, Connected, SameAccounts
<1>3. SelectionOK(b)
  BY <1>1 DEF SessionOK, SelectionOK
<1> QED
  BY <1>1, <1>2, <1>3 DEF SessionOK, b

(* Servers may be added that are manual or may be listed. *)
LEMMA ServersAdded ==
  ASSUME NEW a, SessionOK(a), NEW ids \in SUBSET Servers,
         \A p \in Providers : \A s \in ids \cap ServersOf(p) : MayList(a, p, s)
  PROVE  LET b == AddServers(a, ids)
         IN /\ SessionOK(b) /\ SameAccounts(a, b) /\ b.page = a.page
            /\ b.manual = a.manual /\ b.serverList = a.serverList \cup ids
BY DEF SessionOK, AppRecord, AccountsOK, MayList, Connected, SelectionOK,
   AddServers, SameAccounts

(* Save touches what is stored of the accounts, and nothing else. *)
LEMMA AccountsSaved ==
  ASSUME NEW a \in AppRecord
  PROVE  /\ Save(a) \in AppRecord
         /\ Save(a).stored = a.account
         /\ Save(a).legacy = a.account["do"]
         /\ Save(a).serverList = a.serverList
         /\ Save(a).idServerMap = a.idServerMap
         /\ Save(a).selectedServer = a.selectedServer
         /\ Save(a).selectedServerId = a.selectedServerId
         /\ Save(a).lastDisplayed = a.lastDisplayed
         /\ Save(a).manual = a.manual
         /\ Save(a).page = a.page
         /\ SameAccounts(a, Save(a))
BY DEF Save, AppRecord, AccountsOf, Providers, SameAccounts

(* The account of u takes the place of any other, which leaves nothing     *)
(* behind, or is not forgotten.                                            *)
Taken(a, p, u, m) == Save([a EXCEPT !.account[p] = u, !.mixed = m])

LEMMA AccountConnected ==
  ASSUME NEW a, SessionOK(a), NEW p \in Providers, NEW u \in Users,
         NEW m \in SUBSET Providers,
         \A q \in Providers \ {p} : q \in m <=> q \in a.mixed,
         p \in m \/ \A s \in a.serverList \cap ServersOf(p) : Owner[s] = u
  PROVE  LET b == Taken(a, p, u, m)
         IN /\ SessionOK(b)
            /\ b.account = [a.account EXCEPT ![p] = u] /\ b.mixed = m
            /\ b.wizard = a.wizard /\ b.page = a.page
            /\ b.manual = a.manual /\ b.serverList = a.serverList
<1> DEFINE n == [a.account EXCEPT ![p] = u]
           b == [a EXCEPT !.account = n, !.mixed = m]
           c == Save(b)
<1>2. /\ n \in AccountsOf /\ n[p] = u
      /\ \A q \in Providers \ {p} : n[q] = a.account[q]
  BY DEF SessionOK, AppRecord, AccountsOf
<1>3. Taken(a, p, u, m) = c
  BY DEF Taken
<1> HIDE DEF n
<1>4. b \in AppRecord /\ b.account = n /\ b.mixed = m
      /\ b.serverList = a.serverList /\ b.idServerMap = a.idServerMap
      /\ b.selectedServer = a.selectedServer
      /\ b.selectedServerId = a.selectedServerId
      /\ b.lastDisplayed = a.lastDisplayed /\ b.manual = a.manual
      /\ b.wizard = a.wizard /\ b.page = a.page
  BY <1>2 DEF SessionOK, AppRecord
<1> HIDE DEF b
<1>5. /\ c \in AppRecord /\ c.stored = n /\ c.legacy = n["do"]
      /\ c.account = n /\ c.mixed = m
      /\ c.serverList = a.serverList /\ c.idServerMap = a.idServerMap
      /\ c.selectedServer = a.selectedServer
      /\ c.selectedServerId = a.selectedServerId
      /\ c.lastDisplayed = a.lastDisplayed /\ c.manual = a.manual
      /\ c.wizard = a.wizard /\ c.page = a.page
  BY <1>4, AccountsSaved DEF SameAccounts
<1> HIDE DEF c
<1>6. ASSUME NEW q \in Providers, NEW s \in a.serverList \cap ServersOf(q)
      PROVE  MayList(c, q, s)
  <2>1. CASE q = p
    BY <1>2, <1>5, <1>6, <2>1, Disjoint DEF MayList, Connected
  <2>2. CASE q # p
    <3>1. MayList(a, q, s)
      BY <1>6 DEF SessionOK, AccountsOK
    <3> QED
      BY <1>2, <1>5, <2>2, <3>1 DEF MayList, Connected
  <2> QED
    BY <2>1, <2>2
<1>7. AccountsOK(c)
  BY <1>5, <1>6 DEF AccountsOK, Connected
<1>8. SessionOK(c)
  BY <1>5, <1>7 DEF SessionOK, SelectionOK
<1> QED
  BY <1>3, <1>5, <1>8 DEF n

(* A disconnected account takes its servers along, and the selection. *)
LEMMA AccountDisconnected ==
  ASSUME NEW a, SessionOK(a), NEW p \in Providers
  PROVE  LET b == Disconnect(a, p)
         IN /\ SessionOK(b)
            /\ \A q \in Providers : b.account[q] \in {a.account[q], None}
            /\ b.mixed = a.mixed /\ b.wizard = a.wizard /\ b.page = a.page
            /\ b.manual = a.manual
            /\ \A u \in Urls : u \in a.serverList => u \in b.serverList
<1>1. CASE ~Connected(a, p)
  BY <1>1 DEF Disconnect
<1>2. CASE Connected(a, p)
  <2> DEFINE n == [a.account EXCEPT ![p] = None]
             b == [a EXCEPT !.account = n]
             e == Save(b)
             c == [e EXCEPT !.shown = @ \ {p}]
             ids == a.serverList \cap ServersOf(p)
             r == RemoveServers(c, ids)
  <2>1. /\ n \in AccountsOf /\ n[p] = None
        /\ \A q \in Providers \ {p} : n[q] = a.account[q]
    BY DEF SessionOK, AppRecord, AccountsOf
  <2>2. Disconnect(a, p) = r
    BY <1>2 DEF Disconnect, DropAccount
  <2> HIDE DEF n
  <2>3. /\ b \in AppRecord /\ b.account = n /\ b.mixed = a.mixed
        /\ b.serverList = a.serverList /\ b.idServerMap = a.idServerMap
        /\ b.selectedServer = a.selectedServer
        /\ b.selectedServerId = a.selectedServerId
        /\ b.lastDisplayed = a.lastDisplayed /\ b.manual = a.manual
        /\ b.wizard = a.wizard /\ b.page = a.page
    BY <2>1 DEF SessionOK, AppRecord
  <2> HIDE DEF b
  <2>4. /\ e \in AppRecord /\ e.stored = n /\ e.legacy = n["do"]
        /\ e.account = n /\ e.mixed = a.mixed
        /\ e.serverList = a.serverList /\ e.idServerMap = a.idServerMap
        /\ e.selectedServer = a.selectedServer
        /\ e.selectedServerId = a.selectedServerId
        /\ e.lastDisplayed = a.lastDisplayed /\ e.manual = a.manual
        /\ e.wizard = a.wizard /\ e.page = a.page
    BY <2>3, AccountsSaved DEF SameAccounts
  <2> HIDE DEF e
  <2>5. /\ c \in AppRecord /\ c.stored = n /\ c.legacy = n["do"]
        /\ c.account = n /\ c.mixed = a.mixed
        /\ c.serverList = a.serverList /\ c.idServerMap = a.idServerMap
        /\ c.selectedServer = a.selectedServer
        /\ c.selectedServerId = a.selectedServerId
        /\ c.lastDisplayed = a.lastDisplayed /\ c.manual = a.manual
        /\ c.wizard = a.wizard /\ c.page = a.page
    BY <2>4 DEF AppRecord
  <2> HIDE DEF c
  <2>6. /\ r \in AppRecord /\ r.stored = n /\ r.legacy = n["do"]
        /\ r.account = n /\ r.mixed = a.mixed
        /\ r.serverList = a.serverList \ ids
        /\ r.idServerMap = a.idServerMap \ ids
        /\ r.manual = a.manual /\ r.wizard = a.wizard /\ r.page = a.page
        /\ r.selectedServerId =
             IF a.selectedServerId \in ids THEN None ELSE a.selectedServerId
        /\ a.selectedServerId \notin ids =>
             r.selectedServer = a.selectedServer
             /\ r.lastDisplayed = a.lastDisplayed
    BY <2>5, RecordWithout DEF SameAccounts
  <2> HIDE DEF r
  <2>7. ASSUME NEW q \in Providers, NEW s \in r.serverList \cap ServersOf(q)
        PROVE  MayList(r, q, s)
    <3>1. q # p /\ s \in a.serverList \cap ServersOf(q)
      BY <2>6, <2>7
    <3>2. MayList(a, q, s)
      BY <3>1 DEF SessionOK, AccountsOK
    <3> QED
      BY <2>1, <2>6, <3>1, <3>2 DEF MayList, Connected
  <2>8. AccountsOK(r) /\ r.serverList = r.idServerMap
    BY <2>6, <2>7 DEF AccountsOK, Connected, SessionOK
  <2>9. SelectionOK(r)
    <3> SUFFICES ASSUME r.selectedServerId # None
                 PROVE  /\ r.selectedServer = r.selectedServerId
                        /\ r.lastDisplayed = r.selectedServerId
                        /\ r.selectedServerId \in r.serverList \cup Urls
      BY DEF SelectionOK
    <3>1. /\ r.selectedServerId = a.selectedServerId
          /\ a.selectedServerId \notin ids
          /\ r.selectedServer = a.selectedServer
          /\ r.lastDisplayed = a.lastDisplayed
          /\ r.serverList = a.serverList \ ids
      BY <2>6
    <3>2. /\ a.selectedServer = a.selectedServerId
          /\ a.lastDisplayed = a.selectedServerId
          /\ a.selectedServerId \in a.serverList \cup Urls
      BY <3>1 DEF SessionOK, SelectionOK
    <3> HIDE DEF ids
    <3> QED
      BY <3>1, <3>2
  <2>10. \A u \in Urls : u \notin ids
    BY Disjoint
  <2>11. SessionOK(r)
    BY <2>6, <2>8, <2>9 DEF SessionOK
  <2> QED
    BY <2>1, <2>2, <2>6, <2>10, <2>11
<1> QED
  BY <1>1, <1>2

(* A new App, of whatever the last one has stored. *)
LEMMA AccountsLoaded ==
  ASSUME NEW a \in AppRecord
  PROVE  LET b == LoadAccounts(a)
         IN /\ b \in AppRecord
            /\ b.stored = b.account
            /\ b.legacy # None => Connected(b, "do")
            /\ b.manual = a.manual
            /\ b.selectedServer = a.selectedServer
<1>1. CASE a.stored["do"] = None /\ a.legacy # None
  <2> DEFINE n == [p \in Providers |-> IF p = "do" THEN a.legacy ELSE None]
             c == [a EXCEPT !.account = n]
  <2>1. n \in AccountsOf
    BY DEF AccountsOf, AppRecord
  <2>2. LoadAccounts(a) = Save(c)
    BY <1>1 DEF LoadAccounts
  <2> HIDE DEF n
  <2>3. c \in AppRecord /\ c.account = n /\ c.manual = a.manual
        /\ c.selectedServer = a.selectedServer
    BY <2>1 DEF AppRecord
  <2> HIDE DEF c
  <2> QED
    BY <2>2, <2>3, AccountsSaved DEF SameAccounts, Connected
<1>2. CASE ~(a.stored["do"] = None /\ a.legacy # None)
  <2>1. LoadAccounts(a) = [a EXCEPT !.account = a.stored]
    BY <1>2, Zenon DEF LoadAccounts
  <2> QED
    BY <1>2, <2>1 DEF AppRecord, Connected
<1> QED
  BY <1>1, <1>2

LEMMA AppStarted ==
  ASSUME NEW a \in AppRecord
  PROVE  LET b == Started(a)
         IN /\ SessionOK(b)
            /\ b.manual = a.manual /\ b.serverList = a.manual
            /\ b.page = "intro" /\ b.mixed = {}
<1> DEFINE c == LoadAccounts(a)
           l == LoadManualServers(c)
           b == Started(a)
<1>1. /\ c \in AppRecord /\ c.stored = c.account
      /\ c.legacy # None => Connected(c, "do")
      /\ c.manual = a.manual
  BY AccountsLoaded
<1> HIDE DEF c
<1>2. c.manual \subseteq Servers
  BY <1>1, Disjoint DEF AppRecord
<1>3. l \in AppRecord /\ l.serverList = a.manual /\ l.idServerMap = a.manual
      /\ l.manual = a.manual /\ l.stored = c.stored /\ l.account = c.account
      /\ l.legacy = c.legacy
  BY <1>1, <1>2 DEF AppRecord, LoadManualServers
<1> HIDE DEF l
<1>4. b = [l EXCEPT !.shown = {},
                    !.selectedServer = None, !.selectedServerId = None,
                    !.page = "intro", !.options = FALSE, !.creating = FALSE,
                    !.wizard = None, !.mixed = {}]
  BY DEF Started, l, c
<1> HIDE DEF b
<1>5. /\ b \in AppRecord /\ b.stored = l.stored /\ b.account = l.account
      /\ b.legacy = l.legacy
      /\ b.serverList = a.manual /\ b.idServerMap = a.manual
      /\ b.selectedServerId = None /\ b.manual = a.manual
      /\ b.page = "intro" /\ b.mixed = {}
  BY <1>3, <1>4 DEF AppRecord, Pages
<1>6. \A p \in Providers : a.manual \cap ServersOf(p) = {}
  BY Disjoint DEF AppRecord
<1>7. AccountsOK(b)
  BY <1>1, <1>3, <1>5, <1>6 DEF AccountsOK, Connected
<1>8. SessionOK(b)
  BY <1>5, <1>7 DEF SessionOK, SelectionOK
<1> QED
  BY <1>5, <1>8 DEF b
----------------------------------------------------------------------------
(* What most handlers do: the session stays as it should be, the manual    *)
(* servers that are stored are the same, none of them leaves the list, and *)
(* no account is connected nor the wizard opened for one.                  *)
Follows(a) ==
  /\ \A p \in Providers : a.account[p] \in {app.account[p], None}
  /\ a.mixed = app.mixed /\ a.wizard = app.wizard
  /\ a.page = "gcpCreateServer" => app.page = "gcpCreateServer"

Lasts(a) ==
  /\ SessionOK(a)
  /\ a.manual = app.manual
  /\ \A u \in Urls : u \in app.serverList => u \in a.serverList

Keeps(a) == Lasts(a) /\ Follows(a)

LEMMA KeepsApp == SessionOK(app) => Keeps(app)
BY DEF Keeps, Lasts, Follows

LEMMA KeepsIntro == ASSUME NEW a, Keeps(a) PROVE Keeps(ShowIntro(a))
BY IntroShown DEF Keeps, Lasts, Follows, SameAccounts

LEMMA KeepsServer ==
  ASSUME NEW a, Keeps(a), NEW id \in a.serverList \cup Urls
  PROVE  Keeps(ShowServer(a, id))
BY ServerShown DEF Keeps, Lasts, Follows, SameAccounts

LEMMA KeepsDisconnect ==
  ASSUME NEW a, Keeps(a), NEW p \in Providers PROVE Keeps(Disconnect(a, p))
<1> DEFINE b == Disconnect(a, p)
<1>1. /\ SessionOK(b)
      /\ \A q \in Providers : b.account[q] \in {a.account[q], None}
      /\ b.mixed = a.mixed /\ b.wizard = a.wizard /\ b.page = a.page
      /\ b.manual = a.manual
      /\ \A u \in Urls : u \in a.serverList => u \in b.serverList
  BY AccountDisconnected DEF Keeps, Lasts
<1> HIDE DEF b
<1>2. Keeps(b)
  BY <1>1 DEF Keeps, Lasts, Follows
<1> QED
  BY <1>2 DEF b

(* The servers of a provider that may be listed. *)
LEMMA KeepsAdd ==
  ASSUME NEW a, Keeps(a), NEW p \in Providers, NEW ids \in SUBSET ServersOf(p),
         \A s \in ids : MayList(a, p, s)
  PROVE  Keeps(AddServers(a, ids)) /\ ids \subseteq AddServers(a, ids).serverList
<1>1. ids \subseteq Servers
  BY Disjoint
<1>2. \A q \in Providers : ids \cap ServersOf(q) # {} => q = p
  BY NamesAssumption DEF ServersOf, Providers
<1>3. \A q \in Providers : \A s \in ids \cap ServersOf(q) : MayList(a, q, s)
  BY <1>2
<1> QED
  BY <1>1, <1>3, ServersAdded DEF Keeps, Lasts, Follows, SameAccounts

LEMMA KeepsRemove ==
  ASSUME NEW a, Keeps(a), NEW ids \in SUBSET Managed
  PROVE  Keeps(RemoveServers(a, ids))
BY ServersRemoved, Disjoint DEF Keeps, Lasts, Follows, SameAccounts

(* The page, and what else of AppRoot is in nobody's way. *)
LEMMA KeepsPage ==
  ASSUME NEW a, Keeps(a), NEW q \in Pages \ {"gcpCreateServer"}
  PROVE  Keeps([a EXCEPT !.page = q])
BY PageShown DEF Keeps, Lasts, Follows, SameAccounts

Alike(a, b) ==
  /\ b \in AppRecord
  /\ b.stored = a.stored /\ b.legacy = a.legacy /\ SameAccounts(a, b)
  /\ b.serverList = a.serverList /\ b.idServerMap = a.idServerMap
  /\ b.selectedServer = a.selectedServer
  /\ b.selectedServerId = a.selectedServerId
  /\ b.lastDisplayed = a.lastDisplayed /\ b.manual = a.manual
  /\ b.page = "gcpCreateServer" => a.page = "gcpCreateServer"

LEMMA AlikeKeeps == ASSUME NEW a, Keeps(a), NEW b, Alike(a, b) PROVE Keeps(b)
BY DEF Keeps, Lasts, SessionOK, AccountsOK, MayList, Connected,
   SelectionOK, Follows, Alike, SameAccounts

LEMMA KeepsShown ==
  ASSUME NEW a, Keeps(a), NEW p \in Providers
  PROVE  Keeps([a EXCEPT !.shown = @ \cup {p}])
<1> Alike(a, [a EXCEPT !.shown = @ \cup {p}])
  BY DEF Keeps, Lasts, SessionOK, AppRecord, Alike, SameAccounts
<1> QED
  BY AlikeKeeps

LEMMA KeepsRegionPicker ==
  ASSUME NEW a, Keeps(a) PROVE Keeps(ShowRegionPicker(a))
<1>1. a \in AppRecord
  BY DEF Keeps, Lasts, SessionOK
<1>2. ShowRegionPicker(a) \in AppRecord
  BY <1>1 DEF AppRecord, ShowRegionPicker, Pages
<1>3. Alike(a, ShowRegionPicker(a))
  BY <1>1, <1>2 DEF AppRecord, Alike, SameAccounts, ShowRegionPicker
<1> QED
  BY <1>3, AlikeKeeps

LEMMA KeepsFlags ==
  ASSUME NEW a, Keeps(a)
  PROVE  /\ Keeps([a EXCEPT !.options = TRUE])
         /\ Keeps([a EXCEPT !.creating = TRUE])
<1> Alike(a, [a EXCEPT !.options = TRUE]) /\ Alike(a, [a EXCEPT !.creating = TRUE])
  BY DEF Keeps, Lasts, SessionOK, AppRecord, Alike, SameAccounts
<1> QED
  BY AlikeKeeps

----------------------------------------------------------------------------
(* The end of a load, of the page for a new server and of a wait.          *)
LEMMA KeepsCreateServerPage ==
  ASSUME NEW c, NEW a, Keeps(a), CreateServerPage(c, a) PROVE Keeps(app')
BY KeepsIntro DEF CreateServerPage

LEMMA KeepsLoaded ==
  ASSUME NEW p, NEW w, NEW a, Keeps(a), NEW servers \in SUBSET a.serverList,
         NEW ok, Loaded(p, w, a, servers, ok)
  PROVE  Keeps(app')
<1>1. CASE DigitalOceanLoaded(w, a, servers)
  BY <1>1, KeepsCreateServerPage, KeepsServer DEF DigitalOceanLoaded
<1>2. CASE GcpLoaded(w, a, ok)
  BY <1>2, KeepsIntro DEF GcpLoaded
<1> QED
  BY <1>1, <1>2 DEF Loaded

LEMMA KeepsProceed ==
  ASSUME NEW p, NEW w, NEW a, Keeps(a), NEW pc, Proceed(p, w, a, pc)
  PROVE  Keeps(app')
BY DEF Proceed

LEMMA KeepsActivation ==
  ASSUME NEW c, NEW a, Keeps(a)
  PROVE  /\ \A r : Activation(c, r, a) => Keeps(app')
         /\ ActivationEnds(c, a) => Keeps(app')
BY KeepsIntro DEF Activation, ActivationEnds

LEMMA KeepsRegions ==
  ASSUME NEW c, SessionOK(app), RegionPicker(c) PROVE Keeps(app')
BY KeepsApp, KeepsRegionPicker DEF Activation, RegionPicker
----------------------------------------------------------------------------
(* The handlers that have nothing to do with manual servers.               *)

(* Those that do not touch App at all. *)
Elsewhere ==
  \/ \E f \in Flows : DigitalOceanOauthPost(f) \/ GcpOauthCallback(f)
  \/ CreationFails \/ InstanceFails \/ SetUpGcpServerTapped
  \/ \E d \in Droplets : DropletCreated(d)
  \/ \E i \in Instances : InstanceCreated(i)
  \/ \E s \in Managed : DeleteTapped(s)
  \/ CancelCreationTapped \/ ServerDeleted \/ DeletionFails

LEMMA ElsewhereKeeps ==
  ASSUME SessionOK(app), Elsewhere PROVE Keeps(app') /\ UNCHANGED manual
<1>1. CASE \/ \E f \in Flows : DigitalOceanOauthPost(f) \/ GcpOauthCallback(f)
           \/ CreationFails \/ InstanceFails \/ SetUpGcpServerTapped
  BY <1>1, KeepsApp
  DEF DigitalOceanOauthPost, GcpOauthCallback, CreationFails, InstanceFails,
      SetUpGcpServerTapped, requests
<1>2. ASSUME NEW d \in Droplets, DropletCreated(d)
      PROVE  Keeps(app') /\ UNCHANGED manual
  BY <1>2, KeepsApp DEF DropletCreated
<1>3. ASSUME NEW i \in Instances, InstanceCreated(i)
      PROVE  Keeps(app') /\ UNCHANGED manual
  BY <1>3, KeepsApp DEF InstanceCreated
<1>4. ASSUME NEW s \in Managed, DeleteTapped(s)
      PROVE  Keeps(app') /\ UNCHANGED manual
  BY <1>4, KeepsApp DEF DeleteTapped
<1>5. CASE CancelCreationTapped \/ ServerDeleted \/ DeletionFails
  BY <1>5, KeepsApp DEF CancelCreationTapped, ServerDeleted, DeletionFails
<1> QED
  BY <1>1, <1>2, <1>3, <1>4, <1>5 DEF Elsewhere

(* Signing out, and what leads to an account and takes one away. *)
Session(p) ==
  \/ SignOutTapped(p)
  \/ \E f \in Flows :
       \/ ConnectTapped(p, f) \/ CancelSessionTapped(p, f)
       \/ OauthFails(p, f)

LEMMA SessionKeeps ==
  ASSUME SessionOK(app), NEW p \in Providers, Session(p) PROVE Keeps(app')
<1>1. Keeps(app) /\ Keeps(Disconnect(app, p))
  BY KeepsApp, KeepsDisconnect
<1>2. Keeps(ShowIntro(Disconnect(app, p)))
  BY <1>1, KeepsIntro
<1>3. CASE SignOutTapped(p)
  BY <1>2, <1>3 DEF SignOutTapped
<1>4. ASSUME NEW f \in Flows, ConnectTapped(p, f) PROVE Keeps(app')
  <2>1. OauthPage(p) \in Pages \ {"gcpCreateServer"}
    BY DEF OauthPage, Pages
  <2>2. app' = [app EXCEPT !.page = OauthPage(p)]
    BY <1>4 DEF ConnectTapped
  <2> QED
    BY <1>1, <2>1, <2>2, KeepsPage
<1>5. ASSUME NEW f \in Flows, CancelSessionTapped(p, f) PROVE Keeps(app')
  BY <1>2, <1>5 DEF CancelSessionTapped
<1>6. ASSUME NEW f \in Flows, OauthFails(p, f) PROVE Keeps(app')
  BY <1>2, <1>6 DEF OauthFails
<1> QED
  BY <1>3, <1>4, <1>5, <1>6 DEF Session

(* Loading an account: servers are added while one is connected, whenever  *)
(* the answer arrives, and are its own unless mixed says otherwise.        *)
Loading(p, w) ==
  \/ NameAnswered(p, w) \/ ServersListed(p, w) \/ LoadFails(p, w)
  \/ p = "do" /\ (StatusActive(w) \/ StatusInactive(w))

LEMMA ListedAreOwn ==
  ASSUME RequestsOwn, NEW p \in Providers, NEW w \in Loads,
         loads[p][w].pc = "listing", Connected(app, p)
  PROVE  /\ Listed(p, w) \subseteq ServersOf(p)
         /\ \A s \in Listed(p, w) : MayList(app, p, s)
BY DEF RequestsOwn, AskedOf, Listed, MayList

LEMMA LoadingKeeps ==
  ASSUME SessionOK(app), RequestsOwn,
         NEW p \in Providers, NEW w \in Loads, Loading(p, w)
  PROVE  Keeps(app')
<1>1. Keeps(app)
  BY KeepsApp
<1>2. CASE NameAnswered(p, w)
  <2> DEFINE a == [app EXCEPT !.shown = @ \cup {p}]
  <2>1. Keeps(a)
    BY <1>1, KeepsShown
  <2> HIDE DEF a
  <2>2. \/ \E pc : Proceed(p, w, a, pc)
        \/ Loaded(p, w, a, {}, FALSE)
    BY <1>2 DEF NameAnswered, a
  <2> QED
    BY <2>1, <2>2, KeepsProceed, KeepsLoaded
<1>3. CASE StatusActive(w)
  <2>1. \/ Proceed("do", w, app, "listing")
        \/ Loaded("do", w, app, {}, FALSE)
    BY <1>3 DEF StatusActive
  <2> QED
    BY <1>1, <2>1, KeepsProceed, KeepsLoaded
<1>4. CASE StatusInactive(w)
  BY <1>1, <1>4, KeepsLoaded DEF StatusInactive
<1>5. CASE ServersListed(p, w)
  <2> DEFINE servers == Listed(p, w)
  <2>1. loads[p][w].pc = "listing"
    BY <1>5 DEF ServersListed
  <2>2. CASE servers = {} \/ Connected(app, p)
    <3>1. servers \subseteq ServersOf(p) /\ \A s \in servers : MayList(app, p, s)
      BY <2>1, <2>2, ListedAreOwn
    <3>2. Loaded(p, w, AddServers(app, servers), servers, TRUE)
      BY <1>5, <2>2 DEF ServersListed
    <3> HIDE DEF servers
    <3>3. Keeps(AddServers(app, servers))
          /\ servers \subseteq AddServers(app, servers).serverList
      BY <1>1, <3>1, KeepsAdd
    <3> QED
      BY <3>2, <3>3, KeepsLoaded
  <2>3. CASE ~(servers = {} \/ Connected(app, p))
    <3>1. Loaded(p, w, app, {}, FALSE)
      BY <1>5, <2>3 DEF ServersListed
    <3> QED
      BY <1>1, <3>1, KeepsLoaded
  <2> QED
    BY <2>2, <2>3
<1>6. CASE LoadFails(p, w)
  <2>1. PICK some \in SUBSET Listed(p, w) :
          /\ some # {} => loads[p][w].pc = "listing" /\ Connected(app, p)
          /\ Loaded(p, w, AddServers(app, some), {}, FALSE)
    BY <1>6 DEF LoadFails
  <2>2. some \subseteq ServersOf(p) /\ \A s \in some : MayList(app, p, s)
    BY <2>1, ListedAreOwn
  <2>3. Keeps(AddServers(app, some))
    BY <1>1, <2>2, KeepsAdd
  <2> QED
    BY <2>1, <2>3, KeepsLoaded
<1> QED
  BY <1>2, <1>3, <1>4, <1>5, <1>6 DEF Loading

(* Waiting for an account that is active, and for the regions. *)
Activating(c) ==
  \/ CancelActivationTapped(c)
  \/ AccountActive(c) \/ ActiveScreenEnds(c)
  \/ AccountInactive(c) \/ AskAgain(c) \/ LocationsAnswered(c)
  \/ ActivationRequestFails(c)
  \/ ActivationRetry(c) \/ ActivationReconnect(c)

LEMMA ActivatingKeeps ==
  ASSUME SessionOK(app), NEW c \in Callers, Activating(c) PROVE Keeps(app')
<1>1. Keeps(app) /\ Keeps(Disconnect(app, "do"))
  BY KeepsApp, KeepsDisconnect DEF Providers
<1>2. CASE CancelActivationTapped(c)
  BY <1>1, <1>2 DEF CancelActivationTapped
<1>3. CASE AccountActive(c)
  <2>1. \/ \E r : Activation(c, r, app)
        \/ RegionPicker(c)
    BY <1>3 DEF AccountActive
  <2> QED
    BY <1>1, <2>1, KeepsActivation, KeepsRegions
<1>4. CASE ActiveScreenEnds(c)
  BY <1>4, KeepsRegions DEF ActiveScreenEnds
<1>5. CASE AccountInactive(c)
  <2>1. app' = [app EXCEPT !.page = "digitalOceanOauth"]
    BY <1>5 DEF AccountInactive, Activation
  <2> QED
    BY <1>1, <2>1, KeepsPage DEF Pages
<1>6. CASE AskAgain(c)
  <2>1. \/ \E r : Activation(c, r, app)
        \/ ActivationEnds(c, app)
    BY <1>6 DEF AskAgain
  <2> QED
    BY <1>1, <2>1, KeepsActivation
<1>7. CASE LocationsAnswered(c)
  <2>1. app' = [app EXCEPT !.options = TRUE]
    BY <1>7 DEF LocationsAnswered, Activation
  <2> QED
    BY <1>1, <2>1, KeepsFlags
<1>8. CASE ActivationRequestFails(c)
  BY <1>1, <1>8 DEF ActivationRequestFails, Activation
<1>9. CASE ActivationRetry(c)
  <2>1. \/ \E r : Activation(c, r, app)
        \/ ActivationEnds(c, app)
    BY <1>9 DEF ActivationRetry
  <2> QED
    BY <1>1, <2>1, KeepsActivation
<1>10. CASE ActivationReconnect(c)
  <2>1. \/ \E r : Activation(c, r, Disconnect(app, "do"))
        \/ ActivationEnds(c, Disconnect(app, "do"))
    BY <1>10 DEF ActivationReconnect
  <2> QED
    BY <1>1, <2>1, KeepsActivation
<1> QED
  BY <1>2, <1>3, <1>4, <1>5, <1>6, <1>7, <1>8, <1>9, <1>10 DEF Activating

(* Creating and deleting servers, and what the user opens. *)
Managing ==
  \/ ShowIntroTapped \/ \E s \in Servers : ShowServerTapped(s)
  \/ ShowLastDisplayed
  \/ CreateDigitalOceanServerTapped
  \/ RegionTapped \/ CreationAnswered
  \/ GcpServerCreated
  \/ DeletionAnswered
  \/ \E retry \in BOOLEAN : CreationDialog(retry) \/ DeletionDialog(retry)
  \/ ManualTapped \/ ManualEntryCancelled

LEMMA ManagingKeeps ==
  ASSUME TypeOK, SessionOK(app), RequestsNamed, OwnersOK, Managing
  PROVE  Keeps(app')
<1>1. Keeps(app) /\ Keeps(Disconnect(app, "do"))
  BY KeepsApp, KeepsDisconnect DEF Providers
<1>2. CASE ShowIntroTapped
  BY <1>1, <1>2, KeepsIntro DEF ShowIntroTapped
<1>3. ASSUME NEW s \in Servers, ShowServerTapped(s) PROVE Keeps(app')
  <2>1. s \in app.idServerMap => s \in app.serverList
    BY DEF SessionOK
  <2> QED
    BY <1>1, <1>3, <2>1, KeepsServer DEF ShowServerTapped
<1>4. CASE ShowLastDisplayed
  <2>1. app.lastDisplayed \in app.idServerMap =>
          app.lastDisplayed \in app.serverList
    BY DEF SessionOK
  <2> QED
    BY <1>1, <1>4, <2>1, KeepsServer DEF ShowLastDisplayed
<1>5. CASE CreateDigitalOceanServerTapped
  BY <1>1, <1>5, KeepsCreateServerPage DEF CreateDigitalOceanServerTapped
<1>6. CASE RegionTapped
  <2>1. app' = [app EXCEPT !.creating = TRUE]
    BY <1>6 DEF RegionTapped
  <2> QED
    BY <1>1, <2>1, KeepsFlags
<1>7. CASE CreationAnswered
  <2>1. {creation.id} \subseteq ServersOf("do")
    BY <1>7, Disjoint DEF CreationAnswered, TypeOK, RequestsNamed, Request
  <2>2. CASE Connected(app, "do")
    <3> MayList(app, "do", creation.id)
      BY <1>7, <2>2 DEF CreationAnswered, OwnersOK, CreatedOwn, RequestsOwn, AskedOf,
         Asked, MayList, Providers
    <3>1. Keeps(AddServers(app, {creation.id}))
          /\ creation.id \in AddServers(app, {creation.id}).serverList
      BY <1>1, <2>1, <2>2, KeepsAdd DEF Providers
    <3> QED
      BY <1>7, <2>2, <3>1, KeepsServer DEF CreationAnswered
  <2> QED
    BY <1>1, <1>7, <2>2 DEF CreationAnswered
<1>8. CASE GcpServerCreated
  <2>1. {instance.id} \subseteq ServersOf("gcp")
    BY <1>8, Disjoint DEF GcpServerCreated, TypeOK, RequestsNamed, Request
  <2>2. CASE Connected(app, "gcp")
    <3> MayList(app, "gcp", instance.id)
      BY <1>8, <2>2 DEF GcpServerCreated, OwnersOK, CreatedOwn, RequestsOwn, AskedOf,
         Asked, MayList, Providers
    <3>1. Keeps(AddServers(app, {instance.id}))
          /\ instance.id \in AddServers(app, {instance.id}).serverList
      BY <1>1, <2>1, <2>2, KeepsAdd DEF Providers
    <3> QED
      BY <1>8, <2>2, <3>1, KeepsServer DEF GcpServerCreated
  <2> QED
    BY <1>1, <1>8, <2>2 DEF GcpServerCreated
<1>9. CASE DeletionAnswered
  <2>1. {deletion.id} \subseteq Managed
    BY <1>9 DEF DeletionAnswered, TypeOK, RequestsNamed, Request
  <2> QED
    BY <1>1, <1>9, <2>1, KeepsRemove, KeepsIntro DEF DeletionAnswered
<1>10. ASSUME NEW retry \in BOOLEAN, CreationDialog(retry) PROVE Keeps(app')
  BY <1>1, <1>10 DEF CreationDialog
<1>11. ASSUME NEW retry \in BOOLEAN, DeletionDialog(retry) PROVE Keeps(app')
  BY <1>1, <1>11 DEF DeletionDialog
<1>12. CASE ManualTapped
  <2>1. app' = [app EXCEPT !.page = "manualEntry"]
    BY <1>12 DEF ManualTapped
  <2> QED
    BY <1>1, <2>1, KeepsPage DEF Pages
<1>13. CASE ManualEntryCancelled
  <2>1. app' = [app EXCEPT !.page = "intro"]
    BY <1>13 DEF ManualEntryCancelled
  <2> QED
    BY <1>1, <2>1, KeepsPage DEF Pages
<1> QED
  BY <1>2, <1>3, <1>4, <1>5, <1>6, <1>7, <1>8, <1>9, <1>10, <1>11, <1>12,
     <1>13 DEF Managing


(* All of these leave the check of a manual server alone. *)
Apart ==
  \/ Elsewhere \/ Managing
  \/ \E p \in Providers : Session(p)
  \/ \E p \in Providers, w \in Loads : Loading(p, w)
  \/ \E c \in Callers : Activating(c)

LEMMA ApartKeeps ==
  ASSUME TypeOK, SessionOK(app), RequestsNamed, OwnersOK, Apart
  PROVE  Keeps(app') /\ UNCHANGED manual
<1>1. CASE Elsewhere
  BY <1>1, ElsewhereKeeps
<1>2. CASE Managing
  BY <1>2, ManagingKeeps
  DEF Managing, ShowIntroTapped, ShowServerTapped, ShowLastDisplayed,
      CreateDigitalOceanServerTapped, RegionTapped, CreationAnswered,
      GcpServerCreated, DeletionAnswered,
      CreationDialog, DeletionDialog, ManualTapped, ManualEntryCancelled, requests
<1>3. ASSUME NEW p \in Providers, Session(p)
      PROVE  Keeps(app') /\ UNCHANGED manual
  BY <1>3, SessionKeeps
  DEF Session, SignOutTapped, ConnectTapped, CancelSessionTapped, OauthFails,
      requests
<1>4. ASSUME NEW p \in Providers, NEW w \in Loads, Loading(p, w)
      PROVE  Keeps(app') /\ UNCHANGED manual
  BY <1>4, LoadingKeeps
  DEF OwnersOK, Loading, NameAnswered, ServersListed, LoadFails, StatusActive,
      StatusInactive, requests
<1>5. ASSUME NEW c \in Callers, Activating(c)
      PROVE  Keeps(app') /\ UNCHANGED manual
  <2>1. UNCHANGED requests
    BY <1>5 DEF Activating, CancelActivationTapped, AccountActive,
       ActiveScreenEnds, AccountInactive, AskAgain, LocationsAnswered,
       ActivationRequestFails, ActivationRetry, ActivationReconnect,
       Activation, ActivationEnds, RegionPicker
  <2> QED
    BY <1>5, <2>1, ActivatingKeeps DEF requests
<1> QED
  BY <1>1, <1>2, <1>3, <1>4, <1>5 DEF Apart

(* An account is connected, or GcpCreateServerApp begins with one. *)
AccountTaken ==
  \/ \E p \in Providers, f \in Flows : OauthSucceeds(p, f)
  \/ CreateGcpServerTapped

LEMMA AccountConnects ==
  ASSUME SessionOK(app), NEW p \in Providers, NEW f \in Flows,
         OauthSucceeds(p, f)
  PROVE  \E u \in Users :
           /\ SessionOK(app')
           /\ app'.account = [app.account EXCEPT ![p] = u]
           /\ app'.mixed = IF OthersThan(p, u) THEN app.mixed \cup {p}
                           ELSE app.mixed \ {p}
           /\ app'.wizard = app.wizard /\ app'.page = app.page
           /\ app'.manual = app.manual /\ app'.serverList = app.serverList
<1>1. PICK u \in Users : app' = Connect(app, p, u, OthersThan(p, u))
  BY DEF OauthSucceeds
<1> DEFINE m == IF OthersThan(p, u) THEN app.mixed \cup {p}
                ELSE app.mixed \ {p}
<1>2. app' = Taken(app, p, u, m)
  BY <1>1 DEF Connect, Taken
<1>3. /\ m \in SUBSET Providers
      /\ \A q \in Providers \ {p} : q \in m <=> q \in app.mixed
  BY DEF SessionOK, AppRecord
<1>4. p \in m \/ \A s \in app.serverList \cap ServersOf(p) : Owner[s] = u
  BY DEF OthersThan
<1> HIDE DEF m
<1>5. /\ SessionOK(app')
      /\ app'.account = [app.account EXCEPT ![p] = u] /\ app'.mixed = m
      /\ app'.wizard = app.wizard /\ app'.page = app.page
      /\ app'.manual = app.manual /\ app'.serverList = app.serverList
  BY <1>2, <1>3, <1>4, AccountConnected
<1> QED
  BY <1>5 DEF m

LEMMA WizardOpened ==
  ASSUME SessionOK(app), CreateGcpServerTapped
  PROVE  /\ SessionOK(app')
         /\ app'.account = app.account /\ app'.mixed = app.mixed
         /\ app'.wizard = app.account["gcp"]
         /\ app'.manual = app.manual /\ app'.serverList = app.serverList
<1>1. app.account["gcp"] \in Users \cup {None}
  BY DEF SessionOK, AppRecord, AccountsOf, Providers
<1>2. app' = [app EXCEPT !.page = "gcpCreateServer",
                         !.wizard = app.account["gcp"]]
  BY DEF CreateGcpServerTapped
<1> QED
  BY <1>1, <1>2 DEF SessionOK, AppRecord, AccountsOK, MayList, Connected,
     SelectionOK, Pages

LEMMA AccountTakenLasts ==
  ASSUME SessionOK(app), AccountTaken PROVE Lasts(app') /\ UNCHANGED manual
<1>1. ASSUME NEW p \in Providers, NEW f \in Flows, OauthSucceeds(p, f)
      PROVE  Lasts(app') /\ UNCHANGED manual
  <2>1. UNCHANGED manual
    BY <1>1 DEF OauthSucceeds, requests
  <2> QED
    BY <1>1, <2>1, AccountConnects DEF Lasts
<1>2. CASE CreateGcpServerTapped
  <2>1. UNCHANGED manual
    BY <1>2 DEF CreateGcpServerTapped, requests
  <2> QED
    BY <1>2, <2>1, WizardOpened DEF Lasts
<1> QED
  BY <1>1, <1>2 DEF AccountTaken

----------------------------------------------------------------------------
(* The handlers of manual servers.                                         *)
ManualHandler ==
  \/ \E retry \in BOOLEAN : ManualServerError(retry)
  \/ ManualServerHealthy \/ ManualServerUnhealthy
  \/ \E u \in Urls : ManualServerEntered(u) \/ ForgetTapped(u)

(* What these steps have to establish: a manual server that is stored and  *)
(* not listed is being checked.                                            *)
Settled == SessionOK(app') /\ StoredManualServersListed'

LEMMA KeptIsSettled ==
  ASSUME StoredManualServersListed, Lasts(app'),
         UNCHANGED manual \/ manual.pc # "checking"
  PROVE  Settled
<1>1. app'.manual \subseteq Urls /\ app'.manual = app.manual
  BY DEF Lasts, SessionOK, AppRecord
<1> QED
  BY <1>1 DEF StoredManualServersListed, Lasts, Settled

(* A server is stored before it is checked; one that is stored already is  *)
(* listed, as no other check is under way.                                 *)
LEMMA CreateSettles ==
  ASSUME SessionOK(app), StoredManualServersListed, manual.pc # "checking",
         NEW u \in Urls, CreateManualServer(u)
  PROVE  Settled /\ Follows(app')
<1>1. CASE u \in app.manual
  <2>1. Keeps(app')
    BY <1>1, KeepsApp, KeepsServer DEF CreateManualServer
  <2> QED
    BY <2>1, KeptIsSettled DEF Keeps
<1>2. CASE u \notin app.manual
  <2>1. app' = [app EXCEPT !.manual = @ \cup {u}]
        /\ manual'.pc = "checking" /\ manual'.id = u
    BY <1>2 DEF CreateManualServer, Idle
  <2>2. SessionOK(app') /\ app'.manual = app.manual \cup {u}
        /\ app'.serverList = app.serverList
    BY <2>1 DEF SessionOK, AppRecord, AccountsOK, MayList, Connected,
       SelectionOK
  <2>3. Follows(app')
    BY <2>1 DEF SessionOK, AppRecord, Follows
  <2> QED
    BY <2>1, <2>2, <2>3 DEF StoredManualServersListed, Settled
<1> QED
  BY <1>1, <1>2

(* A server that is forgotten is stored no more. *)
LEMMA ServerForgotten ==
  ASSUME NEW a, SessionOK(a), NEW u \in Urls
  PROVE  /\ SessionOK(Forget(a, u))
         /\ Forget(a, u).manual = a.manual \ {u}
         /\ Forget(a, u).serverList = a.serverList
         /\ SameAccounts(a, Forget(a, u)) /\ Forget(a, u).page = a.page
BY DEF SessionOK, AppRecord, AccountsOK, MayList, Connected, SelectionOK,
   SameAccounts, Forget

LEMMA ManualHandlerSettles ==
  ASSUME TypeOK, SessionOK(app), RequestsNamed, DialogAwaited,
         StoredManualServersListed, ManualHandler
  PROVE  Settled /\ Follows(app')
<1>1. manual.pc # "none" => manual.id \in Urls
  BY DEF TypeOK, RequestsNamed, Request
<1>2. ASSUME NEW retry \in BOOLEAN, ManualServerError(retry)
      PROVE  Settled /\ Follows(app')
  <2>1. manual.pc = "dialog"
    BY <1>2 DEF ManualServerError, DialogAwaited
  <2>2. CASE retry
    BY <1>1, <1>2, <2>1, <2>2, CreateSettles DEF ManualServerError
  <2>3. CASE ~retry
    <3>1. app' = [app EXCEPT !.page = "intro"]
      BY <1>2, <2>3 DEF ManualServerError
    <3>2. Keeps(app')
      BY <3>1, KeepsApp, KeepsPage DEF Pages
    <3> QED
      BY <2>1, <3>2, KeptIsSettled DEF Keeps
  <2> QED
    BY <2>2, <2>3
<1>3. CASE ManualServerHealthy
  <2> DEFINE a == AddServers(app, {manual.id})
  <2>1. manual.id \in Urls /\ manual.pc = "checking" /\ manual' = Idle
    BY <1>1, <1>3 DEF ManualServerHealthy
  <2>2. {manual.id} \subseteq Servers
        /\ \A p \in Providers : {manual.id} \cap ServersOf(p) = {}
    BY <2>1, Disjoint
  <2>3. SessionOK(a) /\ a.manual = app.manual /\ SameAccounts(app, a)
        /\ a.serverList = app.serverList \cup {manual.id}
    BY <2>2, ServersAdded
  <2>4. app' = ShowServer(a, manual.id)
    BY <1>3 DEF ManualServerHealthy
  <2> HIDE DEF a
  <2>5. SessionOK(app') /\ app'.manual = a.manual
        /\ SameAccounts(a, app') /\ app'.page = "serverView"
        /\ app'.serverList = a.serverList
    BY <2>1, <2>3, <2>4, ServerShown
  <2>6. Follows(app')
    BY <2>3, <2>5 DEF Follows, SameAccounts
  <2> QED
    BY <2>1, <2>3, <2>5, <2>6 DEF StoredManualServersListed, Settled
<1>4. CASE ManualServerUnhealthy
  <2>1. manual.id \in Urls /\ manual.pc = "checking" /\ manual'.pc = "dialog"
    BY <1>1, <1>4 DEF ManualServerUnhealthy, TypeOK, Request
  <2>2. SessionOK(app') /\ app'.manual = app.manual \ {manual.id}
        /\ SameAccounts(app, app') /\ app'.page = app.page
        /\ app'.serverList = app.serverList
    BY <1>4, <2>1, ServerForgotten DEF ManualServerUnhealthy
  <2> QED
    BY <2>1, <2>2 DEF StoredManualServersListed, Settled, Follows, SameAccounts
<1>5. ASSUME NEW u \in Urls, ManualServerEntered(u)
      PROVE  Settled /\ Follows(app')
  <2>1. CASE manual.pc = "none" /\ CreateManualServer(u)
    BY <2>1, CreateSettles
  <2>2. CASE app' = ShowServer(app, u) /\ UNCHANGED manual
    BY <2>2, KeepsApp, KeepsServer, KeptIsSettled DEF Keeps
  <2> QED
    BY <1>5, <2>1, <2>2 DEF ManualServerEntered
<1>6. ASSUME NEW u \in Urls, ForgetTapped(u)
      PROVE  Settled /\ Follows(app')
  <2> DEFINE a == Forget(app, u)
  <2>1. SessionOK(a) /\ a.manual = app.manual \ {u} /\ SameAccounts(app, a)
        /\ a.serverList = app.serverList
    BY ServerForgotten
  <2> HIDE DEF a
  <2> DEFINE b == RemoveServers(a, {u})
  <2>2. SessionOK(b) /\ b.manual = a.manual /\ SameAccounts(a, b)
        /\ b.serverList = a.serverList \ {u}
    BY <2>1, ServersRemoved
  <2> HIDE DEF b
  <2>3. app' = ShowIntro(b) /\ UNCHANGED manual
    BY <1>6 DEF ForgetTapped, a, b, requests
  <2>4. SessionOK(app') /\ app'.manual = b.manual
        /\ SameAccounts(b, app') /\ app'.page = "intro"
        /\ app'.serverList = b.serverList
    BY <2>2, <2>3, IntroShown
  <2>5. Follows(app')
    BY <2>1, <2>2, <2>4 DEF Follows, SameAccounts
  <2> QED
    BY <2>1, <2>2, <2>3, <2>4, <2>5 DEF StoredManualServersListed, Settled
<1> QED
  BY <1>2, <1>3, <1>4, <1>5, <1>6 DEF ManualHandler

(* A new App lists the manual servers that are stored. *)
LEMMA RestartSettles == ASSUME SessionOK(app), Restart PROVE Settled
<1>1. app' = Started(app)
  BY DEF Restart
<1> QED
  BY <1>1, AppStarted DEF SessionOK, StoredManualServersListed, Settled

(* These are all the steps there are. *)
LEMMA NextIsOneOf == Next => Apart \/ AccountTaken \/ ManualHandler \/ Restart
BY DEF Next, Apart, Elsewhere, Session, Loading, Activating, Managing,
   AccountTaken, ManualHandler, Providers

LEMMA NextSettles == AppInv /\ [Next]_vars => Settled
<1> SUFFICES ASSUME AppInv, [Next]_vars PROVE Settled
  OBVIOUS
<1> USE DEF AppInv
<1>1. CASE Apart
  BY <1>1, ApartKeeps, KeptIsSettled DEF Keeps
<1>2. CASE AccountTaken
  BY <1>2, AccountTakenLasts, KeptIsSettled
<1>3. CASE ManualHandler
  BY <1>3, ManualHandlerSettles
<1>4. CASE Restart
  BY <1>4, RestartSettles
<1>5. CASE UNCHANGED vars
  BY <1>5 DEF vars, requests, Settled, StoredManualServersListed
<1> QED
  BY <1>1, <1>2, <1>3, <1>4, <1>5, NextIsOneOf
----------------------------------------------------------------------------
(* The handlers that wait.                                                 *)
LoadPC == {"none", "browser", "verifying", "naming", "status", "listing"}
LoadRecord == [pc : LoadPC, of : Users \cup {None}]
Cancels == [kind : {"none", "session", "activation"}, of : Callers \cup {None}]
CallRecord ==
  [pc : {"none", "asking", "active", "sleeping", "locating", "dialog"},
   activating : BOOLEAN, cancelled : BOOLEAN]

WaitingTyped ==
  /\ loads \in [Providers -> [Loads -> LoadRecord]]
  /\ onCancel \in [Providers -> Cancels]
  /\ starting \in {"loading", "failed", "done"}
  /\ activation \in [Callers -> CallRecord]

(* A list of servers is asked of the account that is connected. *)
LoadsFollow ==
  \A p \in Providers, w \in Loads :
    loads'[p][w].pc = "listing" =>
      loads'[p][w] = loads[p][w] \/ loads'[p][w].of = app.account[p]

LoadsNext == loads' \in [Providers -> [Loads -> LoadRecord]] /\ LoadsFollow
WaitingNext == WaitingTyped' /\ LoadsFollow

LEMMA LoadTyped ==
  ASSUME WaitingTyped, NEW p \in Providers, NEW w \in Loads,
         NEW r \in LoadRecord,
         r.pc = "listing" => r = loads[p][w] \/ r.of = app.account[p],
         loads' = [loads EXCEPT ![p][w] = r]
  PROVE  LoadsNext
<1>1. [loads[p] EXCEPT ![w] = r] \in [Loads -> LoadRecord]
  BY DEF WaitingTyped
<1>2. loads' = [loads EXCEPT ![p] = [loads[p] EXCEPT ![w] = r]]
  OBVIOUS
<1>3. loads' \in [Providers -> [Loads -> LoadRecord]]
  BY <1>1, <1>2 DEF WaitingTyped
<1>4. \A q \in Providers, v \in Loads :
        loads'[q][v] = IF q = p /\ v = w THEN r ELSE loads[q][v]
  BY <1>2 DEF WaitingTyped
<1> QED
  BY <1>3, <1>4 DEF LoadsNext, LoadsFollow

LEMMA LoadAt ==
  \A pc \in LoadPC : At(pc) \in LoadRecord /\ At(pc).pc = pc
BY DEF At, LoadRecord

LEMMA ActivationTyped ==
  ASSUME WaitingTyped, NEW c \in Callers, NEW r \in CallRecord, NEW a,
         Activation(c, r, a)
  PROVE  WaitingNext
BY DEF WaitingTyped, WaitingNext, LoadsFollow, Activation

LEMMA WaitingKept == ASSUME WaitingTyped, UNCHANGED waiting PROVE WaitingNext
BY DEF WaitingTyped, WaitingNext, LoadsFollow, waiting

LEMMA CallActive ==
  /\ Inactive \in CallRecord
  /\ \A pc \in {"asking", "locating"} : [Inactive EXCEPT !.pc = pc] \in CallRecord
BY DEF Inactive, CallRecord

LEMMA CreateServerPageTyped ==
  ASSUME WaitingTyped, NEW c \in Callers, NEW a, CreateServerPage(c, a)
  PROVE  /\ onCancel' \in [Providers -> Cancels]
         /\ activation' \in [Callers -> CallRecord]
<1>1. [kind |-> "activation", of |-> c] \in Cancels
  BY DEF Cancels
<1>2. PICK r \in CallRecord : activation' = [activation EXCEPT ![c] = r]
  BY CallActive DEF CreateServerPage
<1> QED
  BY <1>1, <1>2 DEF CreateServerPage, WaitingTyped

LEMMA LoadedTyped ==
  ASSUME WaitingTyped, NEW p \in Providers, NEW w \in Loads, NEW a,
         NEW servers, NEW ok, Loaded(p, w, a, servers, ok)
  PROVE  WaitingNext
<1>1. w # "start" => w \in Callers
  BY DEF Loads, Callers
<1>2. At("none") \in LoadRecord /\ At("none").pc = "none"
  BY LoadAt DEF LoadPC
<1>3. CASE p = "do"
  <2>1. loads' = [loads EXCEPT !["do"][w] = At("none")] /\ UNCHANGED starting
    BY <1>3 DEF Loaded, DigitalOceanLoaded
  <2>2. LoadsNext
    BY <1>2, <2>1, LoadTyped DEF Providers
  <2>3. \/ UNCHANGED <<onCancel, activation>>
        \/ w # "start" /\ CreateServerPage(w, a)
    BY <1>3 DEF Loaded, DigitalOceanLoaded
  <2> QED
    BY <1>1, <2>1, <2>2, <2>3, CreateServerPageTyped
    DEF WaitingTyped, WaitingNext, LoadsNext
<1>4. CASE p # "do"
  <2>1. loads' = [loads EXCEPT !["gcp"][w] = At("none")]
        /\ starting' \in {"failed", starting}
        /\ UNCHANGED <<onCancel, activation>>
    BY <1>4 DEF Loaded, GcpLoaded
  <2>2. LoadsNext
    BY <1>2, <2>1, LoadTyped DEF Providers
  <2> QED
    BY <2>1, <2>2 DEF WaitingTyped, WaitingNext, LoadsNext
<1> QED
  BY <1>3, <1>4

LEMMA ProceedTyped ==
  ASSUME WaitingTyped, app \in AppRecord, NEW p \in Providers, NEW w \in Loads,
         NEW a, a.account = app.account, NEW pc \in LoadPC, Proceed(p, w, a, pc)
  PROVE  WaitingNext
<1> DEFINE r == [pc |-> pc, of |-> IF pc = "listing" THEN a.account[p] ELSE None]
<1>1. app.account[p] \in Users \cup {None}
  BY DEF AppRecord, AccountsOf
<1>2. r \in LoadRecord
  BY <1>1 DEF LoadRecord
<1>3. r.pc = "listing" => r.of = app.account[p]
  OBVIOUS
<1>4. loads' = [loads EXCEPT ![p][w] = r]
      /\ UNCHANGED <<onCancel, starting, activation>>
  BY DEF Proceed
<1> HIDE DEF r
<1>5. LoadsNext
  BY <1>2, <1>3, <1>4, LoadTyped
<1> QED
  BY <1>4, <1>5 DEF WaitingTyped, WaitingNext, LoadsNext

LEMMA SessionTyped ==
  ASSUME WaitingTyped, NEW p \in Providers, Session(p) PROVE WaitingNext
<1>1. \A f \in Flows : f \in Loads /\ f \in Callers
  BY DEF Loads, Callers
<1>2. \A pc \in {"none", "browser"} :
        At(pc) \in LoadRecord /\ At(pc).pc # "listing"
  BY LoadAt DEF LoadPC
<1>3. CASE SignOutTapped(p)
  BY <1>3, WaitingKept DEF SignOutTapped
<1>4. ASSUME NEW f \in Flows, ConnectTapped(p, f) PROVE WaitingNext
  <2>1. [kind |-> "session", of |-> f] \in Cancels
    BY <1>1 DEF Cancels
  <2>2. loads' = [loads EXCEPT ![p][f] = At("browser")]
    BY <1>4 DEF ConnectTapped
  <2>3. LoadsNext
    BY <1>1, <1>2, <2>2, LoadTyped
  <2> QED
    BY <1>4, <2>1, <2>3 DEF ConnectTapped, WaitingTyped, WaitingNext, LoadsNext
<1>5. ASSUME NEW f \in Flows, CancelSessionTapped(p, f) PROVE WaitingNext
  <2> DEFINE r == IF loads[p][f].pc \in {"browser", "verifying"} THEN At("none")
                  ELSE loads[p][f]
  <2>1. r \in LoadRecord /\ (r.pc = "listing" => r = loads[p][f])
    BY <1>1, <1>2 DEF WaitingTyped
  <2>2. loads' = [loads EXCEPT ![p][f] = r]
    BY <1>5 DEF CancelSessionTapped
  <2> HIDE DEF r
  <2>3. LoadsNext
    BY <1>1, <2>1, <2>2, LoadTyped
  <2> QED
    BY <1>5, <2>3 DEF CancelSessionTapped, WaitingTyped, WaitingNext, LoadsNext
<1>6. ASSUME NEW f \in Flows, OauthFails(p, f) PROVE WaitingNext
  <2>1. loads' = [loads EXCEPT ![p][f] = At("none")]
    BY <1>6 DEF OauthFails
  <2>2. LoadsNext
    BY <1>1, <1>2, <2>1, LoadTyped
  <2> QED
    BY <1>6, <2>2 DEF OauthFails, WaitingTyped, WaitingNext, LoadsNext
<1> QED
  BY <1>3, <1>4, <1>5, <1>6 DEF Session

(* A load that comes to another request than that for the list. *)
LEMMA LoadMoves ==
  ASSUME WaitingTyped, NEW p \in Providers, NEW w \in Loads,
         NEW pc \in LoadPC \ {"listing"}, loads' = [loads EXCEPT ![p][w].pc = pc]
  PROVE  LoadsNext
<1> DEFINE r == [loads[p][w] EXCEPT !.pc = pc]
<1>0. loads[p][w] \in LoadRecord
  BY DEF WaitingTyped
<1>1. r \in LoadRecord /\ r.pc # "listing"
  BY <1>0 DEF LoadRecord
<1>2. loads' = [loads EXCEPT ![p][w] = r]
  OBVIOUS
<1> HIDE DEF r
<1> QED
  BY <1>1, <1>2, LoadTyped

LEMMA AccountTakenTyped ==
  ASSUME WaitingTyped, AccountTaken PROVE WaitingNext
<1>1. ASSUME NEW p \in Providers, NEW f \in Flows, OauthSucceeds(p, f)
      PROVE  WaitingNext
  <2>1. loads' = [loads EXCEPT ![p][f].pc = "naming"]
    BY <1>1 DEF OauthSucceeds
  <2>2. LoadsNext
    BY <2>1, LoadMoves DEF Loads, LoadPC
  <2> QED
    BY <1>1, <2>2 DEF OauthSucceeds, WaitingTyped, WaitingNext, LoadsNext
<1>2. CASE CreateGcpServerTapped
  BY <1>2, WaitingKept DEF CreateGcpServerTapped
<1> QED
  BY <1>1, <1>2 DEF AccountTaken

LEMMA LoadingTyped ==
  ASSUME WaitingTyped, app \in AppRecord,
         NEW p \in Providers, NEW w \in Loads, Loading(p, w)
  PROVE  WaitingNext
<1>1. \/ \E a : \E servers, ok : Loaded(p, w, a, servers, ok)
      \/ \E a : /\ a.account = app.account
               /\ \E pc \in LoadPC : Proceed(p, w, a, pc)
  <2>1. CASE NameAnswered(p, w)
    <3> DEFINE a == [app EXCEPT !.shown = @ \cup {p}]
    <3>1. \/ Proceed(p, w, a, IF p = "do" THEN "status" ELSE "listing")
          \/ Loaded(p, w, a, {}, FALSE)
      BY <2>1 DEF NameAnswered
    <3>2. a.account = app.account
      BY DEF AppRecord
    <3> HIDE DEF a
    <3> QED
      BY <3>1, <3>2 DEF LoadPC
  <2>2. CASE ServersListed(p, w)
    <3> DEFINE servers == Listed(p, w)
    <3>1. \/ Loaded(p, w, AddServers(app, servers), servers, TRUE)
          \/ Loaded(p, w, app, {}, FALSE)
      BY <2>2 DEF ServersListed
    <3> QED
      BY <3>1
  <2>3. CASE LoadFails(p, w)
    BY <2>3 DEF LoadFails
  <2>4. CASE p = "do" /\ StatusActive(w)
    <3>1. \/ Proceed("do", w, app, "listing")
          \/ Loaded("do", w, app, {}, FALSE)
      BY <2>4 DEF StatusActive
    <3> QED
      BY <2>4, <3>1 DEF LoadPC
  <2>5. CASE p = "do" /\ StatusInactive(w)
    BY <2>5 DEF StatusInactive
  <2> QED
    BY <2>1, <2>2, <2>3, <2>4, <2>5 DEF Loading
<1> QED
  BY <1>1, LoadedTyped, ProceedTyped

LEMMA ActivatingTyped ==
  ASSUME TypeOK, WaitingTyped, NEW c \in Callers, Activating(c)
  PROVE  WaitingNext
<1>1. activation[c] \in CallRecord
  BY DEF WaitingTyped
<1>2. CASE CancelActivationTapped(c)
  <2>1. activation' = [activation EXCEPT ![c] =
                         [activation[c] EXCEPT !.cancelled = TRUE]]
    BY <1>2 DEF CancelActivationTapped
  <2>2. [activation[c] EXCEPT !.cancelled = TRUE] \in CallRecord
    BY <1>1 DEF CallRecord
  <2> QED
    BY <1>2, <2>1, <2>2 DEF CancelActivationTapped, WaitingTyped, WaitingNext,
       LoadsFollow
<1>3. \A pc \in {"active", "sleeping", "asking", "locating", "dialog", "none"} :
        /\ [activation[c] EXCEPT !.pc = pc] \in CallRecord
        /\ [activation[c] EXCEPT !.pc = pc, !.activating = TRUE] \in CallRecord
  BY <1>1 DEF CallRecord
<1>4. dialog.pc \in {"none", "asking", "locating"}
  BY DEF TypeOK
<1>5. RegionPicker(c) => \E r \in CallRecord : \E a : Activation(c, r, a)
  BY CallActive DEF RegionPicker
<1>6. \A a : ActivationEnds(c, a) => \E r \in CallRecord : \E b : Activation(c, r, b)
  BY CallActive DEF ActivationEnds
<1>7. ASSUME ~CancelActivationTapped(c)
      PROVE  \E r \in CallRecord : \E a : Activation(c, r, a)
  <2>1. CASE AccountActive(c)
    <3>1. \/ Activation(c, [activation[c] EXCEPT !.pc = "active"], app)
          \/ RegionPicker(c)
      BY <2>1 DEF AccountActive
    <3> QED
      BY <1>3, <1>5, <3>1
  <2>2. CASE ActiveScreenEnds(c)
    BY <1>5, <2>2 DEF ActiveScreenEnds
  <2>3. CASE AccountInactive(c)
    <3>1. PICK a : Activation(c, [activation[c] EXCEPT !.pc = "sleeping",
                                                       !.activating = TRUE], a)
      BY <2>3 DEF AccountInactive
    <3> QED
      BY <1>3, <3>1
  <2>4. CASE AskAgain(c)
    <3>1. \/ Activation(c, [activation[c] EXCEPT !.pc = "asking"], app)
          \/ ActivationEnds(c, app)
      BY <2>4 DEF AskAgain
    <3> QED
      BY <1>3, <1>6, <3>1
  <2>5. CASE LocationsAnswered(c)
    <3>1. PICK a : Activation(c, Inactive, a)
      BY <2>5 DEF LocationsAnswered
    <3> QED
      BY <3>1, CallActive
  <2>6. CASE ActivationRequestFails(c)
    <3>1. Activation(c, [activation[c] EXCEPT !.pc = "dialog"], app)
      BY <2>6 DEF ActivationRequestFails
    <3> QED
      BY <1>3, <3>1
  <2>7. CASE ActivationRetry(c)
    <3>1. \/ Activation(c, [activation[c] EXCEPT !.pc = dialog.pc], app)
          \/ ActivationEnds(c, app)
      BY <2>7 DEF ActivationRetry
    <3> QED
      BY <1>3, <1>4, <1>6, <3>1
  <2>8. CASE ActivationReconnect(c)
    <3>1. \/ Activation(c, Inactive, Disconnect(app, "do"))
          \/ ActivationEnds(c, Disconnect(app, "do"))
      BY <2>8 DEF ActivationReconnect
    <3> QED
      BY <1>6, <3>1, CallActive
  <2> QED
    BY <1>7, <2>1, <2>2, <2>3, <2>4, <2>5, <2>6, <2>7, <2>8 DEF Activating
<1> QED
  BY <1>2, <1>7, ActivationTyped

(* The handlers of a new App. *)
LEMMA NewWaitingTyped ==
  /\ \A a : /\ StartLoads(a) \in [Providers -> [Loads -> LoadRecord]]
           /\ \A p \in Providers, w \in Loads : StartLoads(a)[p][w].pc # "listing"
  /\ NobodyCancels \in Cancels
<1>1. \A pc \in {"none", "naming"} : At(pc) \in LoadRecord /\ At(pc).pc # "listing"
  BY LoadAt DEF LoadPC
<1> QED
  BY <1>1 DEF StartLoads, NobodyCancels, Cancels

LEMMA NextWaitingTyped ==
  TypeOK /\ WaitingTyped /\ app \in AppRecord /\ [Next]_vars => WaitingNext
<1> SUFFICES ASSUME TypeOK, WaitingTyped, app \in AppRecord, [Next]_vars
             PROVE  WaitingNext
  OBVIOUS
<1>1. CASE Elsewhere
  <2>1. CASE \/ CreationFails \/ InstanceFails \/ SetUpGcpServerTapped
             \/ \E d \in Droplets : DropletCreated(d)
             \/ \E i \in Instances : InstanceCreated(i)
             \/ \E s \in Managed : DeleteTapped(s)
             \/ CancelCreationTapped \/ ServerDeleted \/ DeletionFails
    <3>1. UNCHANGED waiting
      BY <2>1 DEF CreationFails, InstanceFails, SetUpGcpServerTapped,
         DropletCreated, InstanceCreated, DeleteTapped, CancelCreationTapped,
         ServerDeleted, DeletionFails
    <3> QED
      BY <3>1, WaitingKept
  <2>2. ASSUME NEW f \in Flows, DigitalOceanOauthPost(f) \/ GcpOauthCallback(f)
        PROVE  WaitingNext
    <3>1. PICK p \in Providers : loads' = [loads EXCEPT ![p][f].pc = "verifying"]
      BY <2>2 DEF DigitalOceanOauthPost, GcpOauthCallback, Providers
    <3>2. LoadsNext
      BY <3>1, LoadMoves DEF Loads, LoadPC
    <3> QED
      BY <2>2, <3>2 DEF DigitalOceanOauthPost, GcpOauthCallback, WaitingTyped,
         WaitingNext, LoadsNext
  <2> QED
    BY <1>1, <2>1, <2>2 DEF Elsewhere
<1>2. CASE Managing
  <2>1. CASE ShowLastDisplayed
    BY <2>1 DEF ShowLastDisplayed, WaitingTyped, WaitingNext, LoadsFollow
  <2>2. CASE CreateDigitalOceanServerTapped
    <3>1. CreateServerPage("card", app) /\ UNCHANGED <<loads, starting>>
      BY <2>2 DEF CreateDigitalOceanServerTapped
    <3>2. "card" \in Callers
      BY DEF Callers
    <3> QED
      BY <3>1, <3>2, CreateServerPageTyped DEF WaitingTyped, WaitingNext,
         LoadsFollow
  <2>3. CASE \/ ShowIntroTapped \/ \E s \in Servers : ShowServerTapped(s)
             \/ RegionTapped \/ CreationAnswered \/ GcpServerCreated
             \/ DeletionAnswered
             \/ \E retry \in BOOLEAN :
                  CreationDialog(retry) \/ DeletionDialog(retry)
             \/ ManualTapped \/ ManualEntryCancelled
    <3>1. UNCHANGED waiting
      BY <2>3 DEF ShowIntroTapped, ShowServerTapped, RegionTapped,
         CreationAnswered, GcpServerCreated, DeletionAnswered,
         CreationDialog, DeletionDialog, ManualTapped, ManualEntryCancelled
    <3> QED
      BY <3>1, WaitingKept
  <2> QED
    BY <1>2, <2>1, <2>2, <2>3 DEF Managing
<1>3. ASSUME NEW p \in Providers, Session(p) PROVE WaitingNext
  BY <1>3, SessionTyped
<1>4. ASSUME NEW p \in Providers, NEW w \in Loads, Loading(p, w)
      PROVE  WaitingNext
  BY <1>4, LoadingTyped
<1>5. ASSUME NEW c \in Callers, Activating(c) PROVE WaitingNext
  BY <1>5, ActivatingTyped
<1>6. CASE ManualHandler
  <2>1. UNCHANGED waiting
    BY <1>6 DEF ManualHandler, ManualServerError, ManualServerHealthy,
       ManualServerUnhealthy, ManualServerEntered, ForgetTapped
  <2> QED
    BY <2>1, WaitingKept
<1>7. CASE AccountTaken
  BY <1>7, AccountTakenTyped
<1>8. CASE Restart
  BY <1>8, NewWaitingTyped, CallActive
  DEF Restart, WaitingTyped, WaitingNext, LoadsFollow, Cancels
<1>9. CASE UNCHANGED vars
  BY <1>9, WaitingKept DEF vars
<1> QED
  BY <1>1, <1>2, <1>3, <1>4, <1>5, <1>6, <1>7, <1>8, <1>9, NextIsOneOf DEF Apart
----------------------------------------------------------------------------
(* The requests, the servers there are and the dialog.                     *)
Dialogs ==
  [owner : {"none", "activation", "creation", "deletion", "manual"},
   of : Callers \cup {None}, pc : {"none", "asking", "locating"}]

RequestsTyped ==
  /\ cloud \in SUBSET Managed
  /\ creation \in Request({"none", "asking", "created", "dialog"}, Droplets)
  /\ instance \in Request({"none", "asking", "created"}, Instances)
  /\ deletion \in Request({"none", "deleting", "cancelling", "deleted",
                           "dialog"}, Managed)
  /\ manual \in Request({"none", "checking", "dialog"}, Urls)
  /\ dialog \in Dialogs

RequestsOK == RequestsTyped /\ RequestsNamed /\ DialogAwaited /\ CreatedOwn

(* A server is asked of the account that is connected, or that the wizard  *)
(* began with.                                                             *)
RequestsFollow ==
  /\ Asked(creation') => \/ creation'.of = app.account["do"]
                         \/ Asked(creation) /\ creation'.of = creation.of
  /\ Asked(instance') => \/ app.page = "gcpCreateServer"
                            /\ instance'.of = app.wizard
                         \/ Asked(instance) /\ instance'.of = instance.of

RequestsNext == RequestsOK' /\ RequestsFollow

LEMMA NoRequest ==
  /\ Idle.pc = "none"
  /\ \A pcs, ids : "none" \in pcs => Idle \in Request(pcs, ids)
BY DEF Idle, Request

(* A dialog of this owner, and none. *)
LEMMA DialogOpened ==
  /\ NoDialog \in Dialogs /\ NoDialog.owner = "none"
  /\ \A o \in {"creation", "deletion", "manual"} :
       /\ [NoDialog EXCEPT !.owner = o] \in Dialogs
       /\ [NoDialog EXCEPT !.owner = o].owner = o
BY DEF NoDialog, Dialogs

LEMMA RequestsKept ==
  ASSUME RequestsOK, UNCHANGED <<cloud, requests, dialog>> PROVE RequestsNext
BY DEF RequestsOK, RequestsTyped, RequestsNamed, DialogAwaited, CreatedOwn,
   RequestsFollow, RequestsNext, requests

(* A dialog for digitalOceanRetry of an activation takes the place of any. *)
LEMMA ActivatingRequests ==
  ASSUME RequestsOK, NEW c \in Callers, Activating(c) PROVE RequestsNext
<1>1. UNCHANGED <<cloud, requests>>
  BY DEF Activating, CancelActivationTapped, AccountActive,
     ActiveScreenEnds, AccountInactive, AskAgain, LocationsAnswered,
     ActivationRequestFails, ActivationRetry, ActivationReconnect,
     Activation, ActivationEnds, RegionPicker
<1>2. CASE UNCHANGED dialog
  BY <1>1, <1>2, RequestsKept
<1>3. CASE dialog' \in Dialogs /\ dialog'.owner \in {"none", "activation"}
  BY <1>1, <1>3
  DEF RequestsOK, RequestsTyped, RequestsNamed, DialogAwaited, CreatedOwn,
      RequestsFollow, RequestsNext, requests
<1>4. CASE ActivationRequestFails(c)
  BY <1>3, <1>4 DEF ActivationRequestFails, Dialogs
<1>5. CASE ActivationRetry(c) \/ ActivationReconnect(c)
  BY <1>3, <1>5, DialogOpened DEF ActivationRetry, ActivationReconnect
<1>6. CASE \/ CancelActivationTapped(c) \/ AccountActive(c)
           \/ ActiveScreenEnds(c) \/ AccountInactive(c) \/ AskAgain(c)
           \/ LocationsAnswered(c)
  BY <1>2, <1>6 DEF CancelActivationTapped, AccountActive,
     ActiveScreenEnds, AccountInactive, AskAgain, LocationsAnswered
<1> QED
  BY <1>4, <1>5, <1>6 DEF Activating

(* Creating and deleting servers. *)
LEMMA DropletAsked ==
  ASSUME app \in AppRecord
  PROVE  /\ AskDroplet \in Request({"none", "asking", "created", "dialog"}, Droplets)
         /\ AskDroplet.pc # "created"
         /\ Asked(AskDroplet) => AskDroplet.of = app.account["do"]
<1>1. app.account["do"] \in Users \cup {None}
  BY DEF AppRecord, AccountsOf, Providers
<1> QED
  BY <1>1 DEF AskDroplet, Idle, Request, Asked

LEMMA CreationRequests ==
  ASSUME RequestsOK, app \in AppRecord,
         \/ RegionTapped \/ CreationAnswered \/ CreationFails
         \/ \E d \in Droplets : DropletCreated(d)
         \/ \E retry \in BOOLEAN : CreationDialog(retry)
  PROVE  RequestsNext
<1> USE DEF RequestsOK, RequestsTyped, RequestsNamed, DialogAwaited, CreatedOwn,
         RequestsFollow, RequestsNext, Asked
<1>1. CASE RegionTapped
  BY <1>1, DropletAsked DEF RegionTapped
<1>2. CASE CreationAnswered
  BY <1>2, NoRequest DEF CreationAnswered
<1>3. CASE CreationFails
  <2>1. creation' \in Request({"none", "asking", "created", "dialog"}, Droplets)
        /\ creation'.pc = "dialog"
    BY <1>3 DEF CreationFails, Idle, Request
  <2> QED
    BY <1>3, <2>1, DialogOpened DEF CreationFails
<1>4. ASSUME NEW d \in Droplets, DropletCreated(d) PROVE RequestsNext
  <2>1. d # None /\ cloud \cup {d} \subseteq Managed
    BY Disjoint DEF Managed
  <2>2. creation' = [creation EXCEPT !.pc = "created", !.id = d]
        /\ creation.pc = "asking" /\ Owner[d] = creation.of
    BY <1>4 DEF DropletCreated
  <2>3. /\ creation' \in Request({"none", "asking", "created", "dialog"}, Droplets)
        /\ creation'.pc = "created" /\ creation'.id = d /\ creation'.of = creation.of
    BY <2>2 DEF Request
  <2> QED
    BY <1>4, <2>1, <2>2, <2>3 DEF DropletCreated
<1>5. ASSUME NEW retry \in BOOLEAN, CreationDialog(retry) PROVE RequestsNext
  BY <1>5, DropletAsked, NoRequest, DialogOpened DEF CreationDialog
<1> QED
  BY <1>1, <1>2, <1>3, <1>4, <1>5

LEMMA InstanceRequests ==
  ASSUME RequestsOK, app \in AppRecord,
         \/ SetUpGcpServerTapped \/ GcpServerCreated \/ InstanceFails
         \/ \E i \in Instances : InstanceCreated(i)
  PROVE  RequestsNext
<1> USE DEF RequestsOK, RequestsTyped, RequestsNamed, DialogAwaited, CreatedOwn,
         RequestsFollow, RequestsNext, Asked
<1>1. CASE SetUpGcpServerTapped
  <2>1. app.wizard \in Users \cup {None}
    BY DEF AppRecord
  <2> QED
    BY <1>1, <2>1 DEF SetUpGcpServerTapped, TapOn, Request
<1>2. CASE GcpServerCreated
  BY <1>2, NoRequest DEF GcpServerCreated
<1>3. CASE InstanceFails
  BY <1>3, NoRequest DEF InstanceFails
<1>4. ASSUME NEW i \in Instances, InstanceCreated(i) PROVE RequestsNext
  <2>1. i # None /\ cloud \cup {i} \subseteq Managed
    BY Disjoint DEF Managed
  <2>2. instance' = [instance EXCEPT !.pc = "created", !.id = i]
        /\ instance.pc = "asking" /\ Owner[i] = instance.of
    BY <1>4 DEF InstanceCreated
  <2>3. /\ instance' \in Request({"none", "asking", "created"}, Instances)
        /\ instance'.pc = "created" /\ instance'.id = i /\ instance'.of = instance.of
    BY <2>2 DEF Request
  <2> QED
    BY <1>4, <2>1, <2>2, <2>3 DEF InstanceCreated
<1> QED
  BY <1>1, <1>2, <1>3, <1>4

LEMMA DeletionRequests ==
  ASSUME RequestsOK,
         \/ \E s \in Managed : DeleteTapped(s)
         \/ CancelCreationTapped
         \/ ServerDeleted \/ DeletionAnswered \/ DeletionFails
         \/ \E retry \in BOOLEAN : DeletionDialog(retry)
  PROVE  RequestsNext
<1> USE DEF RequestsOK, RequestsTyped, RequestsNamed, DialogAwaited, CreatedOwn,
         RequestsFollow, RequestsNext, Asked
<1>1. ASSUME NEW s \in Managed, DeleteTapped(s) PROVE RequestsNext
  <2>1. s \in Managed /\ deletion' = [Idle EXCEPT !.pc = "deleting", !.id = s]
    BY <1>1 DEF DeleteTapped
  <2>2. s # None
    BY <2>1, Disjoint
  <2>3. /\ deletion' \in Request({"none", "deleting", "cancelling", "deleted",
                                 "dialog"}, Managed)
        /\ deletion'.id = s
    BY <2>1 DEF Request, Idle
  <2>4. dialog.owner # "deletion"
    BY <1>1 DEF DeleteTapped, TapOn, NoDialog
  <2> QED
    BY <1>1, <2>2, <2>3, <2>4 DEF DeleteTapped
<1>2. CASE CancelCreationTapped
  <2>1. app.selectedServer \in Managed /\ deletion' = [Idle EXCEPT !.pc = "cancelling", !.id = app.selectedServer]
    BY <1>2 DEF CancelCreationTapped
  <2>2. app.selectedServer # None
    BY <2>1, Disjoint
  <2>3. /\ deletion' \in Request({"none", "deleting", "cancelling", "deleted",
                                 "dialog"}, Managed)
        /\ deletion'.id = app.selectedServer
    BY <2>1 DEF Request, Idle
  <2>4. dialog.owner # "deletion"
    BY <1>2 DEF CancelCreationTapped, TapOn, NoDialog
  <2> QED
    BY <1>2, <2>2, <2>3, <2>4 DEF CancelCreationTapped
<1>3. CASE ServerDeleted
  BY <1>3 DEF ServerDeleted, Request
<1>4. CASE DeletionAnswered
  BY <1>4, NoRequest DEF DeletionAnswered
<1>5. CASE DeletionFails
  <2>1. UNCHANGED <<cloud, creation, instance, manual>>
    BY <1>5 DEF DeletionFails
  <2>2. CASE /\ deletion' = [deletion EXCEPT !.pc = "dialog"]
             /\ dialog' = [NoDialog EXCEPT !.owner = "deletion"]
    <3>1. deletion.id # None
      BY <1>5 DEF DeletionFails
    <3> QED
      BY <2>1, <2>2, <3>1, DialogOpened DEF Request
  <2>3. CASE deletion' = Idle /\ UNCHANGED dialog
    BY <1>5, <2>1, <2>3, NoRequest DEF DeletionFails
  <2> QED
    BY <1>5, <2>2, <2>3 DEF DeletionFails
<1>6. ASSUME NEW retry \in BOOLEAN, DeletionDialog(retry) PROVE RequestsNext
  <2>1. UNCHANGED <<cloud, creation, instance, manual>> /\ dialog' = NoDialog
    BY <1>6 DEF DeletionDialog
  <2>2. CASE deletion' = Idle
    BY <2>1, <2>2, DialogOpened, NoRequest
  <2>3. CASE deletion' = [deletion EXCEPT !.pc = "deleting"]
    <3>1. deletion.id # None
      BY <1>6 DEF DeletionDialog
    <3> QED
      BY <2>1, <2>3, <3>1, DialogOpened DEF Request
  <2> QED
    BY <1>6, <2>2, <2>3 DEF DeletionDialog
<1> QED
  BY <1>1, <1>2, <1>3, <1>4, <1>5, <1>6

LEMMA ManualRequests ==
  ASSUME RequestsOK, ManualHandler PROVE RequestsNext
<1> USE DEF RequestsOK, RequestsTyped, RequestsNamed, DialogAwaited, CreatedOwn,
         RequestsFollow, RequestsNext, Asked
<1>1. ASSUME NEW u \in Urls, CreateManualServer(u)
      PROVE  /\ manual' \in Request({"none", "checking", "dialog"}, Urls)
             /\ manual'.pc # "none" => manual'.id # None
  <2> DEFINE m == [Idle EXCEPT !.pc = "checking", !.id = u]
  <2>1. u # None /\ m.id = u
    BY Disjoint DEF Idle
  <2>2. m \in Request({"none", "checking", "dialog"}, Urls)
    BY DEF Request, Idle
  <2>3. manual' = Idle \/ manual' = m
    BY <1>1, Zenon DEF CreateManualServer
  <2> HIDE DEF m
  <2> QED
    BY <2>1, <2>2, <2>3, NoRequest
<1>2. ASSUME NEW retry \in BOOLEAN, ManualServerError(retry) PROVE RequestsNext
  <2>1. manual.id \in Urls
    BY <1>2 DEF ManualServerError, Request
  <2>2. \/ CreateManualServer(manual.id) \/ manual' = Idle
    BY <1>2 DEF ManualServerError
  <2>3. /\ manual' \in Request({"none", "checking", "dialog"}, Urls)
        /\ manual'.pc # "none" => manual'.id # None
    BY <1>1, <2>1, <2>2, NoRequest
  <2> QED
    BY <1>2, <2>3, DialogOpened DEF ManualServerError
<1>3. CASE ManualServerHealthy
  BY <1>3, NoRequest DEF ManualServerHealthy
<1>4. CASE ManualServerUnhealthy
  BY <1>4, DialogOpened DEF ManualServerUnhealthy, Request
<1>5. ASSUME NEW u \in Urls, ManualServerEntered(u) PROVE RequestsNext
  <2>1. CASE manual.pc = "none" /\ CreateManualServer(u)
    BY <1>1, <1>5, <2>1 DEF ManualServerEntered
  <2>2. CASE UNCHANGED manual
    BY <1>5, <2>2 DEF ManualServerEntered
  <2> QED
    BY <1>5, <2>1, <2>2 DEF ManualServerEntered
<1>6. ASSUME NEW u \in Urls, ForgetTapped(u) PROVE RequestsNext
  BY <1>6, RequestsKept DEF ForgetTapped
<1> QED
  BY <1>2, <1>3, <1>4, <1>5, <1>6 DEF ManualHandler

LEMMA NextRequestsOK ==
  RequestsOK /\ app \in AppRecord /\ [Next]_vars => RequestsNext
<1> SUFFICES ASSUME RequestsOK, app \in AppRecord, [Next]_vars
             PROVE  RequestsNext
  OBVIOUS
<1>1. CASE Elsewhere
  <2>1. ASSUME NEW f \in Flows, DigitalOceanOauthPost(f) \/ GcpOauthCallback(f)
        PROVE  RequestsNext
    BY <2>1, RequestsKept DEF DigitalOceanOauthPost, GcpOauthCallback
  <2> QED
    BY <1>1, <2>1, CreationRequests, InstanceRequests, DeletionRequests
    DEF Elsewhere
<1>2. CASE Managing
  <2>1. CASE \/ ShowIntroTapped \/ \E s \in Servers : ShowServerTapped(s)
             \/ ShowLastDisplayed \/ CreateDigitalOceanServerTapped
             \/ ManualTapped \/ ManualEntryCancelled
    BY <2>1, RequestsKept
    DEF ShowIntroTapped, ShowServerTapped, ShowLastDisplayed,
        CreateDigitalOceanServerTapped, ManualTapped, ManualEntryCancelled
  <2> QED
    BY <1>2, <2>1, CreationRequests, InstanceRequests, DeletionRequests
    DEF Managing
<1>3. ASSUME NEW p \in Providers, Session(p) PROVE RequestsNext
  BY <1>3, RequestsKept
  DEF Session, SignOutTapped, ConnectTapped, CancelSessionTapped, OauthFails
<1>4. ASSUME NEW p \in Providers, NEW w \in Loads, Loading(p, w)
      PROVE  RequestsNext
  BY <1>4, RequestsKept
  DEF Loading, NameAnswered, ServersListed, LoadFails, StatusActive,
      StatusInactive
<1>5. ASSUME NEW c \in Callers, Activating(c) PROVE RequestsNext
  BY <1>5, ActivatingRequests
<1>6. CASE ManualHandler
  BY <1>6, ManualRequests
<1>7. CASE AccountTaken
  BY <1>7, RequestsKept DEF AccountTaken, OauthSucceeds, CreateGcpServerTapped
<1>8. CASE Restart
  BY <1>8, NoRequest, DialogOpened
  DEF Restart, RequestsOK, RequestsTyped, RequestsNamed, DialogAwaited,
      CreatedOwn, RequestsFollow, RequestsNext, Asked
<1>9. CASE UNCHANGED vars
  BY <1>9, RequestsKept DEF vars
<1> QED
  BY <1>1, <1>2, <1>3, <1>4, <1>5, <1>6, <1>7, <1>8, <1>9, NextIsOneOf DEF Apart
----------------------------------------------------------------------------
(* What the user does and what fails is counted up to its bound.           *)
BoundsOK == taps \in 0 .. MaxTaps /\ faults \in 0 .. MaxFaults

LEMMA Counted ==
  ASSUME BoundsOK, Tap \/ Fault \/ UNCHANGED bounds PROVE BoundsOK'
BY BoundsAssumption DEF BoundsOK, Tap, Fault, bounds

LEMMA NextBoundsOK == BoundsOK /\ [Next]_vars => BoundsOK'
<1> SUFFICES ASSUME BoundsOK, [Next]_vars
             PROVE  Tap \/ Fault \/ UNCHANGED bounds
  BY Counted
<1>1. CASE Elsewhere
  BY <1>1
  DEF Elsewhere, DigitalOceanOauthPost, GcpOauthCallback, CreationFails,
      InstanceFails, SetUpGcpServerTapped, DropletCreated, InstanceCreated,
      DeleteTapped, CancelCreationTapped, ServerDeleted, DeletionFails, TapOn
<1>2. CASE Managing
  BY <1>2
  DEF Managing, ShowIntroTapped, ShowServerTapped, ShowLastDisplayed,
      CreateDigitalOceanServerTapped, RegionTapped, CreationAnswered,
      GcpServerCreated, DeletionAnswered, CreationDialog, DeletionDialog,
      ManualTapped, ManualEntryCancelled, EntryTapped, TapOn
<1>3. ASSUME NEW p \in Providers, Session(p)
      PROVE  Tap \/ Fault \/ UNCHANGED bounds
  BY <1>3
  DEF Session, SignOutTapped, ConnectTapped, CancelSessionTapped, OauthFails,
      TapOn
<1>4. ASSUME NEW p \in Providers, NEW w \in Loads, Loading(p, w)
      PROVE  Tap \/ Fault \/ UNCHANGED bounds
  BY <1>4
  DEF Loading, NameAnswered, ServersListed, LoadFails, StatusActive,
      StatusInactive
<1>5. ASSUME NEW c \in Callers, Activating(c)
      PROVE  Tap \/ Fault \/ UNCHANGED bounds
  BY <1>5
  DEF Activating, CancelActivationTapped, AccountActive, ActiveScreenEnds,
      AccountInactive, AskAgain, LocationsAnswered, ActivationRequestFails,
      ActivationRetry, ActivationReconnect, TapOn
<1>6. CASE ManualHandler
  BY <1>6
  DEF ManualHandler, ManualServerError, ManualServerHealthy,
      ManualServerUnhealthy, ManualServerEntered, ForgetTapped, EntryTapped,
      TapOn
<1>7. CASE AccountTaken
  BY <1>7 DEF AccountTaken, OauthSucceeds, CreateGcpServerTapped, TapOn
<1>8. CASE Restart
  BY <1>8 DEF Restart
<1>9. CASE UNCHANGED vars
  BY <1>9 DEF vars
<1> QED
  BY <1>1, <1>2, <1>3, <1>4, <1>5, <1>6, <1>7, <1>8, <1>9, NextIsOneOf DEF Apart

----------------------------------------------------------------------------
(* Whose the requests are that are under way.                              *)
LEMMA FollowedIsOwn ==
  ASSUME RequestsOwn, Follows(app'), LoadsFollow, RequestsFollow
  PROVE  RequestsOwn'
<1> SUFFICES ASSUME NEW p \in Providers, Connected(app', p), p \notin app'.mixed
             PROVE  AskedOf(p, app.account[p])'
  BY DEF RequestsOwn, Connected
<1>1. app.account[p] = app'.account[p]
  BY DEF Follows, Connected
<1>2. AskedOf(p, app.account[p])
  BY <1>1 DEF RequestsOwn, Follows, Connected
<1>3. app'.wizard = app.wizard
      /\ (app'.page = "gcpCreateServer" => app.page = "gcpCreateServer")
  BY DEF Follows
<1> QED
  BY <1>1, <1>2, <1>3 DEF AskedOf, LoadsFollow, RequestsFollow

(* A new account finds nothing of another one, or it is not forgotten. *)
LEMMA ConnectedIsOwn ==
  ASSUME WaitingTyped, SessionOK(app), RequestsOwn, LoadsFollow,
         NEW p \in Providers, NEW f \in Flows, OauthSucceeds(p, f)
  PROVE  RequestsOwn'
<1>1. PICK u \in Users :
        /\ app'.account = [app.account EXCEPT ![p] = u]
        /\ app'.mixed = IF OthersThan(p, u) THEN app.mixed \cup {p}
                        ELSE app.mixed \ {p}
        /\ app'.wizard = app.wizard /\ app'.page = app.page
  BY AccountConnects
<1>2. app.account \in AccountsOf
  BY DEF SessionOK, AppRecord
<1>3. UNCHANGED <<creation, instance>>
      /\ loads' = [loads EXCEPT ![p][f].pc = "naming"]
  BY DEF OauthSucceeds, requests
<1>4. \A q \in Providers, w \in Loads :
        loads'[q][w].pc = "listing" => loads'[q][w] = loads[q][w]
  <2>1. \A q \in Providers, w \in Loads :
          loads'[q][w] = IF q = p /\ w = f THEN [loads[p][f] EXCEPT !.pc = "naming"]
                         ELSE loads[q][w]
    BY <1>3 DEF WaitingTyped, Loads
  <2>2. [loads[p][f] EXCEPT !.pc = "naming"].pc = "naming"
    BY DEF WaitingTyped, LoadRecord, Loads
  <2> QED
    BY <2>1, <2>2
<1> SUFFICES ASSUME NEW q \in Providers, Connected(app', q), q \notin app'.mixed
             PROVE  AskedOf(q, app.account[q])'
  BY DEF RequestsOwn, Connected
<1>5. CASE q = p
  <2>1. app'.account[q] = u /\ ~OthersThan(p, u)
    BY <1>1, <1>2, <1>5 DEF AccountsOf
  <2> QED
    BY <1>1, <1>3, <1>4, <1>5, <2>1 DEF OthersThan, AskedOf, Asked
<1>6. CASE q # p
  <2>1. app'.account[q] = app.account[q] /\ q \notin app.mixed
    BY <1>1, <1>2, <1>6 DEF AccountsOf
  <2>2. AskedOf(q, app.account[q])
    BY <2>1 DEF RequestsOwn, Connected
  <2> QED
    BY <1>1, <1>3, <1>4, <2>1, <2>2 DEF AskedOf, Asked
<1> QED
  BY <1>5, <1>6

LEMMA WizardIsOwn ==
  ASSUME SessionOK(app), RequestsOwn, CreateGcpServerTapped PROVE RequestsOwn'
<1>1. /\ app'.account = app.account /\ app'.mixed = app.mixed
      /\ app'.wizard = app.account["gcp"]
  BY WizardOpened
<1>2. UNCHANGED <<creation, instance, loads>>
  BY DEF CreateGcpServerTapped, requests, waiting
<1> SUFFICES ASSUME NEW q \in Providers, Connected(app', q), q \notin app'.mixed
             PROVE  AskedOf(q, app.account[q])'
  BY DEF RequestsOwn, Connected
<1>3. AskedOf(q, app.account[q])
  BY <1>1 DEF RequestsOwn, Connected
<1> QED
  BY <1>1, <1>2, <1>3 DEF AskedOf, Asked

LEMMA NextRequestsOwn ==
  ASSUME AppInv, WaitingTyped, WaitingNext, RequestsNext, [Next]_vars
  PROVE  RequestsOwn'
<1> USE DEF AppInv, OwnersOK
<1>1. ASSUME Follows(app') PROVE RequestsOwn'
  BY <1>1, FollowedIsOwn DEF WaitingNext, RequestsNext
<1>2. CASE Apart
  BY <1>1, <1>2, ApartKeeps DEF Keeps
<1>3. CASE AccountTaken
  BY <1>3, ConnectedIsOwn, WizardIsOwn DEF AccountTaken, WaitingNext
<1>4. CASE ManualHandler
  BY <1>1, <1>4, ManualHandlerSettles
<1>5. CASE Restart
  <2>1. app'.page = "intro"
    BY <1>5, AppStarted DEF Restart, SessionOK
  <2>2. \A p \in Providers, w \in Loads : loads'[p][w].pc # "listing"
    BY <1>5, NewWaitingTyped DEF Restart
  <2>3. creation'.pc = "none" /\ instance'.pc = "none"
    BY <1>5, NoRequest DEF Restart
  <2> QED
    BY <2>1, <2>2, <2>3 DEF RequestsOwn, AskedOf, Asked
<1>6. CASE UNCHANGED vars
  BY <1>1, <1>6 DEF vars, Follows
<1> QED
  BY <1>2, <1>3, <1>4, <1>5, <1>6, NextIsOneOf

----------------------------------------------------------------------------
(* The invariant, of its parts. *)
LEMMA TypeOKOfParts ==
  TypeOK <=> app \in AppRecord /\ WaitingTyped /\ RequestsTyped /\ BoundsOK
BY DEF TypeOK, AppRecord, WaitingTyped, LoadPC, LoadRecord, Cancels,
   CallRecord, RequestsTyped, Dialogs, BoundsOK

LEMMA InitAppInv == Init => AppInv
<1> SUFFICES ASSUME Init PROVE AppInv
  OBVIOUS
<1>1. PICK a \in AppRecord : app = Started(a)
  <2>1. PICK s \in AccountsOf, l \in Users \cup {None} :
          app = Started(FirstRecord(s, l))
    BY DEF Init, AccountsOf
  <2>2. FirstRecord(s, l) \in AppRecord
    BY DEF FirstRecord, NoAccounts, AccountsOf, AppRecord, Pages
  <2> QED
    BY <2>1, <2>2
<1>2. SessionOK(app) /\ app.page = "intro" /\ StoredManualServersListed
  BY <1>1, AppStarted DEF StoredManualServersListed
<1>3. WaitingTyped
  BY NewWaitingTyped, CallActive DEF Init, WaitingTyped
<1>4. RequestsOK
  BY NoRequest, DialogOpened
  DEF Init, RequestsOK, RequestsTyped, RequestsNamed, DialogAwaited, CreatedOwn
<1>5. BoundsOK
  BY BoundsAssumption DEF Init, BoundsOK
<1>6. RequestsOwn
  <2>1. \A p \in Providers, w \in Loads : loads[p][w].pc # "listing"
    BY NewWaitingTyped DEF Init
  <2>2. creation.pc = "none" /\ instance.pc = "none"
    BY NoRequest DEF Init
  <2> QED
    BY <1>2, <2>1, <2>2 DEF RequestsOwn, AskedOf, Asked
<1> QED
  BY <1>2, <1>3, <1>4, <1>5, <1>6, TypeOKOfParts
  DEF AppInv, RequestsOK, OwnersOK, SessionOK

LEMMA NextAppInv == AppInv /\ [Next]_vars => AppInv'
<1> SUFFICES ASSUME AppInv, [Next]_vars PROVE AppInv'
  OBVIOUS
<1>1. app \in AppRecord /\ WaitingTyped /\ RequestsOK /\ BoundsOK
  BY TypeOKOfParts DEF AppInv, RequestsOK, OwnersOK
<1>2. SessionOK(app') /\ StoredManualServersListed'
  BY NextSettles DEF Settled
<1>3. WaitingNext /\ RequestsNext /\ BoundsOK'
  BY <1>1, NextWaitingTyped, NextRequestsOK, NextBoundsOK DEF AppInv
<1>4. RequestsOwn'
  BY <1>1, <1>3, NextRequestsOwn
<1>5. WaitingTyped' /\ RequestsOK'
  BY <1>3 DEF WaitingNext, RequestsNext
<1>6. app' \in AppRecord
  BY <1>2 DEF SessionOK
<1>7. TypeOK'
  BY <1>3, <1>5, <1>6 DEF TypeOK, AppRecord, WaitingTyped, LoadPC, LoadRecord,
     Cancels, CallRecord, RequestsOK, RequestsTyped, Dialogs, BoundsOK
<1> QED
  BY <1>2, <1>4, <1>5, <1>7 DEF AppInv, RequestsOK, OwnersOK

LEMMA AppInvariant == Spec => []AppInv
BY InitAppInv, NextAppInv, PTL DEF Spec

(* The variables keep their types. *)
THEOREM TypeCorrect == Spec => []TypeOK
<1>1. AppInv => TypeOK
  BY DEF AppInv
<1> QED
  BY <1>1, AppInvariant, PTL

(* What the drawer lists is what getServerById finds. *)
THEOREM ListAndMapAgree == Spec => []ListedServersKnown
<1>1. AppInv => ListedServersKnown
  BY DEF AppInv, SessionOK, ListedServersKnown
<1> QED
  BY <1>1, AppInvariant, PTL

(* A request that is answered after the sign-out adds no server; one that  *)
(* is answered after another account was connected adds servers of the     *)
(* first one only if it was under way by then, which mixed tells.          *)
THEOREM SignedOutServersAreGone == Spec => []NoServerOfSignedOutAccount
<1>1. AppInv => NoServerOfSignedOutAccount
  BY DEF AppInv, SessionOK, AccountsOK, MayList, NoServerOfSignedOutAccount
<1> QED
  BY <1>1, AppInvariant, PTL

(* A restart connects the accounts that are connected now: no token is     *)
(* left on disk of one that is not, and the token of older versions is not *)
(* taken, which would lose the account of GCP, while another is stored.    *)
THEOREM SignOutOutlivesRestart == Spec => []SignOutIsStored
<1>1. AppInv => SignOutIsStored
  <2> SUFFICES ASSUME AppInv PROVE SignOutIsStored
    OBVIOUS
  <2>1. /\ app \in AppRecord /\ app.stored = app.account
        /\ ~(app.stored["do"] = None /\ app.legacy # None)
    BY DEF AppInv, SessionOK, AccountsOK, Connected
  <2>2. LoadAccounts(app) = [app EXCEPT !.account = app.stored]
    BY <2>1, Zenon DEF LoadAccounts
  <2> QED
    BY <2>1, <2>2 DEF AppRecord, SignOutIsStored
<1> QED
  BY <1>1, AppInvariant, PTL

(* The server that is selected is listed, or a manual server that is not   *)
(* healthy, and is recorded for the next start.                            *)
THEOREM SelectionIsListed == Spec => []SelectionListed
<1>1. AppInv => SelectionListed
  BY DEF AppInv, SessionOK, SelectionOK, SelectionListed
<1> QED
  BY <1>1, AppInvariant, PTL

(* A manual server that could not be reached leaves nothing behind. *)
THEOREM StoredServersAreListed == Spec => []StoredManualServersListed
<1>1. AppInv => StoredManualServersListed
  BY DEF AppInv
<1> QED
  BY <1>1, AppInvariant, PTL
=============================================================================
