----------------------- MODULE ServerManagementProofs -----------------------
(***************************************************************************)
(* The pages of the manager are right: theorems about ServerManagement.    *)
(*                                                                         *)
(* The invariant, ViewInv, says for a server without a failure and without *)
(* requests about the same thing that overlapped how far its page, the     *)
(* copy of its configuration and the server itself may be apart while      *)
(* requests are under way: in a setting only while it is being set, in a   *)
(* key only between the server's making or removing it and the handling of *)
(* the answer.  For every server, also for one with failures, a key that   *)
(* is shown or was asked for was made once, and at most one request has    *)
(* removed it: a key that is added is none that a removal is under way     *)
(* for, and the row of a removed one goes with the one answer.             *)
(*                                                                         *)
(* First the operators on rows, then requests, the invariant, what a step  *)
(* leaves as it is, and then the steps: the user's, the server's, and the  *)
(* manager's when an answer comes.                                         *)
(***************************************************************************)
EXTENDS ServerManagement, FiniteSetTheorems, SequenceTheorems, TLAPS

(* A list of rows shows a key; each once. *)
Shows(rows, k) == \E n \in DOMAIN rows : rows[n].key = k
EachOnce(rows) == \A m, n \in DOMAIN rows : rows[m].key = rows[n].key => m = n

LEMMA RowSequence ==
  ASSUME NEW n \in Nat, NEW rows \in [1 .. n -> Row]
  PROVE  rows \in Seq(Row)
OBVIOUS

LEMMA RowsTyped ==
  ASSUME NEW rows \in Seq(Row)
  PROVE  /\ Len(rows) \in Nat /\ DOMAIN rows = 1 .. Len(rows)
         /\ \A n \in 1 .. Len(rows) : rows[n] \in Row /\ rows[n].key \in Keys
<1>1. Len(rows) \in Nat /\ DOMAIN rows = 1 .. Len(rows)
  BY LenProperties
<1>2. \A n \in 1 .. Len(rows) : rows[n] \in Row
  BY ElementOfSeq
<1> QED
  BY <1>1, <1>2 DEF Row

LEMMA KeysFinite ==
  ASSUME NEW keys
  PROVE  IsFiniteSet(Listed(keys)) /\ Cardinality(Listed(keys)) \in Nat
<1>1. IsFiniteSet(Keys)
  BY FS_Interval, ManagementAssumption DEF Keys
<1> QED
  BY <1>1, FS_Subset, FS_CardinalityType DEF Listed

(* The place of a key in the list is its number there. *)
LEMMA PlaceOfKey ==
  ASSUME NEW keys
  PROVE  /\ \A k \in Listed(keys) : Place(keys, k) \in 1 .. Cardinality(Listed(keys))
         /\ \A n \in 1 .. Cardinality(Listed(keys)) :
              \E k \in Listed(keys) : Place(keys, k) = n
         /\ \A j, k \in Listed(keys) : Place(keys, j) = Place(keys, k) => j = k
<1> DEFINE L == Listed(keys)
           N == Cardinality(L)
           UpTo(k) == {j \in L : j <= k}
           f == [k \in L |-> Cardinality(UpTo(k))]
<1>1. IsFiniteSet(L) /\ N \in Nat /\ L \subseteq Int
  BY KeysFinite, ManagementAssumption DEF Listed, Keys
<1>2. \A k \in L : IsFiniteSet(UpTo(k)) /\ Cardinality(UpTo(k)) <= N
                   /\ Cardinality(UpTo(k)) \in Nat
  BY <1>1, FS_Subset, FS_CardinalityType
<1>3. \A k \in L : Cardinality(UpTo(k)) # 0
  <2> TAKE k \in L
  <2>1. k \in UpTo(k)
    BY <1>1
  <2> QED
    BY <2>1, <1>2, FS_EmptySet
<1>4. \A j, k \in L : Cardinality(UpTo(j)) = Cardinality(UpTo(k)) => j <= k
  <2> SUFFICES ASSUME NEW j \in L, NEW k \in L, k < j,
                      Cardinality(UpTo(j)) = Cardinality(UpTo(k))
               PROVE  FALSE
    BY <1>1
  <2>1. UpTo(k) \in SUBSET UpTo(j) /\ j \in UpTo(j) /\ j \notin UpTo(k)
    BY <1>1
  <2> HIDE DEF UpTo
  <2> QED
    BY <2>1, <1>2, FS_Subset
<1>5. f \in [L -> 1 .. N]
  BY <1>1, <1>2, <1>3
<1>6. \A j, k \in L : f[j] = f[k] => j = k
  BY <1>1, <1>4
<1> HIDE DEF f
<1>7. f \in Injection(L, 1 .. N)
  BY <1>5, <1>6 DEF Injection, IsInjective
<1>8. IsFiniteSet(1 .. N) /\ Cardinality(1 .. N) = N
  BY <1>1, FS_Interval
<1>9. f \in Surjection(L, 1 .. N)
  BY <1>7, <1>8, FS_Injection
<1>10. \A n \in 1 .. N : \E k \in L : f[k] = n
  BY <1>9 DEF Surjection
<1>11. \A k \in L : Place(keys, k) = f[k]
  BY DEF Place, f
<1> HIDE DEF N, L
<1>12. /\ \A k \in L : Place(keys, k) \in 1 .. N
       /\ \A n \in 1 .. N : \E k \in L : Place(keys, k) = n
       /\ \A j, k \in L : Place(keys, j) = Place(keys, k) => j = k
  BY <1>5, <1>6, <1>10, <1>11
<1> QED
  BY <1>12 DEF L, N

LEMMA RowsOfList ==
  ASSUME NEW keys \in KeyStates
  PROVE  /\ Rows(keys) \in Seq(Row)
         /\ \A k : Shows(Rows(keys), k) <=> k \in Listed(keys)
         /\ EachOnce(Rows(keys))
<1> DEFINE L == Listed(keys)
           N == Cardinality(L)
           Key(n) == CHOOSE k \in L : Place(keys, k) = n
           rows == Rows(keys)
<1>1. \A n \in 1 .. N : Key(n) \in L /\ Place(keys, Key(n)) = n
  BY PlaceOfKey
<1>2. \A k \in L : Place(keys, k) \in 1 .. N /\ Key(Place(keys, k)) = k
  BY PlaceOfKey
<1>3. rows = [n \in 1 .. N |-> [key |-> Key(n), limited |-> keys[Key(n)] = "limited"]]
  BY DEF Rows
<1>4. L \subseteq Keys /\ N \in Nat
  BY KeysFinite DEF Listed
<1> HIDE DEF L, N, Key, rows
<1>5. rows \in [1 .. N -> Row]
  BY <1>1, <1>3, <1>4 DEF Row
<1>6. \A n \in 1 .. N : rows[n].key = Key(n)
  BY <1>3
<1>7. DOMAIN rows = 1 .. N
  BY <1>3
<1>8. \A k : Shows(rows, k) <=> k \in L
  BY <1>1, <1>2, <1>6, <1>7 DEF Shows
<1>9. EachOnce(rows)
  BY <1>1, <1>6, <1>7 DEF EachOnce
<1> QED
  BY <1>4, <1>5, <1>8, <1>9, RowSequence DEF rows, L

LEMMA RowsUpdated ==
  ASSUME NEW rows \in Seq(Row), NEW keys \in KeyStates
  PROVE  /\ UpdateRows(rows, keys) \in Seq(Row)
         /\ \A k : Shows(UpdateRows(rows, keys), k) <=> Shows(rows, k)
         /\ EachOnce(rows) => EachOnce(UpdateRows(rows, keys))
<1> DEFINE new == UpdateRows(rows, keys)
<1>1. Len(rows) \in Nat /\ DOMAIN rows = 1 .. Len(rows)
      /\ \A n \in 1 .. Len(rows) : rows[n] \in Row
  BY RowsTyped
<1>2. DOMAIN new = DOMAIN rows
  BY DEF UpdateRows
<1>3. \A n \in 1 .. Len(rows) : new[n] \in Row /\ new[n].key = rows[n].key
  BY <1>1 DEF UpdateRows, Row
<1>4. new = [n \in 1 .. Len(rows) |-> new[n]]
  BY <1>1 DEF UpdateRows
<1> HIDE DEF new
<1>5. new \in [1 .. Len(rows) -> Row]
  BY <1>3, <1>4
<1>6. new \in Seq(Row)
  BY <1>1, <1>5, RowSequence
<1> QED
  BY <1>1, <1>2, <1>3, <1>6 DEF new, Shows, EachOnce

LEMMA RowAppended ==
  ASSUME NEW rows \in Seq(Row), NEW row \in Row
  PROVE  /\ Append(rows, row) \in Seq(Row)
         /\ \A k : Shows(Append(rows, row), k) <=> Shows(rows, k) \/ k = row.key
         /\ EachOnce(rows) /\ ~Shows(rows, row.key) => EachOnce(Append(rows, row))
<1> DEFINE new == Append(rows, row)
<1>1. Len(rows) \in Nat /\ DOMAIN rows = 1 .. Len(rows)
  BY RowsTyped
<1>2. /\ new \in Seq(Row) /\ Len(new) = Len(rows) + 1
      /\ \A n \in 1 .. Len(rows) : new[n] = rows[n]
      /\ new[Len(rows) + 1] = row
  BY AppendProperties
<1>3. DOMAIN new = 1 .. (Len(rows) + 1)
  BY <1>2, RowsTyped
<1> HIDE DEF new
<1>4. \A k : Shows(new, k) <=> Shows(rows, k) \/ k = row.key
  BY <1>1, <1>2, <1>3 DEF Shows
<1>5. EachOnce(rows) /\ ~Shows(rows, row.key) => EachOnce(new)
  BY <1>1, <1>2, <1>3 DEF Shows, EachOnce
<1> QED
  BY <1>2, <1>4, <1>5 DEF new

LEMMA RowRemoved ==
  ASSUME NEW rows \in Seq(Row), NEW k
  PROVE  /\ RemoveRow(rows, k) \in Seq(Row)
         /\ \A j : Shows(RemoveRow(rows, k), j) => Shows(rows, j)
         /\ EachOnce(rows) =>
              /\ EachOnce(RemoveRow(rows, k))
              /\ \A j : Shows(RemoveRow(rows, k), j) <=> Shows(rows, j) /\ j # k
<1> DEFINE len == Len(rows)
           Behind(i) == \E j \in 1 .. i : rows[j].key = k
           new == RemoveRow(rows, k)
<1>1. /\ len \in Nat /\ DOMAIN rows = 1 .. len
      /\ \A n \in 1 .. len : rows[n] \in Row
  BY RowsTyped
<1>2. CASE ~Behind(len)
  <2>1. new = rows
    BY <1>2 DEF RemoveRow
  <2>2. ~Shows(rows, k)
    BY <1>1, <1>2 DEF Shows
  <2> QED
    BY <2>1, <2>2
<1>3. CASE Behind(len)
  <2>1. new = [i \in 1 .. len - 1 |-> IF Behind(i) THEN rows[i + 1] ELSE rows[i]]
    BY <1>3 DEF RemoveRow
  <2>2. PICK at \in 1 .. len : rows[at].key = k
    BY <1>3
  <2>3. len - 1 \in Nat
    BY <1>1, <2>2
  <2> HIDE DEF new
  <2>4. new \in [1 .. len - 1 -> Row]
    BY <1>1, <2>1
  <2>5. DOMAIN new = 1 .. len - 1
    BY <2>1
  <2>6. \A j : Shows(new, j) => Shows(rows, j)
    <3> SUFFICES ASSUME NEW j, NEW n \in 1 .. len - 1, new[n].key = j
                 PROVE  \E m \in 1 .. len : rows[m].key = j
      BY <1>1, <2>5 DEF Shows
    <3>1. n \in 1 .. len /\ n + 1 \in 1 .. len
      BY <1>1
    <3>2. new[n] = rows[n + 1] \/ new[n] = rows[n]
      BY <2>1
    <3> QED
      BY <3>1, <3>2
  <2>7. ASSUME EachOnce(rows)
        PROVE  /\ EachOnce(new)
               /\ \A j : Shows(new, j) <=> Shows(rows, j) /\ j # k
    <3>1. \A i \in 1 .. len : rows[i].key = k <=> i = at
      BY <1>1, <2>2, <2>7 DEF EachOnce
    <3>2. \A i \in 1 .. len - 1 : Behind(i) <=> at <= i
      BY <1>1, <2>2, <3>1
    <3>3. \A i \in 1 .. len - 1 : new[i] = IF at <= i THEN rows[i + 1] ELSE rows[i]
      BY <2>1, <3>2
    <3> HIDE DEF Behind
    <3>4. \A i \in 1 .. len : i # at =>
            \E n \in 1 .. len - 1 : new[n] = rows[i]
      <4> TAKE i \in 1 .. len
      <4>1. CASE i < at
        <5>1. i \in 1 .. len - 1 /\ new[i] = rows[i]
          BY <1>1, <2>2, <3>3, <4>1
        <5> QED
          BY <5>1
      <4>2. CASE i > at
        <5>1. i - 1 \in 1 .. len - 1 /\ new[i - 1] = rows[i]
          BY <1>1, <2>2, <3>3, <4>2
        <5> QED
          BY <5>1
      <4> QED
        BY <1>1, <2>2, <4>1, <4>2
    <3>5. \A j : Shows(rows, j) /\ j # k => Shows(new, j)
      BY <1>1, <2>2, <2>5, <3>4 DEF Shows
    <3>6. \A i \in 1 .. len - 1 : new[i].key # k
      BY <1>1, <2>2, <3>1, <3>3
    <3>7. \A m, n \in 1 .. len - 1 : new[m].key = new[n].key => m = n
      <4> DEFINE From(n) == IF at <= n THEN n + 1 ELSE n
      <4>1. \A m, n \in 1 .. len : rows[m].key = rows[n].key => m = n
        BY <1>1, <2>7 DEF EachOnce
      <4>2. \A n \in 1 .. len - 1 : From(n) \in 1 .. len /\ new[n] = rows[From(n)]
        BY <1>1, <2>2, <3>3
      <4>3. \A m, n \in 1 .. len - 1 : From(m) = From(n) => m = n
        BY <1>1, <2>2
      <4> HIDE DEF From
      <4> QED
        BY <4>1, <4>2, <4>3
    <3> QED
      BY <2>5, <2>6, <3>5, <3>6, <3>7 DEF Shows, EachOnce
  <2> QED
    BY <2>3, <2>4, <2>6, <2>7, RowSequence DEF new
<1> QED
  BY <1>2, <1>3

----------------------------------------------------------------------------
(* Requests. *)
RequestOK(r) ==
  /\ r.op \in Operations /\ r \in Request(r.op)
  /\ r.waits => r.op = "config"
  /\ r.pc = "rejected" => r.op \in {"remove", "keyLimit"}
  /\ r.pc = "done" /\ r.op \in {"config", "list", "stats", "add"} => r.found # None
  /\ r.op = "set" => r.value \in Values

FreshTaps == \A n \in 1 .. MaxTaps : n > taps => requests[<<"tap", n>>] = None

RequestsOK ==
  /\ DOMAIN requests = Causes
  /\ \A i \in Causes : requests[i] # None => RequestOK(requests[i])
  /\ FreshTaps

LEMMA RequestFields ==
  ASSUME NEW r, RequestOK(r)
  PROVE  /\ r # None
         /\ r.server \in Servers /\ r.view \in Servers
         /\ r.pc \in {"sent", "done", "rejected"} /\ r.waits \in BOOLEAN
         /\ r.prev \in Values \cup {None} /\ r.value \in Values \cup {None}
         /\ r.op = "set" => r.what \in Settings /\ r.value \in Values
         /\ r.op \in {"remove", "keyLimit"} => r.what \in Keys
         /\ r.pc = "done" =>
              /\ r.op = "config" => r.found \in Config
              /\ r.op \in {"list", "stats"} => r.found \in KeyStates
              /\ r.op = "add" => r.found \in Keys
<1>1. r \in Request(r.op) /\ r.op \in Operations
  BY DEF RequestOK
<1>2. r # None
  BY <1>1, NoneAssumption
<1>3. r.what \in Subjects(r.op) /\ r.found \in {None} \cup Answers(r.op)
  BY <1>1 DEF Request
<1>4. /\ r.op = "set" => r.what \in Settings
      /\ r.op \in {"remove", "keyLimit"} => r.what \in Keys
  BY <1>3 DEF Subjects
<1>5. /\ r.op = "config" => r.found \in {None} \cup Config
      /\ r.op \in {"list", "stats"} => r.found \in {None} \cup KeyStates
      /\ r.op = "add" => r.found \in {None} \cup Keys
  BY <1>3 DEF Answers
<1>6. /\ r.server \in Servers /\ r.view \in Servers
      /\ r.pc \in {"sent", "done", "rejected"}
      /\ r.prev \in Values \cup {None} /\ r.value \in Values \cup {None}
  BY <1>1 DEF Request
<1>7. r.waits \in BOOLEAN
  BY <1>1 DEF Request
<1>8. r.op = "set" => r.value \in Values
  BY DEF RequestOK
<1>9. r.pc = "done" /\ r.op \in {"config", "list", "stats", "add"} => r.found # None
  BY DEF RequestOK
<1>10. r.pc = "done" =>
         /\ r.op = "config" => r.found \in Config
         /\ r.op \in {"list", "stats"} => r.found \in KeyStates
         /\ r.op = "add" => r.found \in Keys
  BY <1>5, <1>9
<1> QED
  BY <1>2, <1>4, <1>6, <1>7, <1>8, <1>10

(* A new request. *)
LEMMA RequestSent ==
  ASSUME NEW op \in Operations, NEW s \in Servers, NEW v \in Servers,
         NEW what \in Subjects(op), NEW value \in Values \cup {None},
         op = "set" => value \in Values
  PROVE  LET r == NewRequest(op, s, v, what, value) IN
         /\ RequestOK(r) /\ r # None
         /\ r.op = op /\ r.server = s /\ r.view = v /\ r.what = what
         /\ r.value = value /\ r.pc = "sent"
<1> DEFINE w == op = "config"
           r == NewRequest(op, s, v, what, value)
<1>1. r = [op |-> op, server |-> s, view |-> v, what |-> what, value |-> value,
           pc |-> "sent", found |-> None, prev |-> None, waits |-> w]
  BY DEF NewRequest
<1>2. w \in BOOLEAN
  OBVIOUS
<1>3. w => op = "config"
  OBVIOUS
<1> HIDE DEF w, r
<1>4. /\ r.op = op /\ r.server = s /\ r.view = v /\ r.what = what
      /\ r.value = value /\ r.pc = "sent" /\ r.waits = w
  BY <1>1
<1>5. r \in Request(op)
  BY <1>1, <1>2 DEF Request
<1>6. r.waits => r.op = "config"
  BY <1>3, <1>4
<1>7. RequestOK(r)
  BY <1>4, <1>5, <1>6 DEF RequestOK
<1>8. r # None
  BY <1>7, RequestFields
<1> QED
  BY <1>4, <1>7, <1>8 DEF r

LEMMA StatsSent ==
  ASSUME NEW s \in Servers, NEW v \in Servers
  PROVE  LET r == Stats(s, v) IN
         /\ RequestOK(r) /\ r # None
         /\ r.op = "stats" /\ r.server = s /\ r.view = v /\ r.pc = "sent"
<1>1. "stats" \in Operations /\ None \in Subjects("stats")
  BY DEF Operations, Subjects
<1>2. None \in Values \cup {None} /\ "stats" # "set"
  OBVIOUS
<1> QED
  BY <1>1, <1>2, RequestSent DEF Stats

(* What the server answers. *)
Replied(q, f) == [q EXCEPT !.pc = "done", !.found = f]

LEMMA RequestExecuted ==
  ASSUME NEW q, RequestOK(q), NEW f \in Answers(q.op),
         q.op \in {"config", "list", "stats", "add"} => f # None,
         NEW r, r = Replied(q, f)
  PROVE  /\ RequestOK(r) /\ r # None
         /\ r.op = q.op /\ r.server = q.server /\ r.view = q.view
         /\ r.what = q.what /\ r.value = q.value
         /\ r.pc = "done" /\ r.found = f /\ r.waits = q.waits
<1>1. q \in Request(q.op) /\ q.op \in Operations
  BY DEF RequestOK
<1>2. /\ r.op = q.op /\ r.server = q.server /\ r.view = q.view
      /\ r.what = q.what /\ r.value = q.value
      /\ r.pc = "done" /\ r.found = f /\ r.waits = q.waits
  BY <1>1 DEF Request, Replied
<1>3. r \in Request(q.op)
  BY <1>1 DEF Request, Replied
<1>4. RequestOK(r)
  BY <1>1, <1>2, <1>3 DEF RequestOK
<1> QED
  BY <1>2, <1>4, RequestFields

LEMMA RequestEnded ==
  ASSUME NEW q, RequestOK(q), NEW p \in {"done", "rejected"},
         q.op \in {"set", "remove", "keyLimit"},
         p = "rejected" => q.op # "set",
         NEW r, r = [q EXCEPT !.pc = p]
  PROVE  /\ RequestOK(r) /\ r # None
         /\ r.op = q.op /\ r.server = q.server /\ r.view = q.view
         /\ r.what = q.what /\ r.value = q.value /\ r.pc = p
<1>1. q \in Request(q.op) /\ q.op \in Operations
  BY DEF RequestOK
<1>2. /\ r.op = q.op /\ r.server = q.server /\ r.view = q.view
      /\ r.what = q.what /\ r.value = q.value
      /\ r.pc = p /\ r.waits = q.waits
  BY <1>1 DEF Request
<1>3. r \in Request(q.op)
  BY <1>1 DEF Request
<1>4. RequestOK(r)
  BY <1>1, <1>2, <1>3 DEF RequestOK
<1> QED
  BY <1>2, <1>4, RequestFields

(* The time limit of isHealthy. *)
LEMMA RequestUnheard ==
  ASSUME NEW q, RequestOK(q), NEW r, r = [q EXCEPT !.waits = FALSE]
  PROVE  /\ RequestOK(r) /\ r # None
         /\ r.op = q.op /\ r.server = q.server /\ r.what = q.what
         /\ r.value = q.value /\ r.pc = q.pc /\ r.found = q.found
<1>1. q \in Request(q.op) /\ q.op \in Operations
  BY DEF RequestOK
<1>2. /\ r.op = q.op /\ r.server = q.server /\ r.what = q.what
      /\ r.value = q.value /\ r.pc = q.pc /\ r.found = q.found
      /\ r.waits = FALSE
  BY <1>1 DEF Request
<1>3. r \in Request(q.op)
  BY <1>1 DEF Request
<1>4. RequestOK(r)
  BY <1>1, <1>2, <1>3 DEF RequestOK
<1> QED
  BY <1>2, <1>4, RequestFields

(* At place i, a request is sent, replaced or forgotten. *)
LEMMA RequestPut ==
  ASSUME RequestsOK, NEW i \in Causes, NEW r, r = None \/ RequestOK(r),
         requests' = [requests EXCEPT ![i] = r],
         taps \in 0 .. MaxTaps, taps' \in taps .. MaxTaps,
         requests[i] # None \/ \A n \in 1 .. MaxTaps : i = <<"tap", n>> => n <= taps'
  PROVE  /\ RequestsOK'
         /\ \A j \in Causes : requests'[j] = IF j = i THEN r ELSE requests[j]
<1>1. /\ DOMAIN requests' = Causes
      /\ \A j \in Causes : requests'[j] = IF j = i THEN r ELSE requests[j]
  BY DEF RequestsOK
<1>2. \A j \in Causes : requests'[j] # None => RequestOK(requests'[j])
  BY <1>1 DEF RequestsOK
<1>3. \A n \in 1 .. MaxTaps : <<"tap", n>> \in Causes
  BY DEF Causes
<1>4. FreshTaps'
  <2> SUFFICES ASSUME NEW n \in 1 .. MaxTaps, n > taps' PROVE requests'[<<"tap", n>>] = None
    BY DEF FreshTaps
  <2>1. n > taps /\ requests[<<"tap", n>>] = None
    BY ManagementAssumption DEF RequestsOK, FreshTaps
  <2>2. i # <<"tap", n>>
    BY <2>1, ManagementAssumption
  <2> QED
    BY <1>1, <1>3, <2>1, <2>2
<1> QED
  BY <1>1, <1>2, <1>4 DEF RequestsOK

LEMMA RequestsUntouched ==
  ASSUME RequestsOK, UNCHANGED requests, taps \in Nat, taps' \in Nat, taps' >= taps
  PROVE  RequestsOK'
BY ManagementAssumption DEF RequestsOK, FreshTaps

(* What the user asks for is sent as the next tap. *)
LEMMA RequestTapped ==
  ASSUME RequestsOK, taps \in 0 .. MaxTaps, NEW r, RequestOK(r), Send(r)
  PROVE  \E i \in Causes :
           /\ requests[i] = None
           /\ \A j \in Causes : requests'[j] = IF j = i THEN r ELSE requests[j]
           /\ RequestsOK' /\ taps' \in 0 .. MaxTaps
           /\ UNCHANGED <<server, faults>>
           /\ disturbed' \in {disturbed, disturbed \cup {r.server}}
           /\ r.server \notin disturbed' => ~Disturbs(r, {i})
<1>1. taps' \in 1 .. MaxTaps /\ taps' = taps + 1 /\ taps' \in taps .. MaxTaps
  BY ManagementAssumption DEF Send, Tap
<1>2. PICK i \in Causes : i = <<"tap", taps'>>
  BY <1>1 DEF Causes
<1>3. requests[i] = None
  BY <1>1, <1>2, ManagementAssumption DEF RequestsOK, FreshTaps
<1>4. requests' = [requests EXCEPT ![i] = r] /\ UNCHANGED <<server, faults>>
  BY <1>2 DEF Send
<1>5. \A n \in 1 .. MaxTaps : i = <<"tap", n>> => n <= taps'
  BY <1>1, <1>2
<1>6. /\ disturbed' \in {disturbed, disturbed \cup {r.server}}
      /\ r.server \notin disturbed' => ~Disturbs(r, {})
  BY DEF Send
<1>7. ~Disturbs(r, {}) => ~Disturbs(r, {i})
  BY DEF Disturbs
<1>8. RequestsOK' /\ \A j \in Causes : requests'[j] = IF j = i THEN r ELSE requests[j]
  BY <1>1, <1>4, <1>5, RequestPut
<1>9. taps' \in 0 .. MaxTaps
  BY <1>1
<1> QED
  BY <1>3, <1>4, <1>6, <1>7, <1>8, <1>9

----------------------------------------------------------------------------
(* The inductive invariant.  A key that is shown, or that was asked for,   *)
(* has been made, and one request at most has removed it.                  *)
Made(srv, s, k) == srv[s].keys[k] # "never"

Known(srv, r) ==
  /\ r.op \in {"remove", "keyLimit"} => Made(srv, r.server, r.what)
  /\ r.pc = "done" =>
       /\ r.op = "list" => \A k \in Listed(r.found) : Made(srv, r.server, k)
       /\ r.op = "add" => Made(srv, r.server, r.found)
       /\ r.op = "remove" => srv[r.server].keys[r.what] = "removed"

RemoveDone(i) ==
  requests[i] # None /\ requests[i].op = "remove" /\ requests[i].pc = "done"

KeysMade ==
  /\ \A s \in Servers : \A k : Shows(view[s].rows, k) => Made(server, s, k)
  /\ \A i \in Causes : requests[i] # None => Known(server, requests[i])
  /\ \A i, j \in Causes :
       /\ RemoveDone(i) /\ RemoveDone(j)
       /\ requests[i].server = requests[j].server
       /\ requests[i].what = requests[j].what
       => i = j

(* Request i is under way to server s, for this operation. *)
At(i, s, op) ==
  requests[i] # None /\ requests[i].server = s /\ requests[i].op = op
DoneAt(i, s, op) == At(i, s, op) /\ requests[i].pc = "done"

(* No two requests to s are about the same thing. *)
Apart(s) ==
  \A i, j \in Causes :
    /\ At(i, s, "set") /\ At(j, s, "set") /\ requests[i].what = requests[j].what
         => i = j
    /\ At(i, s, "set") => ~At(j, s, "config")
    /\ At(i, s, "list") => ~At(j, s, "add") /\ ~At(j, s, "remove")

(* The settings.  What was answered still holds; page, copy and server may *)
(* differ in a setting only while it is being set.                         *)
Setting(s, x) == \E i \in Causes : At(i, s, "set") /\ requests[i].what = x

AnswersHold(s) ==
  \A i \in Causes :
    /\ DoneAt(i, s, "config") => requests[i].found = server[s].set
    /\ DoneAt(i, s, "set") => server[s].set[requests[i].what] = requests[i].value
    /\ At(i, s, "set") /\ requests[i].what \in Validated =>
         view[s].set[requests[i].what] = requests[i].value

CopyAgrees(s) ==
  cache[s] # None =>
    \A x \in Settings : Setting(s, x) \/ cache[s][x] = server[s].set[x]

PageAgrees(s) ==
  view[s].page = "management" =>
    /\ Setting(s, "name") \/ view[s].title = server[s].set["name"]
    /\ \A x \in Settings \ {"name"} :
         Setting(s, x) \/ view[s].set[x] = server[s].set[x]

SettingsAgree(s) == AnswersHold(s) /\ CopyAgrees(s) /\ PageAgrees(s)

(* The keys.  The rows differ from the server in the keys it has made, or  *)
(* removed, with the answer still under way.                               *)
Added(s, k)   == \E i \in Causes : DoneAt(i, s, "add") /\ requests[i].found = k
Removed(s, k) == \E i \in Causes : DoneAt(i, s, "remove") /\ requests[i].what = k

ListHolds(s) ==
  \A i \in Causes :
    DoneAt(i, s, "list") => Listed(requests[i].found) = Listed(server[s].keys)

AddedIsNew(s) ==
  \A i \in Causes : DoneAt(i, s, "add") =>
    /\ requests[i].found \in Listed(server[s].keys)
    /\ ~Shows(view[s].rows, requests[i].found)
    /\ \A j \in Causes :
         /\ At(j, s, "remove") => requests[j].what # requests[i].found
         /\ DoneAt(j, s, "add") /\ requests[j].found = requests[i].found => j = i

RowsAgree(s) ==
  view[s].page = "management" /\ (\A i \in Causes : ~At(i, s, "list")) =>
    /\ \A k \in Keys :
         Shows(view[s].rows, k) <=>
           (k \in Listed(server[s].keys) /\ ~Added(s, k)) \/ Removed(s, k)
    /\ EachOnce(view[s].rows)

KeysAgree(s) == ListHolds(s) /\ AddedIsNew(s) /\ RowsAgree(s)

Agrees(s) == Apart(s) /\ SettingsAgree(s) /\ KeysAgree(s)

ViewInv ==
  /\ TypeOK /\ RequestsOK /\ KeysMade
  /\ \A s \in Servers \ disturbed : Agrees(s)

----------------------------------------------------------------------------
(* What a step leaves as it is.  One request at most is replaced.          *)
Replaced(i, r) ==
  \A j \in Causes : requests'[j] = IF j = i THEN r ELSE requests[j]

(* The requests to s for these operations are the same.                    *)
Kept(s, ops) ==
  \A j \in Causes : \A op \in ops :
    /\ At(j, s, op)' <=> At(j, s, op)
    /\ At(j, s, op) => requests'[j] = requests[j]

(* ... or fewer.                                                           *)
Fewer(s) ==
  \A j \in Causes : \A op \in Operations \ {"stats", "keyLimit"} :
    At(j, s, op)' => At(j, s, op) /\ requests'[j].what = requests[j].what

LEMMA ReplacedKept ==
  ASSUME NEW i \in Causes, NEW r, Replaced(i, r), NEW s, NEW ops,
         requests[i] # None => requests[i].server # s \/ requests[i].op \notin ops,
         r # None => r.server # s \/ r.op \notin ops
  PROVE  Kept(s, ops)
BY DEF Replaced, Kept, At

LEMMA ReplacedFewer ==
  ASSUME NEW i \in Causes, NEW r, Replaced(i, r), NEW s,
         \/ r = None \/ r.server # s \/ r.op \in {"stats", "keyLimit"}
         \/ /\ requests[i] # None /\ r.server = requests[i].server
            /\ r.op = requests[i].op /\ r.what = requests[i].what
  PROVE  Fewer(s)
BY DEF Replaced, Fewer, At

LEMMA ApartFewer ==
  ASSUME NEW s, Apart(s), Fewer(s) PROVE Apart(s)'
<1>1. \A j \in Causes : \A op \in {"set", "config", "list", "add", "remove"} :
        At(j, s, op)' => At(j, s, op) /\ requests'[j].what = requests[j].what
  BY DEF Fewer, Operations
<1> QED
  BY <1>1 DEF Apart

(* Requests that Send or Then found undisturbed.                           *)
LEMMA NotDisturbing ==
  ASSUME NEW r, NEW i \in Causes, ~Disturbs(r, {i}), NEW j \in Causes, j # i
  PROVE  /\ r.op = "set" =>
              /\ At(j, r.server, "set") => requests[j].what # r.what
              /\ ~At(j, r.server, "config")
         /\ r.op = "config" => ~At(j, r.server, "set")
         /\ r.op = "list" => ~At(j, r.server, "add") /\ ~At(j, r.server, "remove")
         /\ r.op \in {"add", "remove"} => ~At(j, r.server, "list")
<1>1. requests[j] # None => ~Conflict(r, requests[j])
  BY DEF Disturbs, Outstanding
<1>2. ASSUME At(j, r.server, "set"), r.op = "set", requests[j].what = r.what
      PROVE  FALSE
  <2>1. {r.op, requests[j].op} = {"set"}
    BY <1>2 DEF At
  <2> QED
    BY <1>1, <1>2, <2>1 DEF At, Conflict
<1>3. ASSUME \/ At(j, r.server, "config") /\ r.op = "set"
             \/ At(j, r.server, "set") /\ r.op = "config"
      PROVE  FALSE
  <2>1. {r.op, requests[j].op} = {"config", "set"}
    BY <1>3 DEF At
  <2> QED
    BY <1>1, <1>3, <2>1 DEF At, Conflict
<1>4. ASSUME \/ r.op = "list" /\ (At(j, r.server, "add") \/ At(j, r.server, "remove"))
             \/ r.op \in {"add", "remove"} /\ At(j, r.server, "list")
      PROVE  FALSE
  <2>1. /\ "list" \in {r.op, requests[j].op}
        /\ {r.op, requests[j].op} \cap {"add", "remove"} # {}
    BY <1>4 DEF At
  <2> QED
    BY <1>1, <1>4, <2>1 DEF At, Conflict
<1> QED
  BY <1>2, <1>3, <1>4

LEMMA ApartSent ==
  ASSUME NEW r, r # None, NEW i \in Causes, Replaced(i, r), ~Disturbs(r, {i}),
         Apart(r.server)
  PROVE  Apart(r.server)'
<1> DEFINE s == r.server
<1>1. \A j \in Causes \ {i} : \A op : At(j, s, op)' <=> At(j, s, op)
  BY DEF Replaced, At
<1>2. \A op : At(i, s, op)' <=> op = r.op
  BY DEF Replaced, At
<1>3. \A j \in Causes \ {i} : requests'[j] = requests[j]
  BY DEF Replaced
<1>4. requests'[i] = r
  BY DEF Replaced
<1>5. \A j \in Causes \ {i} :
         /\ r.op = "set" =>
              /\ At(j, s, "set") => requests[j].what # r.what
              /\ ~At(j, s, "config")
         /\ r.op = "config" => ~At(j, s, "set")
         /\ r.op = "list" => ~At(j, s, "add") /\ ~At(j, s, "remove")
         /\ r.op \in {"add", "remove"} => ~At(j, s, "list")
  BY NotDisturbing
<1> HIDE DEF s
<1>6. Apart(s)
  BY DEF s
<1>7. ASSUME NEW j \in Causes, NEW k \in Causes
      PROVE  /\ At(j, s, "set")' /\ At(k, s, "set")' /\ requests'[j].what = requests'[k].what
                  => j = k
             /\ At(j, s, "set")' => ~At(k, s, "config")'
             /\ At(j, s, "list")' => ~At(k, s, "add")' /\ ~At(k, s, "remove")'
  <2>1. CASE j # i /\ k # i
    BY <1>1, <1>3, <1>6, <2>1 DEF Apart
  <2>2. CASE j = i /\ k = i
    BY <1>2, <2>2
  <2>3. CASE j = i /\ k # i
    BY <1>1, <1>2, <1>3, <1>4, <1>5, <2>3
  <2>4. CASE j # i /\ k = i
    BY <1>1, <1>2, <1>3, <1>4, <1>5, <2>4
  <2> QED
    BY <2>1, <2>2, <2>3, <2>4
<1>8. Apart(s)'
  BY <1>7 DEF Apart
<1> QED
  BY <1>8 DEF s

LEMMA SettingsKept ==
  ASSUME NEW s, SettingsAgree(s), Kept(s, {"config", "set"}),
         server'[s].set = server[s].set, cache'[s] = cache[s],
         view'[s].title = view[s].title, view'[s].set = view[s].set,
         view'[s].page = "management" => view[s].page = "management"
  PROVE  SettingsAgree(s)'
<1>1. \A j \in Causes :
        /\ At(j, s, "config")' <=> At(j, s, "config")
        /\ At(j, s, "set")' <=> At(j, s, "set")
        /\ At(j, s, "config") \/ At(j, s, "set") => requests'[j] = requests[j]
  BY DEF Kept
<1>2. \A x : Setting(s, x)' <=> Setting(s, x)
  BY <1>1 DEF Setting
<1>3. AnswersHold(s)'
  BY <1>1 DEF SettingsAgree, AnswersHold, DoneAt
<1>4. CopyAgrees(s)' /\ PageAgrees(s)'
  BY <1>2 DEF SettingsAgree, CopyAgrees, PageAgrees
<1> QED
  BY <1>3, <1>4 DEF SettingsAgree

LEMMA KeysKept ==
  ASSUME NEW s, KeysAgree(s), Kept(s, {"list", "add", "remove"}),
         Listed(server'[s].keys) = Listed(server[s].keys),
         \A k : Shows(view'[s].rows, k) <=> Shows(view[s].rows, k),
         EachOnce(view[s].rows) => EachOnce(view'[s].rows),
         view'[s].page = "management" => view[s].page = "management"
  PROVE  KeysAgree(s)'
<1>1. \A j \in Causes :
        /\ At(j, s, "list")' <=> At(j, s, "list")
        /\ At(j, s, "add")' <=> At(j, s, "add")
        /\ At(j, s, "remove")' <=> At(j, s, "remove")
        /\ At(j, s, "list") \/ At(j, s, "add") \/ At(j, s, "remove") =>
             requests'[j] = requests[j]
  BY DEF Kept
<1>2. \A j \in Causes :
        /\ DoneAt(j, s, "list")' <=> DoneAt(j, s, "list")
        /\ DoneAt(j, s, "add")' <=> DoneAt(j, s, "add")
        /\ DoneAt(j, s, "remove")' <=> DoneAt(j, s, "remove")
  BY <1>1 DEF DoneAt
<1>3. \A j \in Causes :
         DoneAt(j, s, "list") \/ DoneAt(j, s, "add") \/ DoneAt(j, s, "remove") =>
           requests'[j] = requests[j]
  BY <1>1 DEF DoneAt
<1>4. \A k : (Added(s, k)' <=> Added(s, k)) /\ (Removed(s, k)' <=> Removed(s, k))
  BY <1>2, <1>3 DEF Added, Removed
<1>5. ListHolds(s)'
  BY <1>2, <1>3 DEF KeysAgree, ListHolds
<1>6. AddedIsNew(s)'
  BY <1>1, <1>2, <1>3 DEF KeysAgree, AddedIsNew
<1>7. RowsAgree(s)'
  BY <1>1, <1>4 DEF KeysAgree, RowsAgree
<1> QED
  BY <1>5, <1>6, <1>7 DEF KeysAgree

(* A step about another server.                                            *)
LEMMA ServerKept ==
  ASSUME NEW s, Agrees(s),
         NEW i \in Causes, NEW r, Replaced(i, r),
         requests[i] # None => requests[i].server # s \/ requests[i].op \in {"stats", "keyLimit"},
         r # None => r.server # s \/ r.op \in {"stats", "keyLimit"},
         server'[s] = server[s], cache'[s] = cache[s], view'[s] = view[s]
  PROVE  Agrees(s)'
<1>1. Kept(s, {"config", "set"}) /\ Kept(s, {"list", "add", "remove"})
  BY ReplacedKept
<1>2. r = None \/ r.server # s \/ r.op \in {"stats", "keyLimit"}
  OBVIOUS
<1>3. Fewer(s)
  BY <1>2, ReplacedFewer
<1> QED
  BY <1>1, <1>3, ApartFewer, SettingsKept, KeysKept DEF Agrees

LEMMA ListedKeys ==
  ASSUME NEW keys \in KeyStates
  PROVE  \A k \in Listed(keys) : k \in Keys /\ keys[k] # "never" /\ keys[k] # "removed"
BY DEF Listed, Exists

(* Keys are made, and removed, for good.                                   *)
KeysGrow ==
  \A s \in Servers : \A k \in Keys :
    /\ server[s].keys[k] # "never" => server'[s].keys[k] # "never"
    /\ server[s].keys[k] = "removed" => server'[s].keys[k] = "removed"

LEMMA KnownKept ==
  ASSUME KeysGrow, NEW r, RequestOK(r), Known(server, r)
  PROVE  Known(server', r)
<1>1. /\ r.server \in Servers
      /\ r.op \in {"remove", "keyLimit"} => r.what \in Keys
      /\ r.pc = "done" =>
           /\ r.op = "list" => r.found \in KeyStates
           /\ r.op = "add" => r.found \in Keys
  BY RequestFields
<1>2. r.pc = "done" /\ r.op = "list" => \A k \in Listed(r.found) : k \in Keys
  BY <1>1 DEF Listed
<1> QED
  BY <1>1, <1>2 DEF KeysGrow, Known, Made

LEMMA KeysMadeKept ==
  ASSUME KeysMade, RequestsOK, KeysGrow, NEW i \in Causes, NEW r, Replaced(i, r),
         r # None => RequestOK(r) /\ Known(server', r),
         \A s \in Servers : view[s].rows \in Seq(Row),
         \A s \in Servers : \A k : Shows(view'[s].rows, k) =>
           Shows(view[s].rows, k) \/ Made(server', s, k),
         r # None /\ r.op = "remove" /\ r.pc = "done" =>
           \A j \in Causes \ {i} : RemoveDone(j) =>
             requests[j].server # r.server \/ requests[j].what # r.what
  PROVE  KeysMade'
<1>1. ASSUME NEW s \in Servers, NEW k, Shows(view'[s].rows, k)
      PROVE  Made(server', s, k)
  <2>1. CASE Shows(view[s].rows, k)
    <3>1. k \in Keys
      BY <2>1, RowsTyped DEF Shows
    <3> QED
      BY <2>1, <3>1 DEF KeysMade, KeysGrow, Made
  <2> QED
    BY <1>1, <2>1
<1>2. ASSUME NEW j \in Causes, requests'[j] # None
      PROVE  Known(server', requests'[j])
  <2>1. CASE j = i
    BY <1>2, <2>1 DEF Replaced
  <2>2. CASE j # i
    <3>1. requests'[j] = requests[j]
      BY <2>2 DEF Replaced
    <3>2. RequestOK(requests[j]) /\ Known(server, requests[j])
      BY <1>2, <3>1 DEF RequestsOK, KeysMade
    <3> QED
      BY <3>1, <3>2, KnownKept
  <2> QED
    BY <2>1, <2>2
<1>3. \A j, k \in Causes :
        /\ RemoveDone(j)' /\ RemoveDone(k)'
        /\ requests'[j].server = requests'[k].server
        /\ requests'[j].what = requests'[k].what
        => j = k
  BY DEF Replaced, RemoveDone, KeysMade
<1> QED
  BY <1>1, <1>2, <1>3 DEF KeysMade

LEMMA KeysUntouched ==
  ASSUME UNCHANGED server PROVE KeysGrow
BY DEF KeysGrow

LEMMA TypeKept ==
  ASSUME RequestsOK',
         server' \in [Servers -> [set : Config, keys : KeyStates]],
         cache' \in [Servers -> Config \cup {None}],
         view' \in [Servers -> View],
         \A s \in Servers : view'[s].page = "management" => cache'[s] # None,
         selected' \in Servers,
         live' \subseteq Servers, disturbed' \subseteq Servers,
         taps' \in 0 .. MaxTaps, faults' \in 0 .. MaxFaults
  PROVE  TypeOK'
<1>1. DOMAIN requests' = Causes
      /\ \A i \in Outstanding' : requests'[i].op \in Operations
                                 /\ requests'[i] \in Request(requests'[i].op)
  BY DEF RequestsOK, RequestOK, Outstanding
<1> QED
  BY <1>1 DEF TypeOK

LEMMA ViewFields ==
  ASSUME TypeOK, NEW s \in Servers
  PROVE  /\ view[s] \in View /\ view[s].rows \in Seq(Row)
         /\ view[s].set \in Shown
         /\ view[s].title \in Values \cup {None}
         /\ view[s].initial \in Values \cup {None}
         /\ view[s].saved \in [Validated -> Values \cup {None}]
         /\ server[s].set \in Config /\ server[s].keys \in KeyStates
         /\ server[s] \in [set : Config, keys : KeyStates]
         /\ cache[s] # None => cache[s] \in Config
BY DEF TypeOK, View

----------------------------------------------------------------------------
(* What the user does.                                                     *)

(* A request is sent, and nothing else happens.                            *)
LEMMA OnlySent ==
  ASSUME ViewInv, NEW r, RequestOK(r), r.pc = "sent",
         r.op \in {"config", "add", "remove", "keyLimit"},
         r.op \in {"remove", "keyLimit"} => Shows(view[r.server].rows, r.what),
         Send(r), UNCHANGED manager
  PROVE  ViewInv'
<1>1. TypeOK /\ RequestsOK /\ KeysMade /\ taps \in 0 .. MaxTaps
  BY DEF ViewInv, TypeOK
<1>2. r # None /\ r.server \in Servers
  BY RequestFields
<1>3. PICK i \in Causes :
        /\ requests[i] = None /\ Replaced(i, r)
        /\ RequestsOK' /\ taps' \in 0 .. MaxTaps
        /\ UNCHANGED <<server, faults>>
        /\ disturbed' \in {disturbed, disturbed \cup {r.server}}
        /\ r.server \notin disturbed' => ~Disturbs(r, {i})
  BY <1>1, RequestTapped DEF Replaced
<1>4. UNCHANGED <<cache, view, selected, live>>
  BY DEF manager
<1>5. TypeOK'
  BY <1>1, <1>2, <1>3, <1>4, TypeKept DEF TypeOK
<1>6. Known(server', r)
  BY <1>1, <1>2, <1>3 DEF Known, KeysMade
<1>7. KeysMade'
  <2>1. \A s \in Servers : view[s].rows \in Seq(Row)
    BY <1>1, ViewFields
  <2> QED
    BY <1>1, <1>3, <1>4, <1>6, <2>1, KeysUntouched, KeysMadeKept
<1>8. ASSUME NEW s \in Servers \ disturbed' PROVE Agrees(s)'
  <2>1. s \notin disturbed /\ Agrees(s)
    BY <1>3, <1>8 DEF ViewInv
  <2>2. CASE r.server # s
    BY <1>3, <1>4, <2>1, <2>2, ServerKept
  <2>3. CASE r.server = s
    <3>1. Apart(s)'
      BY <1>2, <1>3, <2>1, <2>3, ApartSent DEF Agrees
    <3>2. /\ \A j \in Causes : \A op : DoneAt(j, s, op)' <=> DoneAt(j, s, op)
          /\ \A j \in Causes : \A op : At(j, s, op) => At(j, s, op)'
          /\ \A j \in Causes : requests[j] # None => requests'[j] = requests[j]
      BY <1>3 DEF Replaced, DoneAt, At
    <3>3. SettingsAgree(s)'
      <4>1. \A j \in Causes : At(j, s, "set")' <=> At(j, s, "set")
        BY <1>3 DEF Replaced, At
      <4>2. \A x : Setting(s, x)' <=> Setting(s, x)
        BY <3>2, <4>1 DEF Setting, At
      <4> QED
        BY <1>3, <1>4, <2>1, <3>2, <4>1, <4>2
        DEF Agrees, SettingsAgree, AnswersHold, CopyAgrees, PageAgrees, DoneAt, At
    <3>4. KeysAgree(s)'
      <4>1. \A k : (Added(s, k)' <=> Added(s, k)) /\ (Removed(s, k)' <=> Removed(s, k))
        <5>1. \A j \in Causes : \A op : DoneAt(j, s, op) => requests'[j] = requests[j]
          BY <3>2 DEF DoneAt, At
        <5>2. \A k : Added(s, k)' <=> Added(s, k)
          BY <3>2, <5>1 DEF Added
        <5>3. \A k : Removed(s, k)' <=> Removed(s, k)
          BY <3>2, <5>1 DEF Removed
        <5> QED
          BY <5>2, <5>3
      <4>2. ListHolds(s)'
        <5>1. \A j \in Causes : DoneAt(j, s, "list")' =>
                DoneAt(j, s, "list") /\ requests'[j] = requests[j]
          BY <3>2 DEF DoneAt, At
        <5> QED
          BY <1>3, <2>1, <5>1 DEF Agrees, KeysAgree, ListHolds
      <4>3. RowsAgree(s)'
        <5>1. \A j \in Causes : ~At(j, s, "list")' => ~At(j, s, "list")
          BY <3>2
        <5>2. server' = server /\ view' = view
          BY <1>3, <1>4
        <5> QED
          BY <2>1, <4>1, <5>1, <5>2 DEF Agrees, KeysAgree, RowsAgree
      <4>4. AddedIsNew(s)
        BY <2>1 DEF Agrees, KeysAgree
      <4>5. AddedIsNew(s)'
        <5> SUFFICES ASSUME NEW j \in Causes, DoneAt(j, s, "add")'
                     PROVE  /\ requests'[j].found \in Listed(server'[s].keys)
                            /\ ~Shows(view'[s].rows, requests'[j].found)
                            /\ \A k \in Causes :
                                 /\ At(k, s, "remove")' => requests'[k].what # requests'[j].found
                                 /\ DoneAt(k, s, "add")' /\ requests'[k].found = requests'[j].found
                                      => k = j
          BY DEF AddedIsNew
        <5>1. DoneAt(j, s, "add") /\ requests'[j] = requests[j]
          BY <3>2 DEF DoneAt, At
        <5>2. \A k \in Causes : At(k, s, "remove")' => requests'[k].what # requests'[j].found
          BY <1>3, <1>4, <2>3, <4>4, <5>1 DEF AddedIsNew, At, Replaced
        <5>3. \A k \in Causes : DoneAt(k, s, "add")' =>
                DoneAt(k, s, "add") /\ requests'[k] = requests[k]
          BY <3>2 DEF DoneAt, At
        <5>4. server' = server /\ view' = view
          BY <1>3, <1>4
        <5> QED
          BY <4>4, <5>1, <5>2, <5>3, <5>4 DEF AddedIsNew
      <4> QED
        BY <4>2, <4>3, <4>5 DEF KeysAgree
    <3> QED
      BY <3>1, <3>3, <3>4 DEF Agrees
  <2> QED
    BY <2>2, <2>3
<1> QED
  BY <1>3, <1>5, <1>7, <1>8 DEF ViewInv

(* A setting is sent; the page, and perhaps the copy, have it already.     *)
LEMMA SetSent ==
  ASSUME ViewInv, NEW r, RequestOK(r), r.pc = "sent", r.op = "set", Send(r),
         UNCHANGED <<selected, live>>,
         view' \in [Servers -> View], cache' \in [Servers -> Config \cup {None}],
         \A t \in Servers \ {r.server} : view'[t] = view[t] /\ cache'[t] = cache[t],
         view'[r.server].page = view[r.server].page,
         view'[r.server].rows = view[r.server].rows,
         view'[r.server].title = view[r.server].title,
         \A x \in Settings \ {r.what, "name"} :
           view'[r.server].set[x] = view[r.server].set[x],
         r.what \in Validated => view'[r.server].set[r.what] = r.value,
         cache'[r.server] = None <=> cache[r.server] = None,
         cache[r.server] # None => \A x \in Settings \ {r.what} :
           cache'[r.server][x] = cache[r.server][x]
  PROVE  ViewInv'
<1>1. TypeOK /\ RequestsOK /\ KeysMade /\ taps \in 0 .. MaxTaps
  BY DEF ViewInv, TypeOK
<1>2. r # None /\ r.server \in Servers /\ r.what \in Settings
  BY RequestFields
<1>3. PICK i \in Causes :
        /\ requests[i] = None /\ Replaced(i, r)
        /\ RequestsOK' /\ taps' \in 0 .. MaxTaps
        /\ UNCHANGED <<server, faults>>
        /\ disturbed' \in {disturbed, disturbed \cup {r.server}}
        /\ r.server \notin disturbed' => ~Disturbs(r, {i})
  BY <1>1, RequestTapped DEF Replaced
<1>4. UNCHANGED <<selected, live>>
  OBVIOUS
<1>5. TypeOK'
  <2>1. \A t \in Servers : view'[t].page = view[t].page
    OBVIOUS
  <2>2. \A t \in Servers : cache[t] # None => cache'[t] # None
    OBVIOUS
  <2>3. \A t \in Servers : view'[t].page = "management" => cache'[t] # None
    BY <1>1, <2>1, <2>2 DEF TypeOK
  <2> QED
    BY <1>1, <1>2, <1>3, <1>4, <2>3, TypeKept DEF TypeOK
<1>6. Known(server', r)
  BY <1>1, <1>2, <1>3 DEF Known, KeysMade
<1>7. KeysMade'
  <2>1. \A s \in Servers : view[s].rows \in Seq(Row)
    BY <1>1, ViewFields
  <2>2. \A s \in Servers : view'[s].rows = view[s].rows
    OBVIOUS
  <2>3. RequestOK(r) /\ Known(server', r) /\ r.op # "remove"
    BY <1>6
  <2>4. \A s \in Servers : \A k : Shows(view'[s].rows, k) => Shows(view[s].rows, k)
    BY <2>2
  <2> QED
    BY <1>1, <1>3, <2>1, <2>3, <2>4, KeysUntouched, KeysMadeKept
<1>8. ASSUME NEW s \in Servers \ disturbed' PROVE Agrees(s)'
  <2>1. s \notin disturbed /\ Agrees(s) /\ server'[s] = server[s]
    BY <1>3, <1>8 DEF ViewInv
  <2>2. CASE r.server # s
    BY <1>3, <2>1, <2>2, ServerKept
  <2>3. CASE r.server = s
    <3>1. Apart(s)'
      BY <1>2, <1>3, <2>1, <2>3, ApartSent DEF Agrees
    <3>2. KeysAgree(s)'
      <4>1. Kept(s, {"list", "add", "remove"})
        BY <1>3, ReplacedKept
      <4> QED
        BY <2>1, <2>3, <4>1, KeysKept DEF Agrees
    <3>3. /\ \A j \in Causes : At(j, s, "config")' <=> At(j, s, "config")
          /\ \A j \in Causes \ {i} : At(j, s, "set")' <=> At(j, s, "set")
          /\ \A j \in Causes \ {i} : requests'[j] = requests[j]
          /\ At(i, s, "set")' /\ requests'[i] = r /\ ~At(i, s, "config")
      BY <1>2, <1>3, <2>3 DEF Replaced, At
    <3>4. \A j \in Causes : At(j, s, "set") => requests[j].what # r.what
      <4>1. ~Disturbs(r, {i})
        BY <1>3, <2>3
      <4>2. ~At(i, s, "set")
        BY <1>3 DEF At
      <4> QED
        BY <2>3, <4>1, <4>2, NotDisturbing
    <3>5. AnswersHold(s)'
      <4>1. AnswersHold(s)
        BY <2>1 DEF Agrees, SettingsAgree
      <4>2. ASSUME NEW j \in Causes
            PROVE  /\ DoneAt(j, s, "config")' => requests'[j].found = server'[s].set
                   /\ DoneAt(j, s, "set")' =>
                        server'[s].set[requests'[j].what] = requests'[j].value
                   /\ At(j, s, "set")' /\ requests'[j].what \in Validated =>
                        view'[s].set[requests'[j].what] = requests'[j].value
        <5>1. CASE j = i
          BY <2>3, <3>3, <5>1 DEF DoneAt, At
        <5>2. CASE j # i
          <6>1. /\ At(j, s, "config")' <=> At(j, s, "config")
                /\ At(j, s, "set")' <=> At(j, s, "set")
                /\ requests'[j] = requests[j]
            BY <3>3, <5>2
          <6>2. At(j, s, "set") /\ requests[j].what \in Validated =>
                  view'[s].set[requests[j].what] = view[s].set[requests[j].what]
            BY <2>3, <3>4 DEF Validated, Settings
          <6> QED
            BY <2>1, <4>1, <6>1, <6>2 DEF AnswersHold, DoneAt
        <5> QED
          BY <5>1, <5>2
      <4> QED
        BY <4>2 DEF AnswersHold
    <3>6. /\ \A x : Setting(s, x) => Setting(s, x)'
          /\ Setting(s, r.what)'
      BY <1>3, <3>3 DEF Setting, At
    <3>7. CopyAgrees(s)'
      <4>1. CopyAgrees(s) /\ \A x \in Settings \ {r.what} :
              cache[s] # None => cache'[s][x] = cache[s][x]
        BY <2>1, <2>3 DEF Agrees, SettingsAgree
      <4>2. cache'[s] # None => cache[s] # None
        BY <2>3
      <4> QED
        BY <2>1, <3>6, <4>1, <4>2 DEF CopyAgrees
    <3>8. PageAgrees(s)'
      BY <2>1, <2>3, <3>6 DEF Agrees, SettingsAgree, PageAgrees
    <3> QED
      BY <3>1, <3>2, <3>5, <3>7, <3>8 DEF Agrees, SettingsAgree
  <2> QED
    BY <2>2, <2>3
<1> QED
  BY <1>3, <1>5, <1>7, <1>8 DEF ViewInv

(* Nothing is sent, and the page changes in what is not compared, or where *)
(* it then agrees.                                                         *)
LEMMA OnlyShown ==
  ASSUME ViewInv, taps' \in taps .. MaxTaps, disturbed \subseteq disturbed',
         disturbed' \subseteq Servers,
         UNCHANGED <<server, cache, requests, faults>>,
         selected' \in Servers, live' \subseteq Servers, view' \in [Servers -> View],
         \A s \in Servers : view'[s].page = view[s].page
                            /\ view'[s].rows = view[s].rows,
         \A s \in Servers \ disturbed' :
           /\ view'[s].title = view[s].title
           /\ \A x \in Settings \ {"name"} :
                \/ view'[s].set[x] = view[s].set[x]
                \/ x = "limit" /\ view'[s].set[x] = cache[s][x] /\ cache[s] # None
  PROVE  ViewInv'
<1>1. TypeOK /\ RequestsOK /\ KeysMade /\ taps \in 0 .. MaxTaps
  BY DEF ViewInv, TypeOK
<1>2. taps' \in 0 .. MaxTaps /\ taps' \in Nat /\ taps \in Nat /\ taps' >= taps
  BY <1>1, ManagementAssumption
<1>3. RequestsOK'
  BY <1>1, <1>2, RequestsUntouched
<1>4. TypeOK'
  BY <1>1, <1>2, <1>3, TypeKept DEF TypeOK
<1>5. KeysMade'
  BY <1>1 DEF KeysMade, RemoveDone
<1>6. ASSUME NEW s \in Servers \ disturbed' PROVE Agrees(s)'
  <2>1. Agrees(s) /\ server'[s] = server[s]
    BY <1>6 DEF ViewInv
  <2>2. /\ \A j \in Causes : requests'[j] = requests[j]
        /\ \A j \in Causes : \A op : At(j, s, op)' <=> At(j, s, op)
    BY DEF At
  <2>3. Apart(s)'
    BY <2>1, <2>2 DEF Agrees, Apart
  <2>4. KeysAgree(s)'
    <3>1. Kept(s, {"list", "add", "remove"})
      BY <2>2 DEF Kept
    <3> QED
      BY <2>1, <3>1, KeysKept DEF Agrees
  <2>5. \A x : Setting(s, x)' <=> Setting(s, x)
    BY <2>2 DEF Setting
  <2>6. AnswersHold(s)'
    <3>1. AnswersHold(s)
      BY <2>1 DEF Agrees, SettingsAgree
    <3>2. \A x \in Validated : view'[s].set[x] = view[s].set[x]
      BY <1>6 DEF Validated, Settings
    <3> QED
      BY <2>1, <2>2, <3>1, <3>2 DEF AnswersHold, DoneAt
  <2>7. CopyAgrees(s)'
    BY <2>1, <2>5 DEF Agrees, SettingsAgree, CopyAgrees
  <2>8. PageAgrees(s)'
    <3>1. CopyAgrees(s) /\ PageAgrees(s)
      BY <2>1 DEF Agrees, SettingsAgree
    <3>2. "limit" \in Settings
      BY DEF Settings
    <3> QED
      BY <1>6, <2>1, <2>5, <3>1, <3>2 DEF CopyAgrees, PageAgrees
  <2> QED
    BY <2>3, <2>4, <2>6, <2>7, <2>8 DEF Agrees, SettingsAgree
<1> QED
  BY <1>3, <1>4, <1>5, <1>6 DEF ViewInv

(* One view is replaced.                                                   *)
LEMMA ViewPut ==
  ASSUME TypeOK, NEW s \in Servers, NEW w \in View, view' = [view EXCEPT ![s] = w]
  PROVE  /\ view' \in [Servers -> View] /\ view'[s] = w
         /\ \A t \in Servers \ {s} : view'[t] = view[t]
BY DEF TypeOK

(* A setting is shown as the user changed it.                              *)
LEMMA SettingShown ==
  ASSUME NEW w \in View, NEW x \in Settings, NEW v \in Values \cup {None}
  PROVE  LET u == [w EXCEPT !.set[x] = v] IN
         /\ u \in View /\ u.page = w.page /\ u.rows = w.rows /\ u.title = w.title
         /\ u.saved = w.saved /\ u.set[x] = v
         /\ \A y \in Settings \ {x} : u.set[y] = w.set[y]
<1> DEFINE u == [w EXCEPT !.set[x] = v]
           c == [w.set EXCEPT ![x] = v]
<1>1. w.set \in Shown
  BY DEF View
<1>2. c \in Shown /\ c[x] = v /\ \A y \in Settings \ {x} : c[y] = w.set[y]
  BY <1>1 DEF Shown
<1>3. u = [w EXCEPT !.set = c]
  BY DEF View
<1> HIDE DEF c
<1>4. u \in View /\ u.page = w.page /\ u.rows = w.rows /\ u.title = w.title
      /\ u.saved = w.saved /\ u.set = c
  BY <1>2, <1>3 DEF View
<1> QED
  BY <1>2, <1>4

(* The copy of a server is replaced.                                       *)
LEMMA CopyPut ==
  ASSUME TypeOK, NEW s \in Servers, NEW c \in Config, cache' = [cache EXCEPT ![s] = c]
  PROVE  /\ cache' \in [Servers -> Config \cup {None}] /\ cache'[s] = c
         /\ \A t \in Servers \ {s} : cache'[t] = cache[t]
BY DEF TypeOK

LEMMA TapTaken ==
  ASSUME TypeOK, Tap PROVE taps' \in taps .. MaxTaps
BY ManagementAssumption DEF TypeOK, Tap

LEMMA ShowServerStep ==
  ASSUME ViewInv, NEW s \in Servers, ShowServer(s) PROVE ViewInv'
<1>1. UNCHANGED <<server, cache, view, requests, live, disturbed, taps, faults>>
  BY DEF ShowServer
<1>2. /\ selected' \in Servers /\ live \subseteq Servers /\ view \in [Servers -> View]
      /\ disturbed \subseteq Servers /\ taps \in taps .. MaxTaps
  BY ManagementAssumption DEF ShowServer, ViewInv, TypeOK
<1> QED
  BY <1>1, <1>2, OnlyShown

LEMMA RetryStep ==
  ASSUME ViewInv, NEW s \in Servers, RetryDisplayingServer(s) PROVE ViewInv'
<1> DEFINE r == NewRequest("config", s, s, None, None)
<1>1. "config" \in Operations /\ None \in Subjects("config") /\ None \in Values \cup {None}
  BY DEF Operations, Subjects
<1>2. RequestOK(r) /\ r.op = "config" /\ r.server = s /\ r.pc = "sent"
  BY <1>1, RequestSent
<1>3. Send(r) /\ UNCHANGED manager
  BY DEF RetryDisplayingServer
<1> HIDE DEF r
<1> QED
  BY <1>2, <1>3, OnlySent

LEMMA AddStep ==
  ASSUME ViewInv, NEW s \in Servers, AddAccessKey(s) PROVE ViewInv'
<1> DEFINE r == NewRequest("add", s, s, None, None)
<1>1. "add" \in Operations /\ None \in Subjects("add") /\ None \in Values \cup {None}
  BY DEF Operations, Subjects
<1>2. RequestOK(r) /\ r.op = "add" /\ r.server = s /\ r.pc = "sent"
  BY <1>1, RequestSent
<1>3. Send(r) /\ UNCHANGED manager
  BY DEF AddAccessKey
<1> HIDE DEF r
<1> QED
  BY <1>2, <1>3, OnlySent

LEMMA KeyStep ==
  ASSUME ViewInv, NEW s \in Servers, NEW k \in Keys, NEW v \in Values,
         RemoveAccessKey(s, k) \/ SavePerKeyDataLimit(s, k, v)
  PROVE  ViewInv'
<1>1. Shows(view[s].rows, k) /\ UNCHANGED manager
  BY DEF RemoveAccessKey, SavePerKeyDataLimit, Shows
<1>2. ASSUME NEW op \in {"remove", "keyLimit"}, NEW value \in Values \cup {None},
             Send(NewRequest(op, s, s, k, value))
      PROVE  ViewInv'
  <2> DEFINE r == NewRequest(op, s, s, k, value)
  <2>1. op \in Operations /\ k \in Subjects(op) /\ op # "set"
    BY DEF Operations, Subjects
  <2>2. RequestOK(r) /\ r.op = op /\ r.server = s /\ r.what = k /\ r.pc = "sent"
    BY <2>1, RequestSent
  <2>3. Send(r)
    BY <1>2
  <2> HIDE DEF r
  <2> QED
    BY <1>1, <2>2, <2>3, OnlySent
<1> QED
  BY <1>2 DEF RemoveAccessKey, SavePerKeyDataLimit

LEMMA RenameStep ==
  ASSUME ViewInv, NEW s \in Servers, NEW v \in Values, RenameServer(s, v)
  PROVE  ViewInv'
<1>1. TypeOK /\ view[s] \in View
  BY ViewFields DEF ViewInv
<1>2. PICK n \in {view[s].initial, view[s].title} :
        /\ view' = [view EXCEPT ![s].set["name"] = v, ![s].initial = n]
        /\ IF v # n THEN Send(NewRequest("set", s, s, "name", v))
           ELSE Tap /\ UNCHANGED <<server, requests, disturbed, faults>>
  BY DEF RenameServer
<1>3. UNCHANGED <<cache, selected, live>>
  BY DEF RenameServer
<1> DEFINE w == [view[s] EXCEPT !.set["name"] = v]
           u == [w EXCEPT !.initial = n]
<1>4. view' = [view EXCEPT ![s] = u]
  BY <1>1, <1>2 DEF TypeOK
<1>5. n \in Values \cup {None} /\ "name" \in Settings /\ v \in Values \cup {None}
  BY <1>1, ViewFields DEF Settings
<1>6. /\ w \in View /\ w.page = view[s].page /\ w.rows = view[s].rows
      /\ w.title = view[s].title
      /\ \A y \in Settings \ {"name"} : w.set[y] = view[s].set[y]
  BY <1>1, <1>5, SettingShown
<1> HIDE DEF w
<1>11. /\ u \in View /\ u.page = view[s].page /\ u.rows = view[s].rows
       /\ u.title = view[s].title
       /\ \A y \in Settings \ {"name"} : u.set[y] = view[s].set[y]
  BY <1>5, <1>6 DEF View
<1> HIDE DEF u
<1>7. view' \in [Servers -> View] /\ view'[s] = u
      /\ \A t \in Servers \ {s} : view'[t] = view[t]
  BY <1>1, <1>4, <1>11, ViewPut
<1>8. cache' \in [Servers -> Config \cup {None}] /\ selected \in Servers
      /\ live \subseteq Servers /\ disturbed \subseteq Servers
  BY <1>1, <1>3 DEF TypeOK
<1>9. CASE v # n
  <2> DEFINE r == NewRequest("set", s, s, "name", v)
  <2>1. "set" \in Operations /\ "name" \in Subjects("set")
    BY DEF Operations, Subjects, Settings
  <2>2. RequestOK(r) /\ r.op = "set" /\ r.server = s /\ r.what = "name" /\ r.pc = "sent"
    BY <1>5, <2>1, RequestSent
  <2>3. Send(r)
    BY <1>2, <1>9
  <2>4. r.what \notin Validated
    BY <2>2 DEF Validated
  <2> HIDE DEF r
  <2>5. /\ \A t \in Servers \ {r.server} : view'[t] = view[t] /\ cache'[t] = cache[t]
        /\ view'[r.server].page = view[r.server].page
        /\ view'[r.server].rows = view[r.server].rows
        /\ view'[r.server].title = view[r.server].title
        /\ \A x \in Settings \ {r.what, "name"} :
             view'[r.server].set[x] = view[r.server].set[x]
        /\ cache'[r.server] = None <=> cache[r.server] = None
        /\ cache[r.server] # None => \A x \in Settings \ {r.what} :
             cache'[r.server][x] = cache[r.server][x]
    BY <1>3, <1>7, <1>11, <2>2
  <2> QED
    BY <1>3, <1>7, <1>8, <2>2, <2>3, <2>4, <2>5, SetSent
<1>10. CASE v = n
  <2>1. taps' \in taps .. MaxTaps /\ UNCHANGED <<server, requests, disturbed, faults>>
    BY <1>1, <1>2, <1>10, TapTaken
  <2>2. \A t \in Servers : /\ view'[t].page = view[t].page /\ view'[t].rows = view[t].rows
                           /\ view'[t].title = view[t].title
                           /\ \A x \in Settings \ {"name"} : view'[t].set[x] = view[t].set[x]
    BY <1>7, <1>11
  <2> QED
    BY <1>3, <1>7, <1>8, <2>1, <2>2, OnlyShown
<1> QED
  BY <1>9, <1>10

LEMMA MetricsStep ==
  ASSUME ViewInv, NEW s \in Servers, NEW v \in Values, SetMetricsEnabled(s, v)
  PROVE  ViewInv'
<1>1. TypeOK /\ view[s] \in View
  BY ViewFields DEF ViewInv
<1> DEFINE u == [view[s] EXCEPT !.set["metrics"] = v]
           r == NewRequest("set", s, s, "metrics", v)
<1>2. /\ view' = [view EXCEPT ![s] = u] /\ Send(r)
      /\ UNCHANGED <<cache, selected, live>>
  BY <1>1 DEF SetMetricsEnabled, TypeOK
<1>3. "metrics" \in Settings /\ v \in Values \cup {None}
  BY DEF Settings
<1>4. /\ u \in View /\ u.page = view[s].page /\ u.rows = view[s].rows
      /\ u.title = view[s].title
      /\ \A y \in Settings \ {"metrics"} : u.set[y] = view[s].set[y]
  BY <1>1, <1>3, SettingShown
<1>5. "set" \in Operations /\ "metrics" \in Subjects("set")
  BY DEF Operations, Subjects, Settings
<1>6. RequestOK(r) /\ r.op = "set" /\ r.server = s /\ r.what = "metrics" /\ r.pc = "sent"
  BY <1>3, <1>5, RequestSent
<1> HIDE DEF u, r
<1>7. view' \in [Servers -> View] /\ view'[s] = u
      /\ \A t \in Servers \ {s} : view'[t] = view[t]
  BY <1>1, <1>2, <1>4, ViewPut
<1>8. cache' \in [Servers -> Config \cup {None}] /\ r.what \notin Validated
  BY <1>1, <1>2, <1>6 DEF TypeOK, Validated
<1>9. /\ \A t \in Servers \ {r.server} : view'[t] = view[t] /\ cache'[t] = cache[t]
      /\ view'[r.server].page = view[r.server].page
      /\ view'[r.server].rows = view[r.server].rows
      /\ view'[r.server].title = view[r.server].title
      /\ \A x \in Settings \ {r.what, "name"} :
           view'[r.server].set[x] = view[r.server].set[x]
      /\ cache'[r.server] = None <=> cache[r.server] = None
      /\ cache[r.server] # None => \A x \in Settings \ {r.what} :
           cache'[r.server][x] = cache[r.server][x]
  BY <1>2, <1>4, <1>6, <1>7
<1> QED
  BY <1>2, <1>6, <1>7, <1>8, <1>9, SetSent

LEMMA DefaultLimitStep ==
  ASSUME ViewInv, NEW s \in Servers, NEW v \in Values, SetDefaultDataLimit(s, v)
  PROVE  ViewInv'
<1>1. TypeOK /\ view[s] \in View
  BY ViewFields DEF ViewInv
<1>2. cache[s] # None /\ cache[s] \in Config
  BY <1>1, ViewFields DEF SetDefaultDataLimit, TypeOK
<1>3. "limit" \in Settings /\ v \in Values \cup {None} /\ cache[s]["limit"] \in Values
  BY <1>2 DEF Settings, Config
<1> DEFINE u == [view[s] EXCEPT !.set["limit"] = v]
           q == NewRequest("set", s, s, "limit", v)
           r == [q EXCEPT !.prev = cache[s]["limit"]]
<1>4. /\ view' = [view EXCEPT ![s] = u]
      /\ UNCHANGED <<cache, selected, live>>
  BY <1>1 DEF SetDefaultDataLimit, TypeOK
<1>5. /\ u \in View /\ u.page = view[s].page /\ u.rows = view[s].rows
      /\ u.title = view[s].title /\ u.set["limit"] = v
      /\ \A y \in Settings \ {"limit"} : u.set[y] = view[s].set[y]
  BY <1>1, <1>3, SettingShown
<1>6. "set" \in Operations /\ "limit" \in Subjects("set")
  BY DEF Operations, Subjects, Settings
<1>7. RequestOK(q) /\ q.op = "set" /\ q.server = s /\ q.what = "limit" /\ q.pc = "sent"
  BY <1>3, <1>6, RequestSent
<1>8. \/ v = cache[s]["limit"] /\ Tap /\ UNCHANGED <<server, requests, disturbed, faults>>
      \/ Send(r)
  BY DEF SetDefaultDataLimit
<1> HIDE DEF u, q
<1>9. view' \in [Servers -> View] /\ view'[s] = u
      /\ \A t \in Servers \ {s} : view'[t] = view[t]
  BY <1>1, <1>4, <1>5, ViewPut
<1>10. cache' \in [Servers -> Config \cup {None}] /\ selected \in Servers
      /\ live \subseteq Servers /\ disturbed \subseteq Servers
  BY <1>1, <1>4 DEF TypeOK
<1>11. CASE Send(r)
  <2>1. q \in Request("set") /\ (q.waits => q.op = "config") /\ q.value \in Values
    BY <1>7 DEF RequestOK
  <2>2. /\ r.op = "set" /\ r.server = s /\ r.what = "limit" /\ r.pc = "sent"
        /\ r.waits = q.waits /\ r.value = q.value
    BY <1>7, <2>1 DEF Request
  <2>3. r \in Request("set")
    BY <1>3, <2>1 DEF Request
  <2> HIDE DEF r
  <2>4. RequestOK(r)
    BY <1>6, <1>7, <2>1, <2>2, <2>3 DEF RequestOK
  <2>5. r.what \notin Validated
    BY <2>2 DEF Validated
  <2>6. /\ \A t \in Servers \ {r.server} : view'[t] = view[t] /\ cache'[t] = cache[t]
        /\ view'[r.server].page = view[r.server].page
        /\ view'[r.server].rows = view[r.server].rows
        /\ view'[r.server].title = view[r.server].title
        /\ \A x \in Settings \ {r.what, "name"} :
             view'[r.server].set[x] = view[r.server].set[x]
        /\ cache'[r.server] = None <=> cache[r.server] = None
        /\ cache[r.server] # None => \A x \in Settings \ {r.what} :
             cache'[r.server][x] = cache[r.server][x]
    BY <1>4, <1>5, <1>9, <2>2
  <2>7. Send(r)
    BY <1>11
  <2> QED
    BY <1>4, <1>9, <1>10, <2>2, <2>4, <2>5, <2>6, <2>7, SetSent
<1>12. CASE v = cache[s]["limit"] /\ Tap /\ UNCHANGED <<server, requests, disturbed, faults>>
  <2>1. taps' \in taps .. MaxTaps
    BY <1>1, <1>12, TapTaken
  <2>2. \A t \in Servers :
          /\ view'[t].page = view[t].page /\ view'[t].rows = view[t].rows
          /\ view'[t].title = view[t].title
          /\ \A x \in Settings \ {"name"} :
               \/ view'[t].set[x] = view[t].set[x]
               \/ x = "limit" /\ view'[t].set[x] = cache[t][x] /\ cache[t] # None
    BY <1>2, <1>5, <1>9, <1>12
  <2> QED
    BY <1>4, <1>9, <1>10, <1>12, <2>1, <2>2, OnlyShown
<1> QED
  BY <1>8, <1>11, <1>12

LEMMA ValidatedStep ==
  ASSUME ViewInv, NEW s \in Servers, NEW x \in Validated, NEW v \in Values,
         SetValidated(s, x, v)
  PROVE  ViewInv'
<1>1. TypeOK /\ view[s] \in View /\ x \in Settings /\ x # "name"
  BY ViewFields DEF ViewInv, Settings, Validated
<1>2. cache[s] # None /\ cache[s] \in Config
  BY <1>1, ViewFields DEF SetValidated, TypeOK
<1> DEFINE u == [view[s] EXCEPT !.set[x] = v]
           c == IF x = "host" THEN [cache[s] EXCEPT !["host"] = v] ELSE cache[s]
           r == NewRequest("set", s, s, x, v)
<1>3. /\ view' = [view EXCEPT ![s] = u] /\ Send(r)
      /\ UNCHANGED <<selected, live>>
  BY <1>1 DEF SetValidated, TypeOK
<1>4. cache' = [cache EXCEPT ![s] = c]
  <2>1. cache \in [Servers -> Config \cup {None}]
    BY <1>1 DEF TypeOK
  <2>2. cache' = IF x = "host" THEN [cache EXCEPT ![s] = [cache[s] EXCEPT !["host"] = v]]
                 ELSE cache
    BY <2>1 DEF SetValidated, SetHostname
  <2> QED
    BY <2>1, <2>2
<1>5. c \in Config /\ \A y \in Settings \ {x} : c[y] = cache[s][y]
  BY <1>2 DEF Config
<1>6. v \in Values \cup {None} /\ "set" \in Operations /\ x \in Subjects("set")
  BY <1>1 DEF Operations, Subjects
<1>7. /\ u \in View /\ u.page = view[s].page /\ u.rows = view[s].rows
      /\ u.title = view[s].title /\ u.set[x] = v
      /\ \A y \in Settings \ {x} : u.set[y] = view[s].set[y]
  BY <1>1, <1>6, SettingShown
<1>8. RequestOK(r) /\ r.op = "set" /\ r.server = s /\ r.what = x /\ r.value = v
      /\ r.pc = "sent"
  BY <1>6, RequestSent
<1> HIDE DEF u, c, r
<1>9. view' \in [Servers -> View] /\ view'[s] = u
      /\ \A t \in Servers \ {s} : view'[t] = view[t]
  BY <1>1, <1>3, <1>7, ViewPut
<1>10. cache' \in [Servers -> Config \cup {None}] /\ cache'[s] = c
      /\ \A t \in Servers \ {s} : cache'[t] = cache[t]
  BY <1>1, <1>4, <1>5, CopyPut
<1>11. c # None
  BY <1>5, NoneAssumption
<1>12. /\ \A t \in Servers \ {r.server} : view'[t] = view[t] /\ cache'[t] = cache[t]
       /\ view'[r.server].page = view[r.server].page
       /\ view'[r.server].rows = view[r.server].rows
       /\ view'[r.server].title = view[r.server].title
       /\ \A y \in Settings \ {r.what, "name"} :
            view'[r.server].set[y] = view[r.server].set[y]
       /\ view'[r.server].set[r.what] = r.value
       /\ cache'[r.server] = None <=> cache[r.server] = None
       /\ \A y \in Settings \ {r.what} : cache'[r.server][y] = cache[r.server][y]
  BY <1>2, <1>5, <1>7, <1>8, <1>9, <1>10, <1>11
<1> QED
  BY <1>3, <1>8, <1>9, <1>10, <1>12, SetSent

LEMMA CancelStep ==
  ASSUME ViewInv, NEW s \in Servers, NEW x \in Validated, CancelInput(s, x)
  PROVE  ViewInv'
<1>1. TypeOK /\ view[s] \in View /\ x \in Settings
  BY ViewFields DEF ViewInv, Settings
<1> DEFINE v == view[s].saved[x]
           u == [view[s] EXCEPT !.set[x] = v]
<1>2. /\ view' = [view EXCEPT ![s] = u] /\ Tap
      /\ disturbed' = disturbed \cup {s}
      /\ UNCHANGED <<server, cache, selected, requests, live, faults>>
  BY <1>1 DEF CancelInput, TypeOK
<1>3. v \in Values \cup {None}
  BY <1>1, ViewFields
<1>4. u \in View /\ u.page = view[s].page /\ u.rows = view[s].rows
  BY <1>1, <1>3, SettingShown
<1> HIDE DEF u
<1>5. view' \in [Servers -> View] /\ view'[s] = u
      /\ \A t \in Servers \ {s} : view'[t] = view[t]
  BY <1>1, <1>2, <1>4, ViewPut
<1>6. selected \in Servers /\ live \subseteq Servers /\ disturbed' \subseteq Servers
      /\ disturbed \subseteq disturbed' /\ taps' \in taps .. MaxTaps
  BY <1>1, <1>2, TapTaken DEF TypeOK
<1>7. /\ \A t \in Servers : view'[t].page = view[t].page /\ view'[t].rows = view[t].rows
      /\ \A t \in Servers \ disturbed' : view'[t] = view[t]
  BY <1>2, <1>4, <1>5
<1> QED
  BY <1>2, <1>5, <1>6, <1>7, OnlyShown

LEMMA UserStep ==
  ASSUME ViewInv, User PROVE ViewInv'
<1>1. PICK s \in Servers :
        \/ ShowServer(s) \/ RetryDisplayingServer(s) \/ AddAccessKey(s)
        \/ \E k \in Keys :
             RemoveAccessKey(s, k) \/ \E v \in Values : SavePerKeyDataLimit(s, k, v)
        \/ \E v \in Values :
             \/ RenameServer(s, v) \/ SetMetricsEnabled(s, v)
             \/ SetDefaultDataLimit(s, v)
             \/ \E x \in Validated : SetValidated(s, x, v)
        \/ \E x \in Validated : CancelInput(s, x)
  BY DEF User
<1>2. CASE ShowServer(s) \/ RetryDisplayingServer(s) \/ AddAccessKey(s)
  BY <1>2, ShowServerStep, RetryStep, AddStep
<1>3. ASSUME NEW k \in Keys,
             RemoveAccessKey(s, k) \/ \E v \in Values : SavePerKeyDataLimit(s, k, v)
      PROVE  ViewInv'
  <2>1. \E v \in Values : RemoveAccessKey(s, k) \/ SavePerKeyDataLimit(s, k, v)
    BY <1>3 DEF Values
  <2> QED
    BY <2>1, KeyStep
<1>4. ASSUME NEW v \in Values,
             RenameServer(s, v) \/ SetMetricsEnabled(s, v) \/ SetDefaultDataLimit(s, v)
      PROVE  ViewInv'
  BY <1>4, RenameStep, MetricsStep, DefaultLimitStep
<1>5. ASSUME NEW v \in Values, NEW x \in Validated, SetValidated(s, x, v)
      PROVE  ViewInv'
  BY <1>5, ValidatedStep
<1>6. ASSUME NEW x \in Validated, CancelInput(s, x) PROVE ViewInv'
  BY <1>6, CancelStep
<1> QED
  BY <1>1, <1>2, <1>3, <1>4, <1>5, <1>6

----------------------------------------------------------------------------
(* What the server does.                                                   *)
Executed(i, r) ==
  LET q == requests[i] IN
  /\ Replaced(i, r) /\ q # None /\ q.pc = "sent" /\ r # None
  /\ r.op = q.op /\ r.server = q.server /\ r.what = q.what /\ r.value = q.value

LEMMA ExecutedAt ==
  ASSUME NEW i \in Causes, NEW r, Executed(i, r), NEW s
  PROVE  /\ \A j \in Causes : \A op : At(j, s, op)' <=> At(j, s, op)
         /\ \A op : ~DoneAt(i, s, op)
         /\ requests'[i] = r
         /\ \A j \in Causes \ {i} :
              /\ requests'[j] = requests[j]
              /\ \A op : DoneAt(j, s, op)' <=> DoneAt(j, s, op)
         /\ \A j \in Causes : At(j, s, "set") \/ At(j, s, "remove") =>
              /\ requests'[j].what = requests[j].what
              /\ requests'[j].value = requests[j].value
         /\ \A x : Setting(s, x)' <=> Setting(s, x)
<1>1. /\ \A j \in Causes : \A op : At(j, s, op)' <=> At(j, s, op)
      /\ \A op : ~DoneAt(i, s, op)
  BY DEF Executed, Replaced, At, DoneAt
<1>2. requests'[i] = r /\ \A j \in Causes \ {i} : requests'[j] = requests[j]
  BY DEF Executed, Replaced
<1>3. \A j \in Causes \ {i} : \A op : DoneAt(j, s, op)' <=> DoneAt(j, s, op)
  BY <1>1, <1>2 DEF DoneAt
<1>4. \A j \in Causes : At(j, s, "set") \/ At(j, s, "remove") =>
        /\ requests'[j].what = requests[j].what
        /\ requests'[j].value = requests[j].value
  BY <1>2 DEF Executed
<1>5. \A x : Setting(s, x)' <=> Setting(s, x)
  BY <1>1, <1>4 DEF Setting
<1> QED
  BY <1>1, <1>2, <1>3, <1>4, <1>5

LEMMA ExecutedKept ==
  ASSUME NEW i \in Causes, NEW r, Executed(i, r), NEW s, NEW ops, r.op \notin ops
  PROVE  Kept(s, ops)
<1>1. Replaced(i, r) /\ requests[i].op \notin ops
  BY DEF Executed
<1> QED
  BY <1>1, ReplacedKept

(* What is common to all requests.                                         *)
LEMMA ExecutedStep ==
  ASSUME ViewInv, NEW i \in Causes, NEW r, RequestOK(r), Executed(i, r),
         requests' = [requests EXCEPT ![i] = r],
         UNCHANGED <<manager, disturbed, taps, faults>>,
         server' \in [Servers -> [set : Config, keys : KeyStates]],
         \A t \in Servers \ {r.server} : server'[t] = server[t],
         KeysGrow, Known(server', r),
         r.op = "remove" /\ r.pc = "done" =>
           \A j \in Causes \ {i} : RemoveDone(j) =>
             requests[j].server # r.server \/ requests[j].what # r.what,
         r.server \notin disturbed => SettingsAgree(r.server)' /\ KeysAgree(r.server)'
  PROVE  ViewInv'
<1>1. TypeOK /\ RequestsOK /\ KeysMade /\ taps \in 0 .. MaxTaps
  BY DEF ViewInv, TypeOK
<1>2. UNCHANGED <<cache, view, selected, live, disturbed, taps, faults>>
  BY DEF manager
<1>3. taps' \in taps .. MaxTaps /\ requests[i] # None
  BY <1>1, <1>2, ManagementAssumption DEF Executed
<1>4. RequestsOK'
  BY <1>1, <1>3, RequestPut
<1>5. TypeOK'
  BY <1>1, <1>2, <1>4, TypeKept DEF TypeOK
<1>6. Replaced(i, r)
  BY DEF Executed
<1>7. KeysMade'
  <2>1. \A s \in Servers : view[s].rows \in Seq(Row)
    BY <1>1, ViewFields
  <2> QED
    BY <1>1, <1>2, <1>6, <2>1, KeysMadeKept
<1>8. ASSUME NEW s \in Servers \ disturbed' PROVE Agrees(s)'
  <2>1. s \notin disturbed /\ Agrees(s)
    BY <1>2, <1>8 DEF ViewInv
  <2>2. CASE r.server # s
    <3>1. server'[s] = server[s] /\ requests[i].server # s
      BY <2>2 DEF Executed
    <3> QED
      BY <1>2, <1>6, <2>1, <2>2, <3>1, ServerKept
  <2>3. CASE r.server = s
    <3>1. Fewer(s)
      BY <1>6, <2>3, ReplacedFewer DEF Executed
    <3> QED
      BY <2>1, <2>3, <3>1, ApartFewer DEF Agrees
  <2> QED
    BY <2>2, <2>3
<1> QED
  BY <1>4, <1>5, <1>7, <1>8 DEF ViewInv

(* The configuration, the keys or the stats are asked for.                 *)
LEMMA ConfigExecuted ==
  ASSUME NEW i \in Causes, NEW r, Executed(i, r), NEW s, r.server = s,
         SettingsAgree(s), KeysAgree(s), UNCHANGED <<server, cache, view>>,
         r.op = "config", r.found = server[s].set
  PROVE  SettingsAgree(s)' /\ KeysAgree(s)'
<1>1. KeysAgree(s)'
  <2>1. Kept(s, {"list", "add", "remove"})
    BY ExecutedKept
  <2> QED
    BY <2>1, KeysKept
<1>2. AnswersHold(s)'
  BY ExecutedAt DEF SettingsAgree, AnswersHold, DoneAt, At
<1>3. CopyAgrees(s)' /\ PageAgrees(s)'
  BY ExecutedAt DEF SettingsAgree, CopyAgrees, PageAgrees
<1> QED
  BY <1>1, <1>2, <1>3 DEF SettingsAgree

LEMMA ListExecuted ==
  ASSUME NEW i \in Causes, NEW r, Executed(i, r), NEW s, r.server = s,
         SettingsAgree(s), KeysAgree(s), UNCHANGED <<server, cache, view>>,
         r.op = "list", r.found = server[s].keys
  PROVE  SettingsAgree(s)' /\ KeysAgree(s)'
<1>1. SettingsAgree(s)'
  <2>1. Kept(s, {"config", "set"})
    BY ExecutedKept
  <2> QED
    BY <2>1, SettingsKept
<1>2. /\ \A j \in Causes : \A op : At(j, s, op)' <=> At(j, s, op)
      /\ requests'[i] = r /\ \A op : ~DoneAt(i, s, op)
      /\ \A j \in Causes \ {i} :
           /\ requests'[j] = requests[j]
           /\ \A op : DoneAt(j, s, op)' <=> DoneAt(j, s, op)
  BY ExecutedAt
<1>3. At(i, s, "list")' /\ ~DoneAt(i, s, "add")' /\ ~DoneAt(i, s, "remove")'
      /\ ~At(i, s, "remove")
  BY <1>2 DEF Executed, DoneAt, At
<1>4. ListHolds(s)'
  BY <1>2 DEF KeysAgree, ListHolds
<1>5. \A k : (Added(s, k)' <=> Added(s, k)) /\ (Removed(s, k)' <=> Removed(s, k))
  BY <1>2, <1>3 DEF Added, Removed
<1>6. AddedIsNew(s)'
  <2>1. AddedIsNew(s) /\ view' = view /\ server' = server
    BY DEF KeysAgree
  <2>2. \A j \in Causes : DoneAt(j, s, "add")' => DoneAt(j, s, "add") /\ requests'[j] = requests[j]
    BY <1>2, <1>3
  <2>3. \A j \in Causes : At(j, s, "remove")' => At(j, s, "remove") /\ requests'[j] = requests[j]
    BY <1>2, <1>3
  <2> QED
    BY <2>1, <2>2, <2>3 DEF AddedIsNew
<1>7. RowsAgree(s)'
  BY <1>2, <1>5 DEF KeysAgree, RowsAgree
<1> QED
  BY <1>1, <1>4, <1>6, <1>7 DEF KeysAgree

(* Requests that neither change the settings nor the set of keys.          *)
LEMMA OtherExecuted ==
  ASSUME NEW i \in Causes, NEW r, Executed(i, r), NEW s, r.server = s,
         SettingsAgree(s), KeysAgree(s), UNCHANGED <<cache, view>>,
         r.op \in {"stats", "keyLimit"},
         server'[s].set = server[s].set,
         Listed(server'[s].keys) = Listed(server[s].keys)
  PROVE  SettingsAgree(s)' /\ KeysAgree(s)'
<1>1. Kept(s, {"config", "set"}) /\ Kept(s, {"list", "add", "remove"})
  BY ExecutedKept
<1> QED
  BY <1>1, SettingsKept, KeysKept

LEMMA RemoveRejected ==
  ASSUME NEW i \in Causes, NEW r, Executed(i, r), NEW s, r.server = s,
         SettingsAgree(s), KeysAgree(s), UNCHANGED <<server, cache, view>>,
         r.op = "remove", r.pc = "rejected"
  PROVE  SettingsAgree(s)' /\ KeysAgree(s)'
<1>1. SettingsAgree(s)'
  <2>1. Kept(s, {"config", "set"})
    BY ExecutedKept
  <2> QED
    BY <2>1, SettingsKept
<1>2. /\ \A j \in Causes : \A op : At(j, s, op)' <=> At(j, s, op)
      /\ requests'[i] = r /\ \A op : ~DoneAt(i, s, op)
      /\ \A j \in Causes \ {i} :
           /\ requests'[j] = requests[j]
           /\ \A op : DoneAt(j, s, op)' <=> DoneAt(j, s, op)
      /\ \A j \in Causes : At(j, s, "remove") => requests'[j].what = requests[j].what
  BY ExecutedAt
<1>3. \A op : ~DoneAt(i, s, op)'
  BY <1>2 DEF DoneAt
<1>4. ListHolds(s)'
  BY <1>2, <1>3 DEF KeysAgree, ListHolds
<1>5. \A k : (Added(s, k)' <=> Added(s, k)) /\ (Removed(s, k)' <=> Removed(s, k))
  BY <1>2, <1>3 DEF Added, Removed
<1>6. AddedIsNew(s)'
  <2>1. AddedIsNew(s) /\ view' = view /\ server' = server
    BY DEF KeysAgree
  <2>2. \A j \in Causes : DoneAt(j, s, "add")' => DoneAt(j, s, "add") /\ requests'[j] = requests[j]
    BY <1>2, <1>3
  <2> QED
    BY <1>2, <2>1, <2>2 DEF AddedIsNew
<1>7. RowsAgree(s)'
  BY <1>2, <1>5 DEF KeysAgree, RowsAgree
<1> QED
  BY <1>1, <1>4, <1>6, <1>7 DEF KeysAgree

(* A setting is changed.                                                   *)
LEMMA SetExecuted ==
  ASSUME NEW i \in Causes, NEW r, Executed(i, r), NEW s, r.server = s,
         Agrees(s), UNCHANGED <<cache, view>>, r.op = "set",
         server[s].set \in Config, r.what \in Settings,
         server'[s].keys = server[s].keys,
         server'[s].set = [server[s].set EXCEPT ![r.what] = r.value]
  PROVE  SettingsAgree(s)' /\ KeysAgree(s)'
<1>1. KeysAgree(s)'
  <2>1. Kept(s, {"list", "add", "remove"})
    BY ExecutedKept
  <2> QED
    BY <2>1, KeysKept DEF Agrees
<1>2. /\ server'[s].set[r.what] = r.value
      /\ \A x \in Settings \ {r.what} : server'[s].set[x] = server[s].set[x]
  BY DEF Config
<1>3. /\ \A j \in Causes : \A op : At(j, s, op)' <=> At(j, s, op)
      /\ requests'[i] = r
      /\ \A j \in Causes \ {i} :
           /\ requests'[j] = requests[j]
           /\ \A op : DoneAt(j, s, op)' <=> DoneAt(j, s, op)
      /\ \A j \in Causes : At(j, s, "set") =>
           /\ requests'[j].what = requests[j].what
           /\ requests'[j].value = requests[j].value
      /\ \A x : Setting(s, x)' <=> Setting(s, x)
  BY ExecutedAt
<1>4. At(i, s, "set") /\ requests[i].what = r.what
  BY DEF Executed, At
<1>5. /\ \A j \in Causes : ~At(j, s, "config")
      /\ \A j \in Causes \ {i} : At(j, s, "set") => requests[j].what # r.what
  BY <1>4 DEF Agrees, Apart
<1>6. AnswersHold(s)'
  <2>1. AnswersHold(s)
    BY DEF Agrees, SettingsAgree
  <2>2. ASSUME NEW j \in Causes, DoneAt(j, s, "set")', j # i
        PROVE  server'[s].set[requests'[j].what] = requests'[j].value
    <3>1. DoneAt(j, s, "set") /\ requests'[j] = requests[j] /\ requests[j].what # r.what
      BY <1>3, <1>5, <2>2 DEF DoneAt
    <3>2. server'[s].set[requests[j].what] = server[s].set[requests[j].what]
      BY <3>1
    <3> QED
      BY <2>1, <3>1, <3>2 DEF AnswersHold
  <2>3. server'[s].set[requests'[i].what] = requests'[i].value
    BY <1>2, <1>3
  <2>4. \A j \in Causes : ~DoneAt(j, s, "config")'
    BY <1>3, <1>5 DEF DoneAt
  <2>5. \A j \in Causes : At(j, s, "set")' /\ requests'[j].what \in Validated =>
          view'[s].set[requests'[j].what] = requests'[j].value
    BY <1>3, <2>1 DEF AnswersHold
  <2> QED
    BY <2>2, <2>3, <2>4, <2>5 DEF AnswersHold
<1>7. Setting(s, r.what)'
  BY <1>3, <1>4 DEF Setting
<1>8. CopyAgrees(s)' /\ PageAgrees(s)'
  <2>1. CopyAgrees(s) /\ PageAgrees(s)
    BY DEF Agrees, SettingsAgree
  <2>2. CopyAgrees(s)'
    BY <1>2, <1>3, <1>7, <2>1 DEF CopyAgrees
  <2>3. "name" \in Settings
    BY DEF Settings
  <2>4. PageAgrees(s)'
    BY <1>2, <1>3, <1>7, <2>1, <2>3 DEF PageAgrees
  <2> QED
    BY <2>2, <2>4
<1> QED
  BY <1>1, <1>6, <1>8 DEF SettingsAgree

(* A key is made.                                                          *)
LEMMA AddExecuted ==
  ASSUME NEW i \in Causes, NEW r, Executed(i, r), NEW s \in Servers, r.server = s,
         KeysMade, RequestsOK, Agrees(s), UNCHANGED <<cache, view>>,
         server[s].keys \in KeyStates,
         r.op = "add", r.pc = "done", NEW k \in Keys, r.found = k,
         server[s].keys[k] = "never", server'[s].set = server[s].set,
         server'[s].keys = [server[s].keys EXCEPT ![k] = "free"]
  PROVE  SettingsAgree(s)' /\ KeysAgree(s)'
<1>1. SettingsAgree(s)'
  <2>1. Kept(s, {"config", "set"})
    BY ExecutedKept
  <2> QED
    BY <2>1, SettingsKept DEF Agrees
<1>2. Listed(server'[s].keys) = Listed(server[s].keys) \cup {k} /\ k \notin Listed(server[s].keys)
  BY DEF Listed, Exists, KeyStates
<1>3. /\ \A j \in Causes : \A op : At(j, s, op)' <=> At(j, s, op)
      /\ requests'[i] = r /\ \A op : ~DoneAt(i, s, op)
      /\ \A j \in Causes \ {i} :
           /\ requests'[j] = requests[j]
           /\ \A op : DoneAt(j, s, op)' <=> DoneAt(j, s, op)
      /\ \A j \in Causes : At(j, s, "remove") => requests'[j].what = requests[j].what
  BY ExecutedAt
<1>4. At(i, s, "add") /\ ~At(i, s, "remove") /\ DoneAt(i, s, "add")'
      /\ \A op : op # "add" => ~DoneAt(i, s, op)'
  BY <1>3 DEF Executed, At, DoneAt
<1>5. \A j \in Causes : ~At(j, s, "list")
  BY <1>4 DEF Agrees, Apart
<1>6. /\ ~Shows(view[s].rows, k)
      /\ \A j \in Causes : At(j, s, "remove") => requests[j].what # k
      /\ \A j \in Causes : DoneAt(j, s, "add") => requests[j].found # k
  BY DEF KeysMade, Known, Made, At, DoneAt
<1>7. ListHolds(s)'
  BY <1>3, <1>5 DEF ListHolds, DoneAt
<1>8. /\ Added(s, k)'
      /\ \A n : n # k => (Added(s, n)' <=> Added(s, n))
      /\ \A n : Removed(s, n)' <=> Removed(s, n)
  BY <1>3, <1>4 DEF Added, Removed
<1>9. ~Removed(s, k) /\ ~Added(s, k)
  BY <1>6 DEF Removed, Added, DoneAt
<1>10. AddedIsNew(s) /\ RowsAgree(s)
  BY DEF Agrees, KeysAgree
<1>11. AddedIsNew(s)'
  <2>1. ASSUME NEW j \in Causes, DoneAt(j, s, "add")'
        PROVE  /\ requests'[j].found \in Listed(server'[s].keys)
               /\ ~Shows(view'[s].rows, requests'[j].found)
               /\ \A n \in Causes :
                    /\ At(n, s, "remove")' => requests'[n].what # requests'[j].found
                    /\ DoneAt(n, s, "add")' /\ requests'[n].found = requests'[j].found
                         => n = j
    <3>1. \A n \in Causes : At(n, s, "remove")' =>
             At(n, s, "remove") /\ requests'[n].what = requests[n].what
      BY <1>3
    <3>2. \A n \in Causes \ {i} : DoneAt(n, s, "add")' =>
             DoneAt(n, s, "add") /\ requests'[n].found = requests[n].found
      BY <1>3
    <3>3. CASE j = i
      <4>1. requests'[j].found = k
        BY <1>3, <3>3
      <4> QED
        BY <1>2, <1>6, <3>1, <3>2, <3>3, <4>1
    <3>4. CASE j # i
      <4>1. DoneAt(j, s, "add") /\ requests'[j].found = requests[j].found
        BY <2>1, <3>2, <3>4
      <4>2. requests'[i].found = k /\ requests[j].found # k
        BY <1>3, <1>6, <4>1
      <4> QED
        BY <1>2, <1>10, <3>1, <3>2, <4>1, <4>2 DEF AddedIsNew
    <3> QED
      BY <3>3, <3>4
  <2> QED
    BY <2>1 DEF AddedIsNew
<1>12. RowsAgree(s)'
  BY <1>2, <1>3, <1>5, <1>6, <1>8, <1>9, <1>10 DEF RowsAgree
<1> QED
  BY <1>1, <1>7, <1>11, <1>12 DEF KeysAgree

(* A key is removed.                                                       *)
LEMMA RemoveExecuted ==
  ASSUME NEW i \in Causes, NEW r, Executed(i, r), NEW s \in Servers, r.server = s,
         KeysMade, Agrees(s), UNCHANGED <<cache, view>>,
         server[s].keys \in KeyStates,
         r.op = "remove", r.pc = "done", NEW k \in Keys, r.what = k,
         server[s].keys[k] # "removed", server'[s].set = server[s].set,
         server'[s].keys = [server[s].keys EXCEPT ![k] = "removed"]
  PROVE  SettingsAgree(s)' /\ KeysAgree(s)'
<1>1. SettingsAgree(s)'
  <2>1. Kept(s, {"config", "set"})
    BY ExecutedKept
  <2> QED
    BY <2>1, SettingsKept DEF Agrees
<1>2. /\ \A j \in Causes : \A op : At(j, s, op)' <=> At(j, s, op)
      /\ requests'[i] = r /\ \A op : ~DoneAt(i, s, op)
      /\ \A j \in Causes \ {i} :
           /\ requests'[j] = requests[j]
           /\ \A op : DoneAt(j, s, op)' <=> DoneAt(j, s, op)
      /\ \A j \in Causes : At(j, s, "remove") => requests'[j].what = requests[j].what
  BY ExecutedAt
<1>3. At(i, s, "remove") /\ requests[i].what = k /\ DoneAt(i, s, "remove")'
      /\ \A op : op # "remove" => ~DoneAt(i, s, op)'
  BY <1>2 DEF Executed, At, DoneAt
<1>4. Made(server, s, k)
  BY <1>3 DEF KeysMade, Known, At
<1>5. Listed(server'[s].keys) = Listed(server[s].keys) \ {k} /\ k \in Listed(server[s].keys)
  BY <1>4 DEF Listed, Exists, KeyStates, Made
<1>6. \A j \in Causes : ~At(j, s, "list")
  BY <1>3 DEF Agrees, Apart
<1>7. ListHolds(s)'
  BY <1>2, <1>6 DEF ListHolds, DoneAt
<1>8. AddedIsNew(s) /\ RowsAgree(s)
  BY DEF Agrees, KeysAgree
<1>9. /\ Removed(s, k)'
      /\ \A n : n # k => (Removed(s, n)' <=> Removed(s, n))
      /\ \A n : Added(s, n)' <=> Added(s, n)
  BY <1>2, <1>3 DEF Added, Removed
<1>10. ~Added(s, k)
  BY <1>3, <1>8 DEF Added, AddedIsNew
<1>11. AddedIsNew(s)'
  <2>1. ASSUME NEW j \in Causes, DoneAt(j, s, "add")'
        PROVE  /\ requests'[j].found \in Listed(server'[s].keys)
               /\ ~Shows(view'[s].rows, requests'[j].found)
               /\ \A n \in Causes :
                    /\ At(n, s, "remove")' => requests'[n].what # requests'[j].found
                    /\ DoneAt(n, s, "add")' /\ requests'[n].found = requests'[j].found
                         => n = j
    <3>1. \A n \in Causes : At(n, s, "remove")' =>
             At(n, s, "remove") /\ requests'[n].what = requests[n].what
      BY <1>2
    <3>2. \A n \in Causes : DoneAt(n, s, "add")' =>
             DoneAt(n, s, "add") /\ requests'[n].found = requests[n].found
      BY <1>2, <1>3
    <3>3. DoneAt(j, s, "add") /\ requests'[j].found = requests[j].found
      BY <2>1, <3>2
    <3>4. requests[j].found # k
      BY <1>3, <1>8, <3>3 DEF AddedIsNew
    <3> QED
      BY <1>5, <1>8, <3>1, <3>2, <3>3, <3>4 DEF AddedIsNew
  <2> QED
    BY <2>1 DEF AddedIsNew
<1>12. RowsAgree(s)'
  BY <1>2, <1>5, <1>6, <1>8, <1>9, <1>10 DEF RowsAgree
<1> QED
  BY <1>1, <1>7, <1>11, <1>12 DEF KeysAgree

(* The settings, or the keys, of one server are replaced.                  *)
LEMMA ServerPut ==
  ASSUME TypeOK, NEW s \in Servers, NEW c \in Config, NEW keys \in KeyStates,
         \/ /\ server' = [server EXCEPT ![s].set = c]
            /\ keys = server[s].keys
         \/ /\ server' = [server EXCEPT ![s].keys = keys]
            /\ c = server[s].set
  PROVE  /\ server' \in [Servers -> [set : Config, keys : KeyStates]]
         /\ server'[s].set = c /\ server'[s].keys = keys
         /\ \A t \in Servers \ {s} : server'[t] = server[t]
<1>1. server \in [Servers -> [set : Config, keys : KeyStates]]
  BY DEF TypeOK
<1> DEFINE n == [set |-> c, keys |-> keys]
<1>2. server' = [server EXCEPT ![s] = n]
  BY <1>1
<1>3. n \in [set : Config, keys : KeyStates] /\ n.set = c /\ n.keys = keys
  OBVIOUS
<1> HIDE DEF n
<1> QED
  BY <1>1, <1>2, <1>3

LEMMA ExecuteStep ==
  ASSUME ViewInv, NEW i \in Causes, Execute(i) PROVE ViewInv'
<1>1. PICK q, s : q = requests[i] /\ s = q.server
  OBVIOUS
<1>2. TypeOK /\ RequestsOK /\ KeysMade /\ DOMAIN requests = Causes
  BY DEF ViewInv, RequestsOK
<1>3. q # None /\ q.pc = "sent" /\ RequestOK(q)
  BY <1>1, <1>2 DEF Execute, RequestsOK
<1>4. /\ s \in Servers
      /\ q.op = "set" => q.what \in Settings /\ q.value \in Values
      /\ q.op \in {"remove", "keyLimit"} => q.what \in Keys
  BY <1>1, <1>3, RequestFields
<1>5. server[s].set \in Config /\ server[s].keys \in KeyStates
  BY <1>2, <1>4, ViewFields
<1>6. UNCHANGED <<manager, disturbed, taps, faults>> /\ UNCHANGED <<cache, view>>
  BY DEF Execute, manager
<1>7. s \notin disturbed => Agrees(s) /\ SettingsAgree(s) /\ KeysAgree(s)
  BY <1>4 DEF ViewInv, Agrees
<1>8. Known(server, q)
  BY <1>1, <1>2, <1>3 DEF KeysMade
(* The answer r of request q.                                              *)
<1>9. ASSUME NEW r, RequestOK(r), r # None,
             r.op = q.op, r.server = q.server, r.what = q.what, r.value = q.value,
             requests' = [requests EXCEPT ![i] = r]
      PROVE  Executed(i, r) /\ r.server = s
  BY <1>1, <1>2, <1>3, <1>9 DEF Executed, Replaced, RequestsOK
<1>10. ASSUME NEW f \in Answers(q.op), f # None,
              requests' = [requests EXCEPT ![i].pc = "done", ![i].found = f]
       PROVE  \E r : /\ requests' = [requests EXCEPT ![i] = r]
                     /\ RequestOK(r) /\ Executed(i, r)
                     /\ r.op = q.op /\ r.server = s
                     /\ r.what = q.what /\ r.pc = "done" /\ r.found = f
  <2>1. PICK r : r = Replied(q, f)
    OBVIOUS
  <2>2. requests' = [requests EXCEPT ![i] = r]
    BY <1>1, <1>2, <1>10, <2>1 DEF Replied
  <2>3. /\ RequestOK(r) /\ r # None
        /\ r.op = q.op /\ r.server = q.server
        /\ r.what = q.what /\ r.value = q.value
        /\ r.pc = "done" /\ r.found = f
    <3>1. f # None /\ RequestOK(q)
      BY <1>3, <1>10
    <3> QED
      BY <2>1, <3>1, RequestExecuted
  <2> QED
    BY <1>9, <2>2, <2>3
<1>11. ASSUME NEW p \in {"done", "rejected"}, q.op \in {"set", "remove", "keyLimit"},
              p = "rejected" => q.op # "set",
              requests' = [requests EXCEPT ![i].pc = p]
       PROVE  \E r : /\ requests' = [requests EXCEPT ![i] = r]
                     /\ RequestOK(r) /\ Executed(i, r)
                     /\ r.op = q.op /\ r.server = s
                     /\ r.what = q.what /\ r.value = q.value /\ r.pc = p
  <2>1. PICK r : r = [q EXCEPT !.pc = p]
    OBVIOUS
  <2>2. requests' = [requests EXCEPT ![i] = r]
    BY <1>1, <1>2, <1>11, <2>1
  <2>3. /\ RequestOK(r) /\ r # None
        /\ r.op = q.op /\ r.server = q.server
        /\ r.what = q.what /\ r.value = q.value /\ r.pc = p
    <3>1. RequestOK(q) /\ q.op \in {"set", "remove", "keyLimit"} /\ (p = "rejected" => q.op # "set")
      BY <1>3, <1>11
    <3> QED
      BY <2>1, <3>1, RequestEnded
  <2> QED
    BY <1>9, <2>2, <2>3
<1>12. CASE /\ q.op \in {"config", "list", "stats"} /\ UNCHANGED server
            /\ requests' = [requests EXCEPT ![i].pc = "done", ![i].found =
                 IF q.op = "config" THEN server[s].set ELSE server[s].keys]
  <2>1. PICK f : f = IF q.op = "config" THEN server[s].set ELSE server[s].keys
    OBVIOUS
  <2>2. f \in Answers(q.op)
    BY <1>5, <1>12, <2>1 DEF Answers
  <2>3. f # None
    <3>1. CASE q.op = "config"
      BY <1>5, <2>1, <3>1, NoneAssumption
    <3>2. CASE q.op # "config"
      <4>1. f \in KeyStates
        BY <1>5, <2>1, <3>2
      <4> QED
        BY <4>1, NoneAssumption
    <3> QED
      BY <3>1, <3>2
  <2>4. PICK r : /\ requests' = [requests EXCEPT ![i] = r]
                 /\ RequestOK(r) /\ Executed(i, r)
                 /\ r.op = q.op /\ r.server = s
                 /\ r.what = q.what /\ r.pc = "done" /\ r.found = f
    BY <1>10, <1>12, <2>1, <2>2, <2>3
  <2>5. Known(server', r)
    BY <1>4, <1>12, <2>1, <2>4 DEF Known, Made, Listed, Exists
  <2>6. s \notin disturbed => SettingsAgree(s)' /\ KeysAgree(s)'
    <3>1. CASE q.op = "config"
      BY <1>6, <1>7, <1>12, <2>1, <2>4, <3>1, ConfigExecuted
    <3>2. CASE q.op = "list"
      BY <1>6, <1>7, <1>12, <2>1, <2>4, <3>2, ListExecuted
    <3>3. CASE q.op = "stats"
      BY <1>6, <1>7, <1>12, <2>4, <3>3, OtherExecuted
    <3> QED
      BY <1>12, <3>1, <3>2, <3>3
  <2>7. server' \in [Servers -> [set : Config, keys : KeyStates]]
        /\ \A t \in Servers \ {s} : server'[t] = server[t]
    BY <1>2, <1>12 DEF TypeOK
  <2>8. KeysGrow /\ r.op # "remove"
    BY <1>12, <2>4, KeysUntouched
  <2> QED
    BY <1>6, <2>4, <2>5, <2>6, <2>7, <2>8, ExecutedStep
<1>13. CASE /\ q.op = "set"
            /\ requests' = [requests EXCEPT ![i].pc = "done"]
            /\ server' = [server EXCEPT ![s].set[q.what] = q.value]
  <2>1. PICK c : c = [server[s].set EXCEPT ![q.what] = q.value]
    OBVIOUS
  <2>2. server' = [server EXCEPT ![s].set = c]
    BY <1>13, <2>1
  <2>3. c \in Config
    BY <1>4, <1>5, <1>13, <2>1 DEF Config
  <2>4. /\ server' \in [Servers -> [set : Config, keys : KeyStates]]
        /\ server'[s].set = c /\ server'[s].keys = server[s].keys
        /\ \A t \in Servers \ {s} : server'[t] = server[t]
    BY <1>2, <1>4, <1>5, <2>2, <2>3, ServerPut
  <2>5. PICK r : /\ requests' = [requests EXCEPT ![i] = r]
                 /\ RequestOK(r) /\ Executed(i, r)
                 /\ r.op = q.op /\ r.server = s
                 /\ r.what = q.what /\ r.value = q.value /\ r.pc = "done"
    BY <1>11, <1>13
  <2>6. Known(server', r) /\ r.op # "remove"
    BY <1>13, <2>5 DEF Known
  <2>7. KeysGrow
    BY <2>4 DEF KeysGrow
  <2>8. s \notin disturbed => SettingsAgree(s)' /\ KeysAgree(s)'
    BY <1>4, <1>5, <1>6, <1>7, <1>13, <2>1, <2>4, <2>5, SetExecuted
  <2> QED
    BY <1>6, <2>4, <2>5, <2>6, <2>7, <2>8, ExecutedStep
<1>14. ASSUME NEW k \in Keys, q.op = "add", server[s].keys[k] = "never",
              server' = [server EXCEPT ![s].keys[k] = "free"],
              requests' = [requests EXCEPT ![i].pc = "done", ![i].found = k]
       PROVE  ViewInv'
  <2>1. PICK keys : keys = [server[s].keys EXCEPT ![k] = "free"]
    OBVIOUS
  <2>2. server' = [server EXCEPT ![s].keys = keys]
    BY <1>14, <2>1
  <2>3. keys \in KeyStates /\ keys[k] = "free" /\ \A n \in Keys \ {k} : keys[n] = server[s].keys[n]
    BY <1>5, <2>1 DEF KeyStates
  <2>4. /\ server' \in [Servers -> [set : Config, keys : KeyStates]]
        /\ server'[s].set = server[s].set /\ server'[s].keys = keys
        /\ \A t \in Servers \ {s} : server'[t] = server[t]
    BY <1>2, <1>4, <1>5, <2>2, <2>3, ServerPut
  <2>5. k \in Answers(q.op) /\ k # None
    BY <1>14, NoneAssumption DEF Answers
  <2>6. PICK r : /\ requests' = [requests EXCEPT ![i] = r]
                 /\ RequestOK(r) /\ Executed(i, r)
                 /\ r.op = q.op /\ r.server = s
                 /\ r.what = q.what /\ r.pc = "done" /\ r.found = k
    BY <1>10, <1>14, <2>5
  <2>7. Known(server', r) /\ r.op # "remove"
    BY <1>14, <2>3, <2>4, <2>6 DEF Known, Made
  <2>8. KeysGrow
    BY <1>14, <2>3, <2>4 DEF KeysGrow
  <2>9. s \notin disturbed => SettingsAgree(s)' /\ KeysAgree(s)'
    BY <1>2, <1>4, <1>5, <1>6, <1>7, <1>14, <2>1, <2>4, <2>6, AddExecuted
  <2> QED
    BY <1>6, <2>4, <2>6, <2>7, <2>8, <2>9, ExecutedStep
<1>15. CASE /\ q.op \in {"remove", "keyLimit"} /\ server[s].keys[q.what] # "removed"
            /\ requests' = [requests EXCEPT ![i].pc = "done"]
            /\ server' = [server EXCEPT ![s].keys[q.what] =
                 IF q.op = "remove" THEN "removed"
                 ELSE IF q.value = 1 THEN "limited" ELSE "free"]
  <2>1. PICK k \in Keys : k = q.what
    BY <1>4, <1>15
  <2>2. PICK state : state = IF q.op = "remove" THEN "removed"
                             ELSE IF q.value = 1 THEN "limited" ELSE "free"
    OBVIOUS
  <2>3. PICK keys : keys = [server[s].keys EXCEPT ![k] = state]
    OBVIOUS
  <2>4. server' = [server EXCEPT ![s].keys = keys]
    BY <1>15, <2>1, <2>2, <2>3
  <2>5. state \in {"removed", "limited", "free"} /\ (state = "removed" <=> q.op = "remove")
    BY <2>2
  <2>6. keys \in KeyStates /\ keys[k] = state /\ \A n \in Keys \ {k} : keys[n] = server[s].keys[n]
    BY <1>5, <2>3, <2>5 DEF KeyStates
  <2>7. /\ server' \in [Servers -> [set : Config, keys : KeyStates]]
        /\ server'[s].set = server[s].set /\ server'[s].keys = keys
        /\ \A t \in Servers \ {s} : server'[t] = server[t]
    BY <1>2, <1>4, <1>5, <2>4, <2>6, ServerPut
  <2>8. PICK r : /\ requests' = [requests EXCEPT ![i] = r]
                 /\ RequestOK(r) /\ Executed(i, r)
                 /\ r.op = q.op /\ r.server = s
                 /\ r.what = k /\ r.pc = "done"
    BY <1>11, <1>15, <2>1
  <2>9. server[s].keys[k] \notin {"never", "removed"}
    BY <1>1, <1>8, <1>15, <2>1 DEF Known, Made
  <2>10. KeysGrow
    BY <2>5, <2>6, <2>7, <2>9 DEF KeysGrow
  <2>11. Known(server', r)
    BY <1>15, <2>5, <2>6, <2>7, <2>8 DEF Known, Made
  <2>12. r.op = "remove" =>
           \A j \in Causes \ {i} : RemoveDone(j) =>
             requests[j].server # r.server \/ requests[j].what # r.what
    <3>1. \A j \in Causes : RemoveDone(j) =>
            server[requests[j].server].keys[requests[j].what] = "removed"
      BY <1>2 DEF KeysMade, Known, RemoveDone
    <3> QED
      BY <2>8, <2>9, <3>1
  <2>13. s \notin disturbed => SettingsAgree(s)' /\ KeysAgree(s)'
    <3>1. CASE q.op = "remove"
      <4>1. keys = [server[s].keys EXCEPT ![k] = "removed"]
        BY <2>2, <2>3, <3>1
      <4> QED
        BY <1>2, <1>4, <1>5, <1>6, <1>7, <2>7, <2>8, <2>9, <3>1, <4>1, RemoveExecuted
    <3>2. CASE q.op = "keyLimit"
      <4>1. \A n \in Keys : Exists(server'[s].keys, n) <=> Exists(server[s].keys, n)
        <5>1. Exists(keys, k) /\ Exists(server[s].keys, k)
          BY <1>5, <2>5, <2>6, <2>9, <3>2 DEF Exists, KeyStates
        <5> QED
          BY <2>6, <2>7, <5>1 DEF Exists
      <4>2. Listed(server'[s].keys) = Listed(server[s].keys)
        BY <4>1 DEF Listed
      <4> QED
        BY <1>6, <1>7, <2>7, <2>8, <3>2, <4>2, OtherExecuted
    <3> QED
      BY <1>15, <3>1, <3>2
  <2> QED
    BY <1>6, <2>7, <2>8, <2>10, <2>11, <2>12, <2>13, ExecutedStep
<1>16. CASE /\ q.op \in {"remove", "keyLimit"} /\ UNCHANGED server
            /\ requests' = [requests EXCEPT ![i].pc = "rejected"]
  <2>1. PICK r : /\ requests' = [requests EXCEPT ![i] = r]
                 /\ RequestOK(r) /\ Executed(i, r)
                 /\ r.op = q.op /\ r.server = s
                 /\ r.what = q.what /\ r.value = q.value /\ r.pc = "rejected"
    BY <1>11, <1>16
  <2>2. Known(server', r)
    BY <1>1, <1>8, <1>16, <2>1 DEF Known
  <2>3. s \notin disturbed => SettingsAgree(s)' /\ KeysAgree(s)'
    <3>1. CASE q.op = "remove"
      BY <1>6, <1>7, <1>16, <2>1, <3>1, RemoveRejected
    <3>2. CASE q.op = "keyLimit"
      BY <1>6, <1>7, <1>16, <2>1, <3>2, OtherExecuted
    <3> QED
      BY <1>16, <3>1, <3>2
  <2>4. server' \in [Servers -> [set : Config, keys : KeyStates]]
        /\ \A t \in Servers \ {s} : server'[t] = server[t]
    BY <1>2, <1>16 DEF TypeOK
  <2>5. KeysGrow /\ r.pc # "done"
    BY <1>16, <2>1, KeysUntouched
  <2> QED
    BY <1>6, <2>1, <2>2, <2>3, <2>4, <2>5, ExecutedStep
<1> QED
  BY <1>1, <1>12, <1>13, <1>14, <1>15, <1>16 DEF Execute

----------------------------------------------------------------------------
(* What the manager does when an answer comes.                             *)

(* A request for the list of keys, or for the stats, or what is left of    *)
(* one whose time was up, is harmless in itself.                           *)
Harmless(r) ==
  r # None => RequestOK(r) /\ Known(server, r) /\ r.op # "remove"

LEMMA SentHarmless ==
  ASSUME NEW r, RequestOK(r), r.pc = "sent", r.op \in {"list", "stats"}
  PROVE  Harmless(r)
BY DEF Harmless, Known

(* What the handlers have in common.                                       *)
LEMMA Handled ==
  ASSUME ViewInv, NEW i \in Causes, NEW r, Harmless(r),
         requests' = [requests EXCEPT ![i] = r],
         requests[i] # None \/ \A n \in 1 .. MaxTaps : i # <<"tap", n>>,
         UNCHANGED <<server, taps>>, faults' \in 0 .. MaxFaults,
         disturbed' \subseteq Servers, selected' \in Servers, live' \subseteq Servers,
         view' \in [Servers -> View], cache' \in [Servers -> Config \cup {None}],
         \A t \in Servers : view'[t].page = "management" => cache'[t] # None,
         \A t \in Servers : \A k : Shows(view'[t].rows, k) =>
           Shows(view[t].rows, k) \/ Made(server, t, k),
         \A t \in Servers \ disturbed' : Agrees(t)'
  PROVE  ViewInv'
<1>1. TypeOK /\ RequestsOK /\ KeysMade
  BY DEF ViewInv
<1>2. taps \in 0 .. MaxTaps /\ taps' \in taps .. MaxTaps /\ taps' \in 0 .. MaxTaps
  BY <1>1, ManagementAssumption DEF TypeOK
<1>3. r = None \/ RequestOK(r)
  BY DEF Harmless
<1>4. requests[i] # None \/ \A n \in 1 .. MaxTaps : i = <<"tap", n>> => n <= taps'
  OBVIOUS
<1>5. RequestsOK' /\ Replaced(i, r)
  BY <1>1, <1>2, <1>3, <1>4, RequestPut DEF Replaced
<1>6. server' \in [Servers -> [set : Config, keys : KeyStates]]
  BY <1>1 DEF TypeOK
<1>7. TypeOK'
  BY <1>2, <1>5, <1>6, TypeKept
<1>8. KeysMade'
  <2>1. \A s \in Servers : view[s].rows \in Seq(Row)
    BY <1>1, ViewFields
  <2>2. KeysGrow
    BY KeysUntouched
  <2>3. r # None => RequestOK(r) /\ Known(server', r) /\ r.op # "remove"
    BY DEF Harmless
  <2>4. \A s \in Servers : \A k : Shows(view'[s].rows, k) =>
          Shows(view[s].rows, k) \/ Made(server', s, k)
    OBVIOUS
  <2> QED
    BY <1>1, <1>5, <2>1, <2>2, <2>3, <2>4, KeysMadeKept
<1> QED
  BY <1>5, <1>7, <1>8 DEF ViewInv

(* ... when the request was about one server.                              *)
LEMMA HandledAt ==
  ASSUME ViewInv, NEW i \in Causes, NEW r, Harmless(r), NEW s \in Servers,
         requests[i] # None, requests[i].server = s,
         r # None => r.server = s \/ r.op = "stats",
         requests' = [requests EXCEPT ![i] = r],
         UNCHANGED <<server, taps>>, faults' \in 0 .. MaxFaults,
         disturbed \subseteq disturbed', disturbed' \subseteq Servers,
         selected' \in Servers, live' \subseteq Servers,
         NEW w \in View, view' = [view EXCEPT ![s] = w],
         NEW c, c = None \/ c \in Config, cache' = [cache EXCEPT ![s] = c],
         w.page = "management" => c # None,
         \A k : Shows(w.rows, k) => Shows(view[s].rows, k) \/ Made(server, s, k),
         s \notin disturbed' => (Agrees(s) /\ Replaced(i, r) => Agrees(s)')
  PROVE  ViewInv'
<1>1. TypeOK /\ RequestsOK /\ KeysMade
  BY DEF ViewInv
<1>2. Replaced(i, r)
  BY <1>1 DEF Replaced, RequestsOK
<1>3. view' \in [Servers -> View] /\ view'[s] = w
      /\ \A t \in Servers \ {s} : view'[t] = view[t]
  BY <1>1, ViewPut
<1>4. cache' \in [Servers -> Config \cup {None}] /\ cache'[s] = c
      /\ \A t \in Servers \ {s} : cache'[t] = cache[t]
  BY <1>1 DEF TypeOK
<1>5. \A t \in Servers : view'[t].page = "management" => cache'[t] # None
  BY <1>1, <1>3, <1>4 DEF TypeOK
<1>6. \A t \in Servers : \A k : Shows(view'[t].rows, k) =>
        Shows(view[t].rows, k) \/ Made(server, t, k)
  BY <1>3
<1>7. ASSUME NEW t \in Servers \ disturbed' PROVE Agrees(t)'
  <2>1. t \notin disturbed /\ Agrees(t) /\ server'[t] = server[t]
    BY <1>7 DEF ViewInv
  <2>2. CASE t = s
    BY <1>2, <1>7, <2>1, <2>2
  <2>3. CASE t # s
    <3>1. view'[t] = view[t] /\ cache'[t] = cache[t]
      BY <1>3, <1>4, <2>3
    <3>2. /\ requests[i] # None => requests[i].server # t \/ requests[i].op \in {"stats", "keyLimit"}
          /\ r # None => r.server # t \/ r.op \in {"stats", "keyLimit"}
      BY <2>3
    <3> QED
      BY <1>2, <2>1, <3>1, <3>2, ServerKept
  <2> QED
    BY <2>2, <2>3
<1> QED
  BY <1>3, <1>4, <1>5, <1>6, <1>7, Handled

(* ... when only limits are brought up to date.                            *)
LEMMA HandledStats ==
  ASSUME ViewInv, NEW i \in Causes, NEW r,
         r # None => RequestOK(r) /\ r.op = "stats" /\ r.pc = "sent",
         requests[i] # None => requests[i].op \in {"stats", "keyLimit"},
         requests[i] # None \/ \A n \in 1 .. MaxTaps : i # <<"tap", n>>,
         requests' = [requests EXCEPT ![i] = r],
         UNCHANGED <<server, cache, selected, taps>>, faults' \in 0 .. MaxFaults,
         disturbed \subseteq disturbed', disturbed' \subseteq Servers,
         live' \subseteq Servers, view' \in [Servers -> View],
         \A t \in Servers :
           /\ view'[t].page = view[t].page /\ view'[t].set = view[t].set
           /\ view'[t].title = view[t].title
           /\ \A k : Shows(view'[t].rows, k) <=> Shows(view[t].rows, k)
           /\ EachOnce(view[t].rows) => EachOnce(view'[t].rows)
  PROVE  ViewInv'
<1>1. TypeOK /\ RequestsOK
  BY DEF ViewInv
<1>2. Replaced(i, r)
  BY <1>1 DEF Replaced, RequestsOK
<1>3. Harmless(r)
  BY DEF Harmless, Known
<1>4. cache' \in [Servers -> Config \cup {None}] /\ selected' \in Servers
      /\ \A t \in Servers : view'[t].page = "management" => cache'[t] # None
  BY <1>1 DEF TypeOK
<1>5. ASSUME NEW t \in Servers \ disturbed' PROVE Agrees(t)'
  <2>1. t \notin disturbed /\ Agrees(t)
    BY <1>5 DEF ViewInv
  <2>2. /\ requests[i] # None => requests[i].op \notin {"config", "set"}
        /\ requests[i] # None => requests[i].op \notin {"list", "add", "remove"}
        /\ r # None => r.op \notin {"config", "set"}
        /\ r # None => r.op \notin {"list", "add", "remove"}
    OBVIOUS
  <2>3. Kept(t, {"config", "set"})
    BY <1>2, <2>2, ReplacedKept
  <2>4. Kept(t, {"list", "add", "remove"})
    BY <1>2, <2>2, ReplacedKept
  <2>5. Fewer(t)
    <3>1. r = None \/ r.server # t \/ r.op \in {"stats", "keyLimit"}
      OBVIOUS
    <3> QED
      BY <1>2, <3>1, ReplacedFewer
  <2> QED
    BY <2>1, <2>3, <2>4, <2>5, ApartFewer, SettingsKept, KeysKept DEF Agrees
<1> QED
  BY <1>3, <1>4, <1>5, Handled

LEMMA HandlerGoesOn ==
  ASSUME ViewInv, NEW i \in Causes, NEW r, r.server \in Servers, Then(i, r)
  PROVE  /\ requests' = [requests EXCEPT ![i] = r]
         /\ disturbed \subseteq disturbed' /\ disturbed' \subseteq Servers
         /\ r.server \notin disturbed' => ~Disturbs(r, {i})
BY DEF Then, ViewInv, TypeOK

LEMMA HandlerEnds ==
  ASSUME ViewInv, NEW i \in Causes, Done(i)
  PROVE  /\ requests' = [requests EXCEPT ![i] = None]
         /\ disturbed \subseteq disturbed' /\ disturbed' \subseteq Servers
BY DEF Done, ViewInv, TypeOK

LEMMA AnswerFields ==
  ASSUME ViewInv, NEW i \in Causes, requests[i] # None
  PROVE  /\ TypeOK /\ RequestOK(requests[i]) /\ requests[i].server \in Servers
         /\ Known(server, requests[i]) /\ faults \in 0 .. MaxFaults
         /\ live \subseteq Servers /\ selected \in Servers
<1>1. TypeOK /\ RequestsOK /\ KeysMade
  BY DEF ViewInv
<1>2. RequestOK(requests[i]) /\ Known(server, requests[i])
  BY <1>1 DEF RequestsOK, KeysMade
<1> QED
  BY <1>1, <1>2, RequestFields DEF TypeOK

(* The page is shown as the server answered, and its keys are asked for.   *)
LEMMA ShownAgrees ==
  ASSUME NEW i \in Causes, NEW r, r # None, Replaced(i, r), NEW s, r.server = s,
         r.op = "list", r.pc = "sent", ~Disturbs(r, {i}),
         DoneAt(i, s, "config"), Agrees(s), server' = server,
         NEW c \in Config, requests[i].found = c,
         cache'[s] = c, view'[s].title = c["name"], view'[s].set = c,
         view'[s].rows = view[s].rows
  PROVE  Agrees(s)'
<1>1. Apart(s) /\ AnswersHold(s) /\ ListHolds(s)
  BY DEF Agrees, SettingsAgree, KeysAgree
<1>2. c = server[s].set
  BY <1>1 DEF AnswersHold
<1>3. Apart(s)'
  BY <1>1, ApartSent
<1>4. /\ \A j \in Causes \ {i} : requests'[j] = requests[j]
      /\ \A j \in Causes \ {i} : \A op : At(j, s, op)' <=> At(j, s, op)
      /\ \A op : At(i, s, op)' <=> op = "list"
      /\ \A op : ~DoneAt(i, s, op)'
  BY DEF Replaced, At, DoneAt
<1>5. \A j \in Causes : ~At(j, s, "set")
  BY <1>1 DEF Apart, DoneAt
<1>6. AnswersHold(s)'
  BY <1>1, <1>4, <1>5 DEF AnswersHold, DoneAt
<1>7. CopyAgrees(s)' /\ PageAgrees(s)'
  BY <1>2 DEF CopyAgrees, PageAgrees
<1>8. \A j \in Causes \ {i} : ~At(j, s, "add") /\ ~At(j, s, "remove")
  BY NotDisturbing
<1>9. ListHolds(s)'
  BY <1>1, <1>4 DEF ListHolds, DoneAt
<1>10. AddedIsNew(s)'
  BY <1>4, <1>8 DEF AddedIsNew, DoneAt
<1>11. RowsAgree(s)'
  BY <1>4 DEF RowsAgree
<1> QED
  BY <1>3, <1>6, <1>7, <1>9, <1>10, <1>11 DEF Agrees, SettingsAgree, KeysAgree

(* The time was up: only the copy is replaced.                             *)
LEMMA CopiedAgrees ==
  ASSUME NEW i \in Causes, Replaced(i, None), NEW s,
         DoneAt(i, s, "config"), Agrees(s), server' = server,
         cache'[s] = requests[i].found, view'[s] = view[s]
  PROVE  Agrees(s)'
<1>1. Apart(s) /\ AnswersHold(s) /\ PageAgrees(s) /\ KeysAgree(s)
  BY DEF Agrees, SettingsAgree
<1>2. cache'[s] = server[s].set
  BY <1>1 DEF AnswersHold
<1>3. Fewer(s)
  BY ReplacedFewer
<1>4. Apart(s)'
  BY <1>1, <1>3, ApartFewer
<1>5. /\ \A j \in Causes \ {i} : requests'[j] = requests[j]
      /\ \A j \in Causes \ {i} : \A op : At(j, s, op)' <=> At(j, s, op)
      /\ \A op : ~At(i, s, op)'
  BY DEF Replaced, At
<1>6. \A j \in Causes : ~At(j, s, "set")
  BY <1>1 DEF Apart, DoneAt
<1>7. AnswersHold(s)'
  BY <1>1, <1>5, <1>6 DEF AnswersHold, DoneAt
<1>8. CopyAgrees(s)'
  BY <1>2 DEF CopyAgrees
<1>9. \A x : ~Setting(s, x)
  BY <1>6 DEF Setting
<1>10. PageAgrees(s)'
  BY <1>1, <1>9 DEF PageAgrees
<1>11. KeysAgree(s)'
  <2>1. requests[i].op \notin {"list", "add", "remove"}
    BY DEF DoneAt, At
  <2>2. Kept(s, {"list", "add", "remove"})
    BY <2>1, ReplacedKept
  <2> QED
    BY <1>1, <2>2, KeysKept
<1> QED
  BY <1>4, <1>7, <1>8, <1>10, <1>11 DEF Agrees, SettingsAgree

LEMMA ConfigStep ==
  ASSUME ViewInv, NEW i \in Causes, ConfigAnswered(i) PROVE ViewInv'
<1>1. PICK q, s, c : q = requests[i] /\ s = q.server /\ c = q.found
  OBVIOUS
<1>2. q # None /\ q.pc = "done" /\ q.op = "config" /\ DoneAt(i, s, "config")
  BY <1>1 DEF ConfigAnswered, Answered, DoneAt, At
<1>3. TypeOK /\ RequestOK(q) /\ s \in Servers /\ faults \in 0 .. MaxFaults
      /\ live \subseteq Servers /\ selected \in Servers
  BY <1>1, <1>2, AnswerFields
<1>4. c \in Config /\ c # None
  BY <1>1, <1>2, <1>3, RequestFields, NoneAssumption
<1>5. view[s] \in View
  BY <1>3, ViewFields
<1>6. cache' = [cache EXCEPT ![s] = c] /\ UNCHANGED <<server, selected, live, taps, faults>>
  BY <1>1 DEF ConfigAnswered
<1>7. CASE q.waits
  <2>1. PICK w : w = [view[s] EXCEPT !.page = "management",
                        !.title = c["name"], !.set = c,
                        !.saved = [x \in Validated |-> c[x]]]
    OBVIOUS
  <2>2. view' = [view EXCEPT ![s] = w]
    <3>1. view' = [view EXCEPT ![s].page = "management",
                               ![s].title = c["name"], ![s].set = c,
                               ![s].saved = [x \in Validated |-> c[x]]]
      BY <1>1, <1>7 DEF ConfigAnswered
    <3>2. DOMAIN view = Servers
      BY <1>3 DEF TypeOK
    <3> QED
      BY <1>3, <2>1, <3>1, <3>2
  <2>3. c["name"] \in Values /\ c \in Shown /\ [x \in Validated |-> c[x]] \in [Validated -> Values \cup {None}]
    BY <1>4 DEF Config, Shown, Settings, Validated
  <2>4. w \in View /\ w.title = c["name"] /\ w.set = c /\ w.rows = view[s].rows
    BY <1>5, <2>1, <2>3 DEF View
  <2>5. PICK r : r = NewRequest("list", s, s, None, None)
    OBVIOUS
  <2>6. RequestOK(r) /\ r # None /\ r.op = "list" /\ r.server = s /\ r.pc = "sent"
    <3>1. "list" \in Operations /\ None \in Subjects("list") /\ None \in Values \cup {None}
          /\ "list" # "set"
      BY DEF Operations, Subjects
    <3> QED
      BY <1>3, <2>5, <3>1, RequestSent
  <2>7. Then(i, r)
    BY <1>1, <1>7, <2>5 DEF ConfigAnswered
  <2>8. /\ requests' = [requests EXCEPT ![i] = r]
        /\ disturbed \subseteq disturbed' /\ disturbed' \subseteq Servers
        /\ s \notin disturbed' => ~Disturbs(r, {i})
    BY <1>3, <2>6, <2>7, HandlerGoesOn
  <2>9. view'[s] = w /\ cache'[s] = c
    BY <1>3, <1>6, <2>2, <2>4, ViewPut DEF TypeOK
  <2>10. s \notin disturbed' => (Agrees(s) /\ Replaced(i, r) => Agrees(s)')
    BY <1>1, <1>2, <1>4, <1>6, <2>4, <2>6, <2>8, <2>9, ShownAgrees
  <2>11. Harmless(r)
    BY <2>6, SentHarmless
  <2>12. \A k : Shows(w.rows, k) => Shows(view[s].rows, k) \/ Made(server, s, k)
    BY <2>4
  <2> QED
    BY <1>1, <1>2, <1>3, <1>4, <1>6, <2>2, <2>4, <2>6, <2>8, <2>10, <2>11, <2>12, HandledAt
<1>8. CASE ~q.waits
  <2>1. Done(i) /\ view' = view
    BY <1>1, <1>8 DEF ConfigAnswered
  <2>2. /\ requests' = [requests EXCEPT ![i] = None]
        /\ disturbed \subseteq disturbed' /\ disturbed' \subseteq Servers
    BY <2>1, HandlerEnds
  <2>3. PICK w : w = view[s]
    OBVIOUS
  <2>4. view' = [view EXCEPT ![s] = w] /\ w \in View
    BY <1>3, <1>5, <2>1, <2>3 DEF TypeOK
  <2>5. cache'[s] = c /\ view'[s] = view[s]
    <3>1. s \in DOMAIN cache
      BY <1>3 DEF TypeOK
    <3> QED
      BY <1>6, <2>1, <3>1
  <2>6. Agrees(s) /\ Replaced(i, None) => Agrees(s)'
    BY <1>1, <1>2, <1>6, <2>5, CopiedAgrees
  <2>7. Harmless(None)
    BY DEF Harmless
  <2>8. \A k : Shows(w.rows, k) => Shows(view[s].rows, k) \/ Made(server, s, k)
    BY <2>3
  <2>9. /\ s \in Servers /\ requests[i] # None /\ requests[i].server = s
        /\ UNCHANGED <<server, taps>> /\ faults' \in 0 .. MaxFaults
        /\ selected' \in Servers /\ live' \subseteq Servers
        /\ c \in Config /\ c # None /\ cache' = [cache EXCEPT ![s] = c]
    BY <1>1, <1>2, <1>3, <1>4, <1>6
  <2> QED
    BY <2>2, <2>4, <2>6, <2>7, <2>8, <2>9, HandledAt
<1> QED
  BY <1>7, <1>8

(* The list of keys.                                                       *)
LEMMA ListedAgrees ==
  ASSUME NEW i \in Causes, NEW r, r # None, r.op = "stats", Replaced(i, r), NEW s,
         DoneAt(i, s, "list"), Agrees(s), server' = server, cache'[s] = cache[s],
         NEW keys \in KeyStates, requests[i].found = keys,
         view'[s].page = view[s].page, view'[s].title = view[s].title,
         view'[s].set = view[s].set, view'[s].rows = Rows(keys),
         server[s].keys \in KeyStates
  PROVE  Agrees(s)'
<1>1. Apart(s) /\ SettingsAgree(s) /\ ListHolds(s)
  BY DEF Agrees, KeysAgree
<1>2. Listed(keys) = Listed(server[s].keys)
  BY <1>1 DEF ListHolds
<1>3. Fewer(s)
  BY ReplacedFewer
<1>4. Apart(s)'
  BY <1>1, <1>3, ApartFewer
<1>5. SettingsAgree(s)'
  <2>1. requests[i].op \notin {"config", "set"} /\ r.op \notin {"config", "set"}
    BY DEF DoneAt, At
  <2>2. Kept(s, {"config", "set"})
    BY <2>1, ReplacedKept
  <2> QED
    BY <1>1, <2>2, SettingsKept
<1>6. /\ \A j \in Causes \ {i} : requests'[j] = requests[j]
      /\ \A j \in Causes \ {i} : \A op : At(j, s, op)' <=> At(j, s, op)
      /\ \A op : At(i, s, op)' => op = "stats"
  BY DEF Replaced, At
<1>7. \A j \in Causes : ~At(j, s, "add")' /\ ~At(j, s, "remove")'
  BY <1>1, <1>6 DEF Apart, DoneAt
<1>8. ListHolds(s)'
  BY <1>1, <1>6 DEF ListHolds, DoneAt
<1>9. AddedIsNew(s)'
  BY <1>7 DEF AddedIsNew, DoneAt
<1>10. \A k : ~Added(s, k)' /\ ~Removed(s, k)'
  BY <1>7 DEF Added, Removed, DoneAt
<1>11. RowsAgree(s)'
  BY <1>2, <1>10, RowsOfList DEF RowsAgree
<1> QED
  BY <1>4, <1>5, <1>8, <1>9, <1>11 DEF Agrees, KeysAgree

LEMMA ListStep ==
  ASSUME ViewInv, NEW i \in Causes, ListAnswered(i) PROVE ViewInv'
<1>1. PICK q, s, keys : q = requests[i] /\ s = q.server /\ keys = q.found
  OBVIOUS
<1>2. q # None /\ q.pc = "done" /\ q.op = "list" /\ DoneAt(i, s, "list")
  BY <1>1 DEF ListAnswered, Answered, DoneAt, At
<1>3. TypeOK /\ RequestOK(q) /\ s \in Servers /\ faults \in 0 .. MaxFaults
      /\ live \subseteq Servers /\ selected \in Servers /\ Known(server, q)
  BY <1>1, <1>2, AnswerFields
<1>4. keys \in KeyStates
  BY <1>1, <1>2, <1>3, RequestFields
<1>5. view[s] \in View /\ server[s].keys \in KeyStates
      /\ (cache[s] = None \/ cache[s] \in Config)
  BY <1>3, ViewFields
<1>6. PICK w : w = [view[s] EXCEPT !.rows = Rows(keys)]
  OBVIOUS
<1>7. view' = [view EXCEPT ![s] = w]
  BY <1>1, <1>3, <1>6 DEF ListAnswered, TypeOK
<1>8. UNCHANGED <<server, cache, selected, taps, faults>> /\ live' \subseteq Servers
  BY <1>1, <1>3 DEF ListAnswered
<1>9. Rows(keys) \in Seq(Row) /\ \A k : Shows(Rows(keys), k) <=> k \in Listed(keys)
  BY <1>4, RowsOfList
<1>10. w \in View /\ w.page = view[s].page /\ w.title = view[s].title
       /\ w.set = view[s].set /\ w.rows = Rows(keys)
  BY <1>5, <1>6, <1>9 DEF View
<1>11. \A k : Shows(w.rows, k) => Made(server, s, k)
  BY <1>1, <1>2, <1>3, <1>9, <1>10 DEF Known
<1>12. PICK r : r = Stats(s, s)
  OBVIOUS
<1>13. RequestOK(r) /\ r # None /\ r.op = "stats" /\ r.server = s /\ r.pc = "sent"
  BY <1>3, <1>12, StatsSent
<1>14. Then(i, r)
  BY <1>1, <1>12 DEF ListAnswered
<1>15. /\ requests' = [requests EXCEPT ![i] = r]
       /\ disturbed \subseteq disturbed' /\ disturbed' \subseteq Servers
  BY <1>3, <1>13, <1>14, HandlerGoesOn
<1>16. Harmless(r)
  BY <1>13, SentHarmless
<1>17. PICK c : c = cache[s]
  OBVIOUS
<1>18. cache' = [cache EXCEPT ![s] = c] /\ cache'[s] = cache[s]
  BY <1>3, <1>8, <1>17 DEF TypeOK
<1>19. w.page = "management" => c # None
  BY <1>3, <1>10, <1>17 DEF TypeOK
<1>20. view'[s] = w
  BY <1>3, <1>7, <1>10, ViewPut
<1>21. Agrees(s) /\ Replaced(i, r) => Agrees(s)'
  BY <1>1, <1>2, <1>4, <1>5, <1>8, <1>10, <1>13, <1>18, <1>20, ListedAgrees
<1> QED
  <2>1. /\ requests[i] # None /\ requests[i].server = s /\ s \in Servers /\ w \in View
        /\ (c = None \/ c \in Config) /\ cache' = [cache EXCEPT ![s] = c]
        /\ r.op = "stats"
    BY <1>1, <1>2, <1>3, <1>5, <1>10, <1>13, <1>17, <1>18
  <2>2. /\ UNCHANGED <<server, taps>> /\ faults' \in 0 .. MaxFaults
        /\ selected' \in Servers /\ live' \subseteq Servers
    BY <1>3, <1>8
  <2> QED
    BY <1>7, <1>11, <1>15, <1>16, <1>19, <1>21, <2>1, <2>2, HandledAt

LEMMA StatsStep ==
  ASSUME ViewInv, NEW i \in Causes, StatsAnswered(i) PROVE ViewInv'
<1>1. PICK q, v, keys : q = requests[i] /\ v = q.view /\ keys = q.found
  OBVIOUS
<1>2. q # None /\ q.pc = "done" /\ q.op = "stats"
  BY <1>1 DEF StatsAnswered, Answered
<1>3. TypeOK /\ RequestOK(q) /\ faults \in 0 .. MaxFaults /\ live \subseteq Servers
  BY <1>1, <1>2, AnswerFields
<1>4. keys \in KeyStates /\ v \in Servers
  BY <1>1, <1>2, <1>3, RequestFields
<1>5. view[v] \in View /\ view[v].rows \in Seq(Row)
  BY <1>3, <1>4, ViewFields
<1>6. PICK rows : rows = UpdateRows(view[v].rows, keys)
  OBVIOUS
<1>7. /\ rows \in Seq(Row)
      /\ \A k : Shows(rows, k) <=> Shows(view[v].rows, k)
      /\ EachOnce(view[v].rows) => EachOnce(rows)
  BY <1>4, <1>5, <1>6, RowsUpdated
<1>8. PICK w : w = [view[v] EXCEPT !.rows = rows]
  OBVIOUS
<1>9. view' = [view EXCEPT ![v] = w]
  BY <1>1, <1>3, <1>6, <1>8 DEF StatsAnswered, TypeOK
<1>10. w \in View /\ w.page = view[v].page /\ w.title = view[v].title
       /\ w.set = view[v].set /\ w.rows = rows
  BY <1>5, <1>7, <1>8 DEF View
<1>11. view' \in [Servers -> View] /\ view'[v] = w
       /\ \A t \in Servers \ {v} : view'[t] = view[t]
  BY <1>3, <1>4, <1>9, <1>10, ViewPut
<1>12. UNCHANGED <<server, cache, selected, live, taps, faults>> /\ Done(i)
  BY DEF StatsAnswered
<1>13. /\ requests' = [requests EXCEPT ![i] = None]
       /\ disturbed \subseteq disturbed' /\ disturbed' \subseteq Servers
  BY <1>12, HandlerEnds
<1>14. \A t \in Servers :
         /\ view'[t].page = view[t].page /\ view'[t].set = view[t].set
         /\ view'[t].title = view[t].title
         /\ \A k : Shows(view'[t].rows, k) <=> Shows(view[t].rows, k)
         /\ EachOnce(view[t].rows) => EachOnce(view'[t].rows)
  BY <1>7, <1>10, <1>11
<1> QED
  BY <1>1, <1>2, <1>3, <1>11, <1>12, <1>13, <1>14, HandledStats

LEMMA KeyLimitStep ==
  ASSUME ViewInv, NEW i \in Causes, KeyLimitAnswered(i) PROVE ViewInv'
<1>1. PICK q, s : q = requests[i] /\ s = q.server
  OBVIOUS
<1>2. q # None /\ q.op = "keyLimit"
  BY <1>1 DEF KeyLimitAnswered, Answered
<1>3. TypeOK /\ s \in Servers /\ faults \in 0 .. MaxFaults /\ live \subseteq Servers
      /\ view \in [Servers -> View]
  BY <1>1, <1>2, AnswerFields DEF TypeOK
<1>4. PICK r : r = Stats(s, s)
  OBVIOUS
<1>5. RequestOK(r) /\ r # None /\ r.op = "stats" /\ r.server = s /\ r.pc = "sent"
  BY <1>3, <1>4, StatsSent
<1>6. Then(i, r) /\ UNCHANGED <<server, cache, view, selected, live, taps, faults>>
  BY <1>1, <1>4 DEF KeyLimitAnswered
<1>7. /\ requests' = [requests EXCEPT ![i] = r]
      /\ disturbed \subseteq disturbed' /\ disturbed' \subseteq Servers
  BY <1>3, <1>5, <1>6, HandlerGoesOn
<1> QED
  BY <1>1, <1>2, <1>3, <1>5, <1>6, <1>7, HandledStats

(* The interval of the transfer stats.                                     *)
LEMMA TickStep ==
  ASSUME ViewInv, NEW s \in Servers, Tick(s) PROVE ViewInv'
<1>1. TypeOK /\ disturbed \subseteq Servers /\ faults \in 0 .. MaxFaults
      /\ view \in [Servers -> View] /\ taps \in 0 .. MaxTaps
      /\ live' \subseteq Servers /\ selected \in Servers
  BY DEF ViewInv, TypeOK, Tick
<1>2. UNCHANGED <<server, cache, view, selected, disturbed, taps, faults>>
  BY DEF Tick
<1>3. CASE selected # s
  <2>1. UNCHANGED requests /\ taps' \in taps .. MaxTaps
    BY <1>1, <1>2, <1>3, ManagementAssumption DEF Tick
  <2> QED
    BY <1>1, <1>2, <2>1, OnlyShown
<1>4. CASE selected = s
  <2>1. PICK i, r : i = <<"interval", s>> /\ r = Stats(s, s)
    OBVIOUS
  <2>2. i \in Causes /\ \A n \in 1 .. MaxTaps : i # <<"tap", n>>
    BY <2>1 DEF Causes
  <2>3. requests[i] = None /\ requests' = [requests EXCEPT ![i] = r]
    BY <1>4, <2>1 DEF Tick
  <2>4. RequestOK(r) /\ r # None /\ r.op = "stats" /\ r.pc = "sent"
    BY <2>1, StatsSent
  <2> QED
    BY <1>1, <1>2, <2>2, <2>3, <2>4, HandledStats
<1> QED
  BY <1>3, <1>4

(* Requests that end: what is left of the others.                          *)
LEMMA OthersLeft ==
  ASSUME NEW i \in Causes, NEW r, Replaced(i, r), r # None => r.op = "stats", NEW s
  PROVE  /\ \A j \in Causes \ {i} : requests'[j] = requests[j]
         /\ \A j \in Causes \ {i} : \A op : At(j, s, op)' <=> At(j, s, op)
         /\ \A j \in Causes \ {i} : \A op : DoneAt(j, s, op)' <=> DoneAt(j, s, op)
         /\ \A op : op # "stats" => ~At(i, s, op)' /\ ~DoneAt(i, s, op)'
         /\ Fewer(s)
<1>1. /\ \A j \in Causes \ {i} : requests'[j] = requests[j]
      /\ \A j \in Causes \ {i} : \A op : At(j, s, op)' <=> At(j, s, op)
      /\ \A op : op # "stats" => ~At(i, s, op)'
  BY DEF Replaced, At
<1>2. r = None \/ r.server # s \/ r.op \in {"stats", "keyLimit"}
  OBVIOUS
<1>3. Fewer(s)
  BY <1>2, ReplacedFewer
<1> QED
  BY <1>1, <1>3 DEF DoneAt

(* A key is added.                                                         *)
LEMMA AddedAgrees ==
  ASSUME NEW i \in Causes, Replaced(i, None), NEW s,
         DoneAt(i, s, "add"), Agrees(s), server' = server, cache'[s] = cache[s],
         NEW k, requests[i].found = k,
         view'[s].page = view[s].page, view'[s].title = view[s].title,
         view'[s].set = view[s].set,
         \A n : Shows(view'[s].rows, n) <=> Shows(view[s].rows, n) \/ n = k,
         EachOnce(view[s].rows) /\ ~Shows(view[s].rows, k) => EachOnce(view'[s].rows)
  PROVE  Agrees(s)'
<1>1. Apart(s) /\ SettingsAgree(s) /\ AddedIsNew(s) /\ RowsAgree(s)
  BY DEF Agrees, KeysAgree
<1>2. /\ \A j \in Causes \ {i} : requests'[j] = requests[j]
      /\ \A j \in Causes \ {i} : \A op : At(j, s, op)' <=> At(j, s, op)
      /\ \A j \in Causes \ {i} : \A op : DoneAt(j, s, op)' <=> DoneAt(j, s, op)
      /\ \A op : op # "stats" => ~At(i, s, op)' /\ ~DoneAt(i, s, op)'
      /\ Fewer(s)
  BY OthersLeft
<1>3. Apart(s)'
  BY <1>1, <1>2, ApartFewer
<1>4. At(i, s, "add")
  BY DEF DoneAt
<1>5. SettingsAgree(s)'
  <2>1. requests[i].op \notin {"config", "set"}
    BY <1>4 DEF At
  <2>2. Kept(s, {"config", "set"})
    BY <2>1, ReplacedKept
  <2> QED
    BY <1>1, <2>2, SettingsKept
<1>6. \A j \in Causes : ~At(j, s, "list")
  BY <1>1, <1>4 DEF Apart
<1>7. ListHolds(s)'
  BY <1>2, <1>6 DEF ListHolds, DoneAt
<1>8. /\ k \in Listed(server[s].keys) /\ ~Shows(view[s].rows, k)
      /\ \A j \in Causes : At(j, s, "remove") => requests[j].what # k
      /\ \A j \in Causes \ {i} : DoneAt(j, s, "add") => requests[j].found # k
  BY <1>1 DEF AddedIsNew
<1>9. AddedIsNew(s)'
  <2>1. \A j \in Causes : DoneAt(j, s, "add")' =>
          DoneAt(j, s, "add") /\ requests'[j] = requests[j] /\ j # i
    BY <1>2
  <2>2. \A j \in Causes : At(j, s, "remove")' =>
          At(j, s, "remove") /\ requests'[j] = requests[j]
    BY <1>2
  <2> QED
    BY <1>1, <1>8, <2>1, <2>2 DEF AddedIsNew
<1>10. /\ Added(s, k) /\ ~Added(s, k)'
       /\ \A n : n # k => (Added(s, n)' <=> Added(s, n))
  BY <1>2, <1>8 DEF Added
<1>11. \A n : Removed(s, n)' <=> Removed(s, n)
  <2>1. ~DoneAt(i, s, "remove")
    BY <1>4 DEF DoneAt, At
  <2> QED
    BY <1>2, <2>1 DEF Removed
<1>12. RowsAgree(s)'
  BY <1>1, <1>6, <1>8, <1>10, <1>11 DEF RowsAgree
<1> QED
  BY <1>3, <1>5, <1>7, <1>9, <1>12 DEF Agrees, KeysAgree

(* A key is gone.                                                          *)
LEMMA RemovedAgrees ==
  ASSUME NEW i \in Causes, Replaced(i, None), NEW s \in Servers, KeysMade,
         DoneAt(i, s, "remove"), Agrees(s), server' = server, cache'[s] = cache[s],
         NEW k, requests[i].what = k,
         view'[s].page = view[s].page, view'[s].title = view[s].title,
         view'[s].set = view[s].set,
         \A n : Shows(view'[s].rows, n) => Shows(view[s].rows, n),
         EachOnce(view[s].rows) =>
           /\ EachOnce(view'[s].rows)
           /\ \A n : Shows(view'[s].rows, n) <=> Shows(view[s].rows, n) /\ n # k
  PROVE  Agrees(s)'
<1>1. Apart(s) /\ SettingsAgree(s) /\ AddedIsNew(s) /\ RowsAgree(s)
  BY DEF Agrees, KeysAgree
<1>2. /\ \A j \in Causes \ {i} : requests'[j] = requests[j]
      /\ \A j \in Causes \ {i} : \A op : At(j, s, op)' <=> At(j, s, op)
      /\ \A j \in Causes \ {i} : \A op : DoneAt(j, s, op)' <=> DoneAt(j, s, op)
      /\ \A op : op # "stats" => ~At(i, s, op)' /\ ~DoneAt(i, s, op)'
      /\ Fewer(s)
  BY OthersLeft
<1>3. Apart(s)'
  BY <1>1, <1>2, ApartFewer
<1>4. At(i, s, "remove")
  BY DEF DoneAt
<1>5. SettingsAgree(s)'
  <2>1. requests[i].op \notin {"config", "set"}
    BY <1>4 DEF At
  <2>2. Kept(s, {"config", "set"})
    BY <2>1, ReplacedKept
  <2> QED
    BY <1>1, <2>2, SettingsKept
<1>6. \A j \in Causes : ~At(j, s, "list")
  BY <1>1, <1>4 DEF Apart
<1>7. ListHolds(s)'
  BY <1>2, <1>6 DEF ListHolds, DoneAt
<1>8. \A j \in Causes \ {i} : DoneAt(j, s, "remove") => requests[j].what # k
  BY DEF KeysMade, RemoveDone, DoneAt, At
<1>9. server[s].keys[k] = "removed"
  BY DEF KeysMade, Known, DoneAt, At
<1>10. k \notin Listed(server[s].keys)
  BY <1>9 DEF Listed, Exists
<1>11. AddedIsNew(s)'
  <2>1. \A j \in Causes : DoneAt(j, s, "add")' =>
          DoneAt(j, s, "add") /\ requests'[j] = requests[j] /\ j # i
    BY <1>2
  <2>2. \A j \in Causes : At(j, s, "remove")' =>
          At(j, s, "remove") /\ requests'[j] = requests[j]
    BY <1>2
  <2> QED
    BY <1>1, <2>1, <2>2 DEF AddedIsNew
<1>12. /\ ~Removed(s, k)'
       /\ \A n : n # k => (Removed(s, n)' <=> Removed(s, n))
  BY <1>2, <1>8 DEF Removed
<1>13. \A n : Added(s, n)' <=> Added(s, n)
  <2>1. ~DoneAt(i, s, "add")
    BY <1>4 DEF DoneAt, At
  <2> QED
    BY <1>2, <2>1 DEF Added
<1>14. RowsAgree(s)'
  BY <1>1, <1>6, <1>10, <1>12, <1>13 DEF RowsAgree
<1> QED
  BY <1>3, <1>5, <1>7, <1>11, <1>14 DEF Agrees, KeysAgree

(* The row of a key is added, or removed.                                  *)
LEMMA RowStep ==
  ASSUME ViewInv, NEW i \in Causes, AddAnswered(i) \/ RemoveAnswered(i)
  PROVE  ViewInv'
<1>1. PICK q, s, c : q = requests[i] /\ s = q.server /\ c = cache[s]
  OBVIOUS
<1>2. q # None /\ q.pc = "done"
  BY <1>1 DEF AddAnswered, RemoveAnswered, Answered
<1>3. TypeOK /\ RequestOK(q) /\ s \in Servers /\ faults \in 0 .. MaxFaults
      /\ live \subseteq Servers /\ selected \in Servers /\ Known(server, q) /\ KeysMade
  BY <1>1, <1>2, AnswerFields DEF ViewInv
<1>4. view[s] \in View /\ view[s].rows \in Seq(Row) /\ (c = None \/ c \in Config)
  BY <1>1, <1>3, ViewFields
<1>5. UNCHANGED <<server, cache, selected, live, taps, faults>> /\ Done(i)
  BY DEF AddAnswered, RemoveAnswered
<1>6. /\ requests' = [requests EXCEPT ![i] = None]
      /\ disturbed \subseteq disturbed' /\ disturbed' \subseteq Servers
  BY <1>5, HandlerEnds
<1>7. cache' = [cache EXCEPT ![s] = c] /\ cache'[s] = cache[s]
  BY <1>1, <1>3, <1>5 DEF TypeOK
<1>8. view[s].page = "management" => c # None
  BY <1>1, <1>3 DEF TypeOK
<1>9. Harmless(None)
  BY DEF Harmless
<1>10. /\ UNCHANGED <<server, taps>> /\ faults' \in 0 .. MaxFaults
       /\ selected' \in Servers /\ live' \subseteq Servers
  BY <1>3, <1>5
<1>11. ASSUME NEW rows \in Seq(Row),
              view' = [view EXCEPT ![s] = [view[s] EXCEPT !.rows = rows]],
              \A k : Shows(rows, k) => Shows(view[s].rows, k) \/ Made(server, s, k),
              view'[s].page = view[s].page /\ view'[s].title = view[s].title
                /\ view'[s].set = view[s].set /\ view'[s].rows = rows
                => (Agrees(s) /\ Replaced(i, None) => Agrees(s)')
       PROVE  ViewInv'
  <2>1. PICK w : w = [view[s] EXCEPT !.rows = rows]
    OBVIOUS
  <2>2. w \in View /\ w.page = view[s].page /\ w.title = view[s].title
        /\ w.set = view[s].set /\ w.rows = rows
    BY <1>4, <2>1 DEF View
  <2>3. view' = [view EXCEPT ![s] = w]
    BY <1>11, <2>1
  <2>4. view'[s] = w
    BY <1>3, <2>2, <2>3, ViewPut
  <2>5. Agrees(s) /\ Replaced(i, None) => Agrees(s)'
    BY <1>11, <2>2, <2>4
  <2>6. requests[i] # None /\ requests[i].server = s /\ s \in Servers /\ w \in View
        /\ (c = None \/ c \in Config) /\ (w.page = "management" => c # None)
    BY <1>1, <1>2, <1>3, <1>4, <1>8, <2>2
  <2>7. \A k : Shows(w.rows, k) => Shows(view[s].rows, k) \/ Made(server, s, k)
    BY <1>11, <2>2
  <2> QED
    BY <1>6, <1>7, <1>9, <1>10, <2>3, <2>5, <2>6, <2>7, HandledAt
<1>12. CASE AddAnswered(i)
  <2>1. q.op = "add" /\ DoneAt(i, s, "add")
    BY <1>1, <1>12 DEF AddAnswered, Answered, DoneAt, At
  <2>2. PICK k \in Keys : k = q.found
    BY <1>2, <1>3, <2>1, RequestFields
  <2>3. PICK row, rows : row = [key |-> k, limited |-> FALSE] /\ rows = Append(view[s].rows, row)
    OBVIOUS
  <2>4. row \in Row /\ row.key = k
    BY <2>3 DEF Row
  <2>5. /\ rows \in Seq(Row)
        /\ \A n : Shows(rows, n) <=> Shows(view[s].rows, n) \/ n = k
        /\ EachOnce(view[s].rows) /\ ~Shows(view[s].rows, k) => EachOnce(rows)
    BY <1>4, <2>3, <2>4, RowAppended
  <2>6. view' = [view EXCEPT ![s] = [view[s] EXCEPT !.rows = rows]]
    BY <1>1, <1>3, <1>12, <2>2, <2>3 DEF AddAnswered, TypeOK
  <2>7. Made(server, s, k)
    BY <1>1, <1>2, <1>3, <2>1, <2>2 DEF Known
  <2>8. view'[s].page = view[s].page /\ view'[s].title = view[s].title
          /\ view'[s].set = view[s].set /\ view'[s].rows = rows
          => (Agrees(s) /\ Replaced(i, None) => Agrees(s)')
    <3>. SUFFICES ASSUME view'[s].page = view[s].page, view'[s].title = view[s].title,
                         view'[s].set = view[s].set, view'[s].rows = rows,
                         Agrees(s), Replaced(i, None)
                  PROVE  Agrees(s)'
      OBVIOUS
    <3>1. requests[i].found = k /\ server' = server /\ cache'[s] = cache[s]
      BY <1>1, <1>5, <1>7, <2>2
    <3>2. \A n : Shows(view'[s].rows, n) <=> Shows(view[s].rows, n) \/ n = k
      BY <2>5
    <3>3. EachOnce(view[s].rows) /\ ~Shows(view[s].rows, k) => EachOnce(view'[s].rows)
      BY <2>5
    <3> QED
      BY <2>1, <3>1, <3>2, <3>3, AddedAgrees
  <2> QED
    BY <1>11, <2>5, <2>6, <2>7, <2>8
<1>13. CASE RemoveAnswered(i)
  <2>1. q.op = "remove" /\ DoneAt(i, s, "remove")
    BY <1>1, <1>13 DEF RemoveAnswered, Answered, DoneAt, At
  <2>2. PICK k, rows : k = q.what /\ rows = RemoveRow(view[s].rows, k)
    OBVIOUS
  <2>3. /\ rows \in Seq(Row)
        /\ \A n : Shows(rows, n) => Shows(view[s].rows, n)
        /\ EachOnce(view[s].rows) =>
             /\ EachOnce(rows)
             /\ \A n : Shows(rows, n) <=> Shows(view[s].rows, n) /\ n # k
    BY <1>4, <2>2, RowRemoved
  <2>4. view' = [view EXCEPT ![s] = [view[s] EXCEPT !.rows = rows]]
    BY <1>1, <1>3, <1>13, <2>2 DEF RemoveAnswered, TypeOK
  <2>5. view'[s].page = view[s].page /\ view'[s].title = view[s].title
          /\ view'[s].set = view[s].set /\ view'[s].rows = rows
          => (Agrees(s) /\ Replaced(i, None) => Agrees(s)')
    <3>. SUFFICES ASSUME view'[s].page = view[s].page, view'[s].title = view[s].title,
                         view'[s].set = view[s].set, view'[s].rows = rows,
                         Agrees(s), Replaced(i, None)
                  PROVE  Agrees(s)'
      OBVIOUS
    <3>1. requests[i].what = k /\ server' = server /\ cache'[s] = cache[s]
          /\ s \in Servers /\ KeysMade
      BY <1>1, <1>3, <1>5, <1>7, <2>2
    <3>2. \A n : Shows(view'[s].rows, n) => Shows(view[s].rows, n)
      BY <2>3
    <3>3. EachOnce(view[s].rows) =>
            /\ EachOnce(view'[s].rows)
            /\ \A n : Shows(view'[s].rows, n) <=> Shows(view[s].rows, n) /\ n # k
      BY <2>3
    <3> QED
      BY <2>1, <3>1, <3>2, <3>3, RemovedAgrees
  <2> QED
    BY <1>11, <2>3, <2>4, <2>5
<1> QED
  BY <1>12, <1>13

(* What is shown when a setting was saved.                                 *)
LEMMA SavedShown ==
  ASSUME NEW w \in View, NEW r, RequestOK(r), r.op = "set", NEW u, u = Saved(r, w)
  PROVE  /\ u \in View /\ u.page = w.page /\ u.rows = w.rows
         /\ u.title = IF r.what = "name" THEN r.value ELSE w.title
         /\ \A y \in Settings \ {"name", r.what} : u.set[y] = w.set[y]
         /\ r.what \in {"metrics", "limit"} => u.set[r.what] = r.value
         /\ r.what \in Validated => u.set[r.what] = w.set[r.what]
<1>1. r.what \in Settings /\ r.value \in Values /\ r.value \in Values \cup {None}
  BY RequestFields
<1>2. PICK x, v : x = r.what /\ v = r.value
  OBVIOUS
<1>3. w.set \in Shown /\ w.title \in Values \cup {None}
      /\ w.saved \in [Validated -> Values \cup {None}]
  BY DEF View
<1>4. CASE x = "name"
  <2>1. PICK e : e = IF w.title = v THEN w.set["name"] ELSE v
    OBVIOUS
  <2>2. PICK c : c = [w.set EXCEPT !["name"] = e]
    OBVIOUS
  <2>3. u = Renamed(w, v)
    <3>1. r.what = "name" /\ r.what \notin Validated
      BY <1>2, <1>4 DEF Validated
    <3> QED
      BY <1>2, <3>1 DEF Saved
  <2>4. u = [w EXCEPT !.title = v, !.set = c]
    BY <2>1, <2>2, <2>3 DEF Renamed, View
  <2>5. "name" \in Settings /\ e \in Values \cup {None}
    BY <1>1, <1>2, <1>3, <2>1 DEF Settings, Shown
  <2>6. c \in Shown /\ \A y \in Settings \ {"name"} : c[y] = w.set[y]
    BY <1>3, <2>2, <2>5 DEF Shown
  <2>7. u \in View /\ u.page = w.page /\ u.rows = w.rows /\ u.title = v /\ u.set = c
    BY <1>1, <1>2, <2>4, <2>6 DEF View
  <2>8. r.what \notin {"metrics", "limit"} /\ r.what \notin Validated
    BY <1>2, <1>4 DEF Validated
  <2> QED
    BY <1>2, <1>4, <2>6, <2>7, <2>8
<1>5. CASE x \in Validated
  <2>1. PICK c : c = [w.saved EXCEPT ![x] = w.set[x]]
    OBVIOUS
  <2>2. x # "name" /\ x \notin {"metrics", "limit"} /\ x \in Settings
    BY <1>5 DEF Validated, Settings
  <2>3. u = [w EXCEPT !.saved[r.what] = w.set[r.what]]
    BY <1>2, <1>5, <2>2 DEF Saved
  <2>4. u = [w EXCEPT !.saved = c]
    BY <1>2, <2>1, <2>3 DEF View
  <2>5. c \in [Validated -> Values \cup {None}]
    BY <1>3, <1>5, <2>1, <2>2 DEF Shown
  <2>6. u \in View /\ u.page = w.page /\ u.rows = w.rows /\ u.title = w.title /\ u.set = w.set
    BY <2>4, <2>5 DEF View
  <2> QED
    BY <1>2, <2>2, <2>6
<1>6. CASE x \in {"metrics", "limit"}
  <2>1. x # "name" /\ x \notin Validated /\ x \in Settings
    BY <1>6 DEF Validated, Settings
  <2>2. u = [w EXCEPT !.set[x] = v]
    <3>1. CASE x = "metrics"
      BY <1>2, <2>1, <3>1 DEF Saved, MetricsEnabled
    <3>2. CASE x = "limit"
      BY <1>2, <2>1, <3>2 DEF Saved
    <3> QED
      BY <1>6, <3>1, <3>2
  <2>3. PICK c : c = [w.set EXCEPT ![x] = v]
    OBVIOUS
  <2>4. u = [w EXCEPT !.set = c]
    BY <2>2, <2>3 DEF View
  <2>5. c \in Shown /\ c[x] = v /\ \A y \in Settings \ {x} : c[y] = w.set[y]
    BY <1>1, <1>2, <1>3, <2>1, <2>3 DEF Shown
  <2>6. u \in View /\ u.page = w.page /\ u.rows = w.rows /\ u.title = w.title /\ u.set = c
    BY <2>4, <2>5 DEF View
  <2> QED
    BY <1>2, <2>1, <2>5, <2>6
<1>7. x = "name" \/ x \in Validated \/ x \in {"metrics", "limit"}
  BY <1>1, <1>2 DEF Settings, Validated
<1> QED
  BY <1>4, <1>5, <1>6, <1>7

(* A setting was saved.                                                    *)
LEMMA SetAgrees ==
  ASSUME NEW i \in Causes, NEW r, Replaced(i, r), r # None => r.op = "stats",
         NEW s, DoneAt(i, s, "set"), Agrees(s), server' = server,
         NEW x \in Settings, requests[i].what = x, NEW v, requests[i].value = v,
         cache[s] \in Config, cache[s] # None, cache'[s] = [cache[s] EXCEPT ![x] = v],
         view'[s].page = view[s].page, view'[s].rows = view[s].rows,
         view'[s].title = IF x = "name" THEN v ELSE view[s].title,
         \A y \in Settings \ {"name", x} : view'[s].set[y] = view[s].set[y],
         x \in {"metrics", "limit"} => view'[s].set[x] = v,
         x \in Validated => view'[s].set[x] = view[s].set[x]
  PROVE  Agrees(s)'
<1>1. Apart(s) /\ AnswersHold(s) /\ CopyAgrees(s) /\ PageAgrees(s) /\ KeysAgree(s)
  BY DEF Agrees, SettingsAgree
<1>2. /\ \A j \in Causes \ {i} : requests'[j] = requests[j]
      /\ \A j \in Causes \ {i} : \A op : At(j, s, op)' <=> At(j, s, op)
      /\ \A j \in Causes \ {i} : \A op : DoneAt(j, s, op)' <=> DoneAt(j, s, op)
      /\ \A op : op # "stats" => ~At(i, s, op)' /\ ~DoneAt(i, s, op)'
      /\ Fewer(s)
  BY OthersLeft
<1>3. Apart(s)'
  BY <1>1, <1>2, ApartFewer
<1>4. At(i, s, "set")
  BY DEF DoneAt
<1>5. KeysAgree(s)'
  <2>1. requests[i].op \notin {"list", "add", "remove"}
    BY <1>4 DEF At
  <2>2. r # None => r.op \notin {"list", "add", "remove"}
    OBVIOUS
  <2>3. Kept(s, {"list", "add", "remove"})
    BY <2>1, <2>2, ReplacedKept
  <2> QED
    BY <1>1, <2>3, KeysKept
<1>6. /\ \A j \in Causes : ~At(j, s, "config")
      /\ \A j \in Causes \ {i} : At(j, s, "set") => requests[j].what # x
  BY <1>1, <1>4 DEF Apart
<1>7. /\ server[s].set[x] = v
      /\ x \in Validated => view[s].set[x] = v
  BY <1>1, <1>4 DEF AnswersHold
<1>8. \A y : y # x => (Setting(s, y)' <=> Setting(s, y))
  BY <1>2 DEF Setting
<1>9. AnswersHold(s)'
  <2>1. \A j \in Causes : At(j, s, "set")' =>
          At(j, s, "set") /\ requests'[j] = requests[j] /\ requests[j].what # x
    BY <1>2, <1>6
  <2>2. \A j \in Causes : DoneAt(j, s, "set")' => DoneAt(j, s, "set") /\ requests'[j] = requests[j]
    BY <1>2
  <2>3. \A j \in Causes : ~DoneAt(j, s, "config")'
    BY <1>2, <1>6 DEF DoneAt
  <2>4. \A y \in Validated : y # x => view'[s].set[y] = view[s].set[y]
    BY DEF Validated, Settings
  <2>5. \A j \in Causes : At(j, s, "set")' /\ requests'[j].what \in Validated =>
          view'[s].set[requests'[j].what] = requests'[j].value
    BY <1>1, <2>1, <2>4 DEF AnswersHold
  <2>6. \A j \in Causes : DoneAt(j, s, "set")' =>
          server'[s].set[requests'[j].what] = requests'[j].value
    BY <1>1, <2>2 DEF AnswersHold
  <2> QED
    BY <2>3, <2>5, <2>6 DEF AnswersHold
<1>10. CopyAgrees(s)'
  <2>1. cache'[s][x] = v /\ \A y \in Settings \ {x} : cache'[s][y] = cache[s][y]
    BY DEF Config
  <2> QED
    BY <1>1, <1>7, <1>8, <2>1 DEF CopyAgrees
<1>11. PageAgrees(s)'
  <2> SUFFICES ASSUME view'[s].page = "management"
               PROVE  /\ Setting(s, "name")' \/ view'[s].title = server'[s].set["name"]
                      /\ \A y \in Settings \ {"name"} :
                           Setting(s, y)' \/ view'[s].set[y] = server'[s].set[y]
    BY DEF PageAgrees
  <2>1. /\ Setting(s, "name") \/ view[s].title = server[s].set["name"]
        /\ \A y \in Settings \ {"name"} :
             Setting(s, y) \/ view[s].set[y] = server[s].set[y]
    BY <1>1 DEF PageAgrees
  <2>2. Setting(s, "name")' \/ view'[s].title = server'[s].set["name"]
    BY <1>7, <1>8, <2>1
  <2>3. ASSUME NEW y \in Settings \ {"name"}
        PROVE  Setting(s, y)' \/ view'[s].set[y] = server'[s].set[y]
    <3>1. CASE y # x
      BY <1>8, <2>1, <3>1
    <3>2. CASE y = x
      <4>1. x \in {"metrics", "limit"} \/ x \in Validated
        BY <3>2 DEF Settings, Validated
      <4> QED
        BY <1>7, <3>2, <4>1
    <3> QED
      BY <3>1, <3>2
  <2> QED
    BY <2>2, <2>3
<1> QED
  BY <1>3, <1>5, <1>9, <1>10, <1>11 DEF Agrees, SettingsAgree

LEMMA SetStep ==
  ASSUME ViewInv, NEW i \in Causes, SetAnswered(i) PROVE ViewInv'
<1>1. PICK q, s, x, v : q = requests[i] /\ s = q.server /\ x = q.what /\ v = q.value
  OBVIOUS
<1>2. q # None /\ q.pc = "done" /\ q.op = "set" /\ DoneAt(i, s, "set") /\ cache[s] # None
  BY <1>1 DEF SetAnswered, Answered, DoneAt, At
<1>3. TypeOK /\ RequestOK(q) /\ s \in Servers /\ faults \in 0 .. MaxFaults
      /\ live \subseteq Servers /\ selected \in Servers
  BY <1>1, <1>2, AnswerFields
<1>4. x \in Settings /\ v \in Values
  BY <1>1, <1>2, <1>3, RequestFields
<1>5. view[s] \in View /\ cache[s] \in Config
  BY <1>2, <1>3, ViewFields
<1>6. PICK w, c : w = Saved(q, view[s]) /\ c = [cache[s] EXCEPT ![x] = v]
  OBVIOUS
<1>7. view' = [view EXCEPT ![s] = w]
  BY <1>1, <1>3, <1>6 DEF SetAnswered, TypeOK
<1>8. cache' = [cache EXCEPT ![s] = c]
  BY <1>1, <1>3, <1>6 DEF SetAnswered, TypeOK
<1>9. UNCHANGED <<server, selected, live, taps, faults>>
  BY DEF SetAnswered
<1>10. /\ w \in View /\ w.page = view[s].page /\ w.rows = view[s].rows
       /\ w.title = IF x = "name" THEN v ELSE view[s].title
       /\ \A y \in Settings \ {"name", x} : w.set[y] = view[s].set[y]
       /\ x \in {"metrics", "limit"} => w.set[x] = v
       /\ x \in Validated => w.set[x] = view[s].set[x]
  <2>1. w = Saved(q, view[s])
    BY <1>6
  <2> QED
    BY <1>1, <1>2, <1>3, <1>5, <2>1, SavedShown
<1>11. c \in Config /\ c # None
  <2>1. c \in Config
    BY <1>4, <1>5, <1>6 DEF Config
  <2> QED
    BY <2>1, NoneAssumption
<1>12. PICK r : r = IF x = "limit" THEN Stats(selected, s) ELSE None
  OBVIOUS
<1>13. r # None => RequestOK(r) /\ r.op = "stats" /\ r.pc = "sent" /\ r.server = selected
  BY <1>3, <1>12, StatsSent
<1>14. /\ requests' = [requests EXCEPT ![i] = r]
       /\ disturbed \subseteq disturbed' /\ disturbed' \subseteq Servers
  <2>1. CASE x = "limit"
    <3>1. Then(i, r) /\ r.server = selected
      BY <1>1, <1>3, <1>12, <2>1, StatsSent DEF SetAnswered
    <3> QED
      BY <1>3, <3>1, HandlerGoesOn
  <2>2. CASE x # "limit"
    BY <1>1, <1>12, <2>2, HandlerEnds DEF SetAnswered
  <2> QED
    BY <2>1, <2>2
<1>15. Harmless(r)
  BY <1>13, SentHarmless DEF Harmless
<1>16. view'[s] = w /\ cache'[s] = [cache[s] EXCEPT ![x] = v]
  BY <1>3, <1>6, <1>7, <1>8, <1>10, ViewPut DEF TypeOK
<1>17. Agrees(s) /\ Replaced(i, r) => Agrees(s)'
  <2>. SUFFICES ASSUME Agrees(s), Replaced(i, r) PROVE Agrees(s)'
    OBVIOUS
  <2>1. requests[i].what = x /\ requests[i].value = v /\ server' = server
        /\ (r # None => r.op = "stats")
    BY <1>1, <1>9, <1>13
  <2>2. /\ view'[s].page = view[s].page /\ view'[s].rows = view[s].rows
        /\ view'[s].title = IF x = "name" THEN v ELSE view[s].title
        /\ \A y \in Settings \ {"name", x} : view'[s].set[y] = view[s].set[y]
        /\ x \in {"metrics", "limit"} => view'[s].set[x] = v
        /\ x \in Validated => view'[s].set[x] = view[s].set[x]
    BY <1>10, <1>16
  <2> QED
    BY <1>2, <1>4, <1>5, <1>16, <2>1, <2>2, SetAgrees
<1>18. requests[i] # None /\ requests[i].server = s /\ (r # None => r.op = "stats")
       /\ \A k : Shows(w.rows, k) => Shows(view[s].rows, k)
  BY <1>1, <1>2, <1>10, <1>13
<1>19. /\ UNCHANGED <<server, taps>> /\ faults' \in 0 .. MaxFaults
       /\ selected' \in Servers /\ live' \subseteq Servers
  BY <1>3, <1>9
<1>20. w \in View /\ s \in Servers
  BY <1>3, <1>10
<1> QED
  BY <1>7, <1>8, <1>11, <1>14, <1>15, <1>17, <1>18, <1>19, <1>20, HandledAt

(* The page is replaced when the time is up.                               *)
LEMMA UnheardAgrees ==
  ASSUME NEW i \in Causes, NEW r, Replaced(i, r), r # None, NEW s,
         At(i, s, "config"), Agrees(s), server' = server, cache'[s] = cache[s],
         r.op = "config", r.server = s, r.what = requests[i].what,
         r.pc = requests[i].pc, r.found = requests[i].found,
         view'[s].set = view[s].set, view'[s].rows = view[s].rows,
         view'[s].page # "management"
  PROVE  Agrees(s)'
<1>1. Apart(s) /\ AnswersHold(s) /\ CopyAgrees(s) /\ KeysAgree(s)
  BY DEF Agrees, SettingsAgree
<1>2. /\ \A j \in Causes \ {i} : requests'[j] = requests[j]
      /\ \A j \in Causes : \A op : At(j, s, op)' <=> At(j, s, op)
      /\ requests'[i] = r /\ ~At(i, s, "set")
  BY DEF Replaced, At
<1>3. Apart(s)'
  <2>1. requests[i] # None /\ r.server = requests[i].server /\ r.op = requests[i].op
    BY DEF At
  <2>2. Fewer(s)
    BY <2>1, ReplacedFewer
  <2> QED
    BY <1>1, <2>2, ApartFewer
<1>4. AnswersHold(s)'
  <2>1. ASSUME NEW j \in Causes
        PROVE  /\ DoneAt(j, s, "config")' => requests'[j].found = server'[s].set
               /\ DoneAt(j, s, "set")' =>
                    server'[s].set[requests'[j].what] = requests'[j].value
               /\ At(j, s, "set")' /\ requests'[j].what \in Validated =>
                    view'[s].set[requests'[j].what] = requests'[j].value
    <3>1. CASE j = i
      BY <1>1, <1>2, <3>1 DEF AnswersHold, DoneAt
    <3>2. CASE j # i
      BY <1>1, <1>2, <3>2 DEF AnswersHold, DoneAt
    <3> QED
      BY <3>1, <3>2
  <2> QED
    BY <2>1 DEF AnswersHold
<1>5. \A x : Setting(s, x)' <=> Setting(s, x)
  BY <1>2 DEF Setting
<1>6. CopyAgrees(s)' /\ PageAgrees(s)'
  BY <1>1, <1>5 DEF CopyAgrees, PageAgrees
<1>7. KeysAgree(s)'
  <2>1. requests[i].op \notin {"list", "add", "remove"} /\ r.op \notin {"list", "add", "remove"}
    BY DEF At
  <2>2. Kept(s, {"list", "add", "remove"})
    BY <2>1, ReplacedKept
  <2> QED
    BY <1>1, <2>2, KeysKept
<1> QED
  BY <1>3, <1>4, <1>6, <1>7 DEF Agrees, SettingsAgree

LEMMA TimeoutStep ==
  ASSUME ViewInv, NEW i \in Causes, HealthTimeout(i) PROVE ViewInv'
<1>1. PICK q, s, c : q = requests[i] /\ s = q.server /\ c = cache[s]
  OBVIOUS
<1>2. q # None /\ q.op = "config" /\ At(i, s, "config")
  BY <1>1 DEF HealthTimeout, At
<1>3. TypeOK /\ RequestOK(q) /\ s \in Servers /\ faults \in 0 .. MaxFaults
      /\ live \subseteq Servers /\ selected \in Servers
  BY <1>1, <1>2, AnswerFields
<1>4. view[s] \in View /\ (c = None \/ c \in Config)
  BY <1>1, <1>3, ViewFields
<1>5. UNCHANGED <<server, cache, selected, live, disturbed, taps, faults>>
  BY DEF HealthTimeout
<1>6. PICK r : r = [q EXCEPT !.waits = FALSE]
  OBVIOUS
<1>7. /\ RequestOK(r) /\ r # None
      /\ r.op = q.op /\ r.server = q.server /\ r.what = q.what
      /\ r.value = q.value /\ r.pc = q.pc /\ r.found = q.found
  BY <1>3, <1>6, RequestUnheard
<1>8. requests' = [requests EXCEPT ![i] = r]
  BY <1>1, <1>6 DEF HealthTimeout, ViewInv, RequestsOK
<1>9. PICK w : w = [view[s] EXCEPT !.page = "unreachable"]
  OBVIOUS
<1>10. w \in View /\ w.page # "management" /\ w.set = view[s].set /\ w.rows = view[s].rows
  BY <1>4, <1>9 DEF View
<1>11. view' = [view EXCEPT ![s] = w]
  BY <1>1, <1>3, <1>9 DEF HealthTimeout, Unreachable, TypeOK
<1>12. view'[s] = w
  BY <1>3, <1>10, <1>11, ViewPut
<1>13. cache' = [cache EXCEPT ![s] = c] /\ cache'[s] = cache[s]
  BY <1>1, <1>3, <1>5 DEF TypeOK
<1>14. Harmless(r)
  BY <1>2, <1>7 DEF Harmless, Known
<1>15. Agrees(s) /\ Replaced(i, r) => Agrees(s)'
  <2>1. /\ r.op = "config" /\ r.server = s /\ r.what = requests[i].what
        /\ r.pc = requests[i].pc /\ r.found = requests[i].found /\ server' = server
    BY <1>1, <1>2, <1>5, <1>7
  <2>2. /\ view'[s].set = view[s].set /\ view'[s].rows = view[s].rows
        /\ view'[s].page # "management"
    BY <1>10, <1>12
  <2> QED
    BY <1>2, <1>7, <1>13, <2>1, <2>2, UnheardAgrees
<1>16. /\ requests[i] # None /\ requests[i].server = s /\ r.server = s
       /\ w \in View /\ s \in Servers /\ w.page # "management"
       /\ \A k : Shows(w.rows, k) => Shows(view[s].rows, k)
  BY <1>1, <1>2, <1>3, <1>7, <1>10
<1>17. /\ UNCHANGED <<server, taps>> /\ faults' \in 0 .. MaxFaults
       /\ selected' \in Servers /\ live' \subseteq Servers
       /\ disturbed \subseteq disturbed' /\ disturbed' \subseteq Servers
  BY <1>3, <1>5 DEF TypeOK
<1> QED
  BY <1>4, <1>8, <1>11, <1>13, <1>14, <1>15, <1>16, <1>17, HandledAt

(* A request to remove a key was rejected.                                 *)
LEMMA RejectedAgrees ==
  ASSUME NEW i \in Causes, Replaced(i, None), NEW s, At(i, s, "remove"),
         requests[i].pc = "rejected", Agrees(s),
         server' = server, cache'[s] = cache[s], view'[s] = view[s]
  PROVE  Agrees(s)'
<1>1. Apart(s) /\ SettingsAgree(s) /\ AddedIsNew(s) /\ RowsAgree(s)
  BY DEF Agrees, KeysAgree
<1>2. /\ \A j \in Causes \ {i} : requests'[j] = requests[j]
      /\ \A j \in Causes \ {i} : \A op : At(j, s, op)' <=> At(j, s, op)
      /\ \A j \in Causes \ {i} : \A op : DoneAt(j, s, op)' <=> DoneAt(j, s, op)
      /\ \A op : op # "stats" => ~At(i, s, op)' /\ ~DoneAt(i, s, op)'
      /\ Fewer(s)
  BY OthersLeft
<1>3. Apart(s)'
  BY <1>1, <1>2, ApartFewer
<1>4. SettingsAgree(s)'
  <2>1. requests[i].op \notin {"config", "set"}
    BY DEF At
  <2>2. Kept(s, {"config", "set"})
    BY <2>1, ReplacedKept
  <2> QED
    BY <1>1, <2>2, SettingsKept
<1>5. \A j \in Causes : ~At(j, s, "list")
  BY <1>1 DEF Apart
<1>6. ListHolds(s)'
  BY <1>2, <1>5 DEF ListHolds, DoneAt
<1>7. \A op : ~DoneAt(i, s, op)
  BY DEF DoneAt
<1>8. AddedIsNew(s)'
  <2>1. \A j \in Causes : DoneAt(j, s, "add")' =>
          DoneAt(j, s, "add") /\ requests'[j] = requests[j]
    BY <1>2
  <2>2. \A j \in Causes : At(j, s, "remove")' =>
          At(j, s, "remove") /\ requests'[j] = requests[j]
    BY <1>2
  <2> QED
    BY <1>1, <2>1, <2>2 DEF AddedIsNew
<1>9. \A k : (Added(s, k)' <=> Added(s, k)) /\ (Removed(s, k)' <=> Removed(s, k))
  BY <1>2, <1>7 DEF Added, Removed
<1>10. RowsAgree(s)'
  BY <1>1, <1>5, <1>9 DEF RowsAgree
<1> QED
  BY <1>3, <1>4, <1>6, <1>8, <1>10 DEF Agrees, KeysAgree

(* What is shown when a setting was not saved.                             *)
LEMMA NotSavedShown ==
  ASSUME TypeOK, NEW w \in View, NEW r, RequestOK(r), NEW u, u = NotSaved(r, w)
  PROVE  u \in View /\ u.page = w.page /\ u.rows = w.rows
<1>1. PICK old : old = IF cache[selected] = None THEN None ELSE cache[selected]["name"]
  OBVIOUS
<1>2. old \in Values \cup {None} /\ r.prev \in Values \cup {None}
  BY <1>1, RequestFields DEF TypeOK, Config, Settings
<1>3. w.set \in Shown /\ w.title \in Values \cup {None}
  BY DEF View
<1>4. CASE r.what = "name"
  <2>1. PICK c : c = [w.set EXCEPT !["name"] = old]
    OBVIOUS
  <2>2. u = [w EXCEPT !.title = old, !.set = c]
    BY <1>1, <1>4, <2>1 DEF NotSaved, View
  <2>3. c \in Shown
    BY <1>2, <1>3, <2>1 DEF Shown
  <2> QED
    BY <1>2, <2>2, <2>3 DEF View
<1>5. CASE r.what = "limit"
  <2>1. PICK c : c = [w.set EXCEPT !["limit"] = r.prev]
    OBVIOUS
  <2>2. u = [w EXCEPT !.set = c]
    BY <1>5, <2>1 DEF NotSaved, View
  <2>3. c \in Shown
    BY <1>2, <1>3, <2>1 DEF Shown
  <2> QED
    BY <2>2, <2>3 DEF View
<1>6. CASE r.what \notin {"name", "limit"}
  BY <1>6 DEF NotSaved
<1> QED
  BY <1>4, <1>5, <1>6

LEMMA FailedStep ==
  ASSUME ViewInv, NEW i \in Causes, Failed(i) PROVE ViewInv'
<1>1. PICK q, s, c : q = requests[i] /\ s = q.server /\ c = cache[s]
  OBVIOUS
<1>2. q # None
  BY <1>1 DEF Failed
<1>3. TypeOK /\ RequestOK(q) /\ s \in Servers /\ faults \in 0 .. MaxFaults
      /\ live \subseteq Servers /\ selected \in Servers
  BY <1>1, <1>2, AnswerFields
<1>4. view[s] \in View /\ (c = None \/ c \in Config) /\ (view[s].page = "management" => c # None)
  BY <1>1, <1>3, ViewFields DEF TypeOK
<1>5. faults' \in 0 .. MaxFaults
  BY <1>3, ManagementAssumption DEF Failed, Fault
<1>6. /\ UNCHANGED <<server, cache, selected, taps>> /\ live' \subseteq Servers
      /\ selected' \in Servers
  BY <1>1, <1>3 DEF Failed
<1>7. disturbed \subseteq disturbed' /\ disturbed' \subseteq Servers
  BY <1>1, <1>3 DEF Failed, TypeOK
<1>8. PICK r : r = IF q.op = "list" THEN Stats(s, s) ELSE None
  OBVIOUS
<1>9. /\ r # None => RequestOK(r) /\ r.op = "stats" /\ r.pc = "sent" /\ q.op = "list"
      /\ requests' = [requests EXCEPT ![i] = r]
  BY <1>1, <1>3, <1>8, StatsSent DEF Failed
<1>10. PICK w : w = CASE q.op = "config" /\ q.waits -> Unreachable(view[s])
                      [] q.op = "set"               -> NotSaved(q, view[s])
                      [] OTHER                      -> view[s]
  OBVIOUS
<1>11. view' = [view EXCEPT ![s] = w]
  BY <1>1, <1>3, <1>10 DEF Failed, TypeOK
<1>12. cache' = [cache EXCEPT ![s] = c] /\ cache'[s] = cache[s]
  BY <1>1, <1>3, <1>6 DEF TypeOK
<1>13. q.op \in {"stats", "keyLimit", "remove"} => w = view[s]
  BY <1>10
<1>14. w \in View /\ w.rows = view[s].rows
       /\ (w.page = "management" => view[s].page = "management")
  <2>1. CASE q.op = "config" /\ q.waits
    <3>1. w = [view[s] EXCEPT !.page = "unreachable"]
      BY <1>10, <2>1 DEF Unreachable
    <3> QED
      BY <1>4, <3>1 DEF View
  <2>2. CASE q.op = "set"
    <3>1. w = NotSaved(q, view[s])
      BY <1>10, <2>2
    <3> QED
      BY <1>3, <1>4, <3>1, NotSavedShown
  <2>3. CASE q.op # "set" /\ ~(q.op = "config" /\ q.waits)
    <3>1. w = view[s]
      BY <1>10, <2>3
    <3> QED
      BY <1>4, <3>1
  <2> QED
    BY <2>1, <2>2, <2>3
<1>15. CASE q.op = "stats" \/ q.op = "keyLimit"
  <2>1. view' = view
    BY <1>3, <1>11, <1>13, <1>15 DEF TypeOK
  <2>2. view' \in [Servers -> View]
    BY <1>3, <2>1 DEF TypeOK
  <2>3. requests[i] # None /\ requests[i].op \in {"stats", "keyLimit"}
    BY <1>1, <1>2, <1>15
  <2> QED
    BY <1>5, <1>6, <1>7, <1>9, <2>1, <2>2, <2>3, HandledStats
<1>16. CASE q.op # "stats" /\ q.op # "keyLimit"
  <2>1. s \notin disturbed' => (Agrees(s) /\ Replaced(i, r) => Agrees(s)')
    <3> SUFFICES ASSUME s \notin disturbed', Agrees(s), Replaced(i, r) PROVE Agrees(s)'
      OBVIOUS
    <3>1. q.pc = "rejected"
      BY <1>1, <1>16 DEF Failed
    <3>2. q.op = "remove"
      BY <1>3, <1>16, <3>1 DEF RequestOK
    <3>3. r = None /\ server' = server /\ At(i, s, "remove") /\ requests[i].pc = "rejected"
      BY <1>1, <1>2, <1>6, <1>8, <3>1, <3>2 DEF At
    <3>4. view'[s] = view[s]
      BY <1>3, <1>11, <1>13, <1>14, <3>2, ViewPut
    <3> QED
      BY <1>12, <3>3, <3>4, RejectedAgrees
  <2>2. Harmless(r)
    BY <1>9, SentHarmless DEF Harmless
  <2>3. /\ requests[i] # None /\ requests[i].server = s /\ s \in Servers /\ w \in View
        /\ (r # None => r.op = "stats")
        /\ (w.page = "management" => c # None)
        /\ \A k : Shows(w.rows, k) => Shows(view[s].rows, k)
    <3>1. requests[i] # None /\ requests[i].server = s
      BY <1>1, <1>2
    <3>2. r # None => r.op = "stats"
      BY <1>9
    <3>3. w.page = "management" => c # None
      BY <1>4, <1>14
    <3>4. \A k : Shows(w.rows, k) => Shows(view[s].rows, k)
      BY <1>14
    <3> QED
      BY <1>3, <1>14, <3>1, <3>2, <3>3, <3>4
  <2>4. UNCHANGED <<server, taps>> /\ requests' = [requests EXCEPT ![i] = r]
        /\ (c = None \/ c \in Config)
    BY <1>4, <1>6, <1>9
  <2>5. /\ faults' \in 0 .. MaxFaults /\ selected' \in Servers /\ live' \subseteq Servers
        /\ disturbed \subseteq disturbed' /\ disturbed' \subseteq Servers
        /\ view' = [view EXCEPT ![s] = w] /\ cache' = [cache EXCEPT ![s] = c]
    BY <1>5, <1>6, <1>7, <1>11, <1>12
  <2> QED
    BY <2>1, <2>2, <2>3, <2>4, <2>5, HandledAt
<1> QED
  BY <1>15, <1>16

----------------------------------------------------------------------------
(* The invariant is one.                                                   *)
LEMMA FirstValues ==
  /\ FirstConfig \in Config /\ FirstConfig # None
  /\ FirstKeys \in KeyStates /\ Listed(FirstKeys) = {1} /\ 1 \in Keys
  /\ BlankView \in View /\ LoadedView \in View
  /\ \A k : ~Shows(BlankView.rows, k)
  /\ \A k : Shows(LoadedView.rows, k) <=> k = 1
  /\ EachOnce(LoadedView.rows)
<1>1. FirstConfig \in Config
  BY DEF FirstConfig, Config, Values
<1>2. FirstConfig # None
  BY <1>1, NoneAssumption
<1>3. 1 \in Keys
  BY ManagementAssumption DEF Keys
<1>4. FirstKeys \in KeyStates
  BY DEF FirstKeys, KeyStates
<1>5. Listed(FirstKeys) = {1}
  BY <1>3 DEF FirstKeys, Listed, Exists
<1> DEFINE row == [key |-> 1, limited |-> FALSE]
<1>6. row \in Row /\ row.key = 1
  BY <1>3 DEF Row
<1> HIDE DEF row
<1>7. <<row>> \in Seq(Row) /\ DOMAIN <<row>> = {1} /\ <<row>>[1] = row /\ <<>> \in Seq(Row)
      /\ DOMAIN <<>> = {}
  BY <1>6
<1>8. BlankView.rows = <<>> /\ LoadedView.rows = <<row>>
  BY DEF BlankView, LoadedView, row
<1>9. BlankView \in View
  <2>1. [x \in Settings |-> IF x \in {"metrics", "limit"} THEN 0 ELSE None] \in Shown
    BY DEF Shown, Values
  <2>2. [x \in Validated |-> None] \in [Validated -> Values \cup {None}]
    OBVIOUS
  <2> QED
    BY <1>7, <2>1, <2>2 DEF BlankView, View
<1>10. LoadedView \in View
  <2>1. FirstConfig \in Shown
    BY DEF FirstConfig, Shown, Values
  <2>2. [x \in Validated |-> 0] \in [Validated -> Values \cup {None}]
    BY DEF Values
  <2>3. 0 \in Values
    BY DEF Values
  <2> QED
    BY <1>7, <2>1, <2>2, <2>3 DEF LoadedView, View, row
<1>11. \A k : ~Shows(BlankView.rows, k)
  BY <1>7, <1>8 DEF Shows
<1>12. \A k : Shows(LoadedView.rows, k) <=> k = 1
  BY <1>6, <1>7, <1>8 DEF Shows
<1>13. EachOnce(LoadedView.rows)
  BY <1>7, <1>8 DEF EachOnce
<1> QED
  BY <1>1, <1>2, <1>3, <1>4, <1>5, <1>9, <1>10, <1>11, <1>12, <1>13

LEMMA InitViewInv == Init => ViewInv
<1> SUFFICES ASSUME Init PROVE ViewInv
  OBVIOUS
<1>1. /\ server = [s \in Servers |-> [set |-> FirstConfig, keys |-> FirstKeys]]
      /\ selected = First /\ disturbed = {} /\ taps = 0 /\ faults = 0
  BY DEF Init
<1>2. PICK loading \in SUBSET {selected} :
        /\ cache = [s \in Servers |-> IF s \in loading THEN None ELSE FirstConfig]
        /\ view = [s \in Servers |-> IF s \in loading THEN BlankView ELSE LoadedView]
        /\ requests = [i \in Causes |->
             IF i[1] = "load" /\ i[2] \in loading
             THEN NewRequest("config", i[2], i[2], None, None) ELSE None]
        /\ live = {selected} \ loading
  BY DEF Init
<1>3. loading \subseteq Servers
  BY <1>1, <1>2, ManagementAssumption
<1>4. ASSUME NEW i \in Causes, requests[i] # None
      PROVE  /\ RequestOK(requests[i]) /\ requests[i].op = "config"
             /\ requests[i].pc = "sent" /\ requests[i].server \in loading
             /\ i[1] = "load"
  <2>1. i[1] = "load" /\ i[2] \in loading
        /\ requests[i] = NewRequest("config", i[2], i[2], None, None)
    BY <1>2, <1>4
  <2>2. "config" \in Operations /\ None \in Subjects("config") /\ None \in Values \cup {None}
        /\ "config" # "set"
    BY DEF Operations, Subjects
  <2>3. PICK s, r : s = i[2] /\ r = requests[i]
    OBVIOUS
  <2>4. s \in Servers /\ r = NewRequest("config", s, s, None, None)
    BY <1>3, <2>1, <2>3
  <2>5. RequestOK(r) /\ r.op = "config" /\ r.pc = "sent" /\ r.server = s
    BY <2>2, <2>4, RequestSent
  <2> QED
    BY <2>1, <2>3, <2>5
<1>5. RequestsOK
  <2>1. FreshTaps
    <3>1. ASSUME NEW n \in 1 .. MaxTaps PROVE requests[<<"tap", n>>] = None
      <4>1. <<"tap", n>> \in Causes
        BY DEF Causes
      <4>2. <<"tap", n>>[1] # "load"
        OBVIOUS
      <4> QED
        BY <1>4, <4>1, <4>2
    <3> QED
      BY <3>1 DEF FreshTaps
  <2>2. DOMAIN requests = Causes
    BY <1>2
  <2> QED
    BY <1>4, <2>1, <2>2 DEF RequestsOK
<1>6. \A s \in Servers :
        /\ server[s].set = FirstConfig /\ server[s].keys = FirstKeys
        /\ cache[s] = IF s \in loading THEN None ELSE FirstConfig
        /\ view[s] = IF s \in loading THEN BlankView ELSE LoadedView
  BY <1>1, <1>2
<1>7. BlankView.page = "blank" /\ LoadedView.title = 0 /\ LoadedView.set = FirstConfig
      /\ FirstConfig["name"] = 0
  BY DEF BlankView, LoadedView, FirstConfig, Settings
<1>8. TypeOK
  <2>1. /\ server \in [Servers -> [set : Config, keys : KeyStates]]
        /\ cache \in [Servers -> Config \cup {None}]
        /\ view \in [Servers -> View]
    BY <1>1, <1>2, FirstValues
  <2>2. \A s \in Servers : view[s].page = "management" => cache[s] # None
    BY <1>6, <1>7, FirstValues
  <2>3. selected \in Servers /\ live \subseteq Servers /\ disturbed \subseteq Servers
        /\ taps \in 0 .. MaxTaps /\ faults \in 0 .. MaxFaults
    BY <1>1, <1>2, ManagementAssumption
  <2>4. DOMAIN requests = Causes
        /\ \A i \in Outstanding : requests[i].op \in Operations
                                  /\ requests[i] \in Request(requests[i].op)
    BY <1>5 DEF RequestsOK, RequestOK, Outstanding
  <2> QED
    BY <2>1, <2>2, <2>3, <2>4 DEF TypeOK
<1>9. KeysMade
  <2>1. ASSUME NEW s \in Servers, NEW k, Shows(view[s].rows, k) PROVE Made(server, s, k)
    <3>1. k = 1 /\ server[s].keys = FirstKeys
      BY <1>6, <2>1, FirstValues
    <3> QED
      BY <3>1, FirstValues DEF Made, Listed, Exists, KeyStates
  <2>2. \A i \in Causes : requests[i] # None => Known(server, requests[i])
    BY <1>4 DEF Known
  <2>3. \A i \in Causes : ~RemoveDone(i)
    BY <1>4 DEF RemoveDone
  <2> QED
    BY <2>1, <2>2, <2>3 DEF KeysMade
<1>10. ASSUME NEW s \in Servers PROVE Agrees(s)
  <2>1. \A i \in Causes : \A op : At(i, s, op) => op = "config" /\ s \in loading
    BY <1>4 DEF At
  <2>2. \A i \in Causes : \A op : ~DoneAt(i, s, op)
    BY <1>4 DEF DoneAt, At
  <2>3. Apart(s)
    BY <2>1 DEF Apart
  <2>4. AnswersHold(s)
    BY <2>1, <2>2 DEF AnswersHold
  <2>5. CopyAgrees(s)
    BY <1>6 DEF CopyAgrees
  <2>6. PageAgrees(s)
    BY <1>6, <1>7 DEF PageAgrees
  <2>7. ListHolds(s) /\ AddedIsNew(s)
    BY <2>2 DEF ListHolds, AddedIsNew
  <2>8. RowsAgree(s)
    <3>1. \A k : ~Added(s, k) /\ ~Removed(s, k)
      BY <2>2 DEF Added, Removed
    <3>2. view[s].page = "management" => view[s] = LoadedView
      BY <1>6, <1>7
    <3> QED
      BY <1>6, <3>1, <3>2, FirstValues DEF RowsAgree
  <2> QED
    BY <2>3, <2>4, <2>5, <2>6, <2>7, <2>8 DEF Agrees, SettingsAgree, KeysAgree
<1> QED
  BY <1>5, <1>8, <1>9, <1>10 DEF ViewInv

LEMMA NextViewInv == ViewInv /\ [Next]_vars => ViewInv'
<1> SUFFICES ASSUME ViewInv, [Next]_vars PROVE ViewInv'
  OBVIOUS
<1>1. CASE User
  BY <1>1, UserStep
<1>2. ASSUME NEW i \in Causes, Execute(i) PROVE ViewInv'
  BY <1>2, ExecuteStep
<1>3. ASSUME NEW i \in Causes, Answer(i) PROVE ViewInv'
  BY <1>3, ConfigStep, ListStep, StatsStep, RowStep, KeyLimitStep, SetStep DEF Answer
<1>4. ASSUME NEW i \in Causes, HealthTimeout(i) \/ Failed(i) PROVE ViewInv'
  BY <1>4, TimeoutStep, FailedStep
<1>5. ASSUME NEW s \in Servers, Tick(s) PROVE ViewInv'
  BY <1>5, TickStep
<1>6. CASE UNCHANGED vars
  <2>1. UNCHANGED <<server, cache, view, selected, requests, live, disturbed, taps, faults>>
    BY <1>6 DEF vars
  <2>2. taps' \in taps .. MaxTaps /\ disturbed' \subseteq Servers /\ selected' \in Servers
        /\ live' \subseteq Servers /\ view' \in [Servers -> View]
    BY <2>1, ManagementAssumption DEF ViewInv, TypeOK
  <2> QED
    BY <2>1, <2>2, OnlyShown
<1> QED
  BY <1>1, <1>2, <1>3, <1>4, <1>5, <1>6 DEF Next

(* At rest nothing is being set, added or removed.                         *)
LEMMA AgreesAtRest == ViewInv => ViewsAgreeAtRest
<1> SUFFICES ASSUME ViewInv, NEW s \in Servers \ disturbed,
                    Idle(s), view[s].page = "management"
             PROVE  /\ cache[s] = server[s].set
                    /\ view[s].title = server[s].set["name"]
                    /\ \A x \in Settings \ {"name"} : view[s].set[x] = server[s].set[x]
                    /\ {view[s].rows[n].key : n \in DOMAIN view[s].rows} = Listed(server[s].keys)
                    /\ \A m, n \in DOMAIN view[s].rows :
                         view[s].rows[m].key = view[s].rows[n].key => m = n
  BY DEF ViewsAgreeAtRest
<1>1. TypeOK /\ CopyAgrees(s) /\ PageAgrees(s) /\ RowsAgree(s)
  BY DEF ViewInv, Agrees, SettingsAgree, KeysAgree
<1>2. \A i \in Causes : \A op : ~At(i, s, op)
  BY DEF Idle, Outstanding, At
<1>3. /\ \A x : ~Setting(s, x)
      /\ \A k : ~Added(s, k) /\ ~Removed(s, k)
  BY <1>2 DEF Setting, Added, Removed, DoneAt
<1>4. cache[s] \in Config /\ server[s].set \in Config /\ cache[s] # None
  BY <1>1, ViewFields DEF TypeOK
<1>5. \A x \in Settings : cache[s][x] = server[s].set[x]
  BY <1>1, <1>3, <1>4 DEF CopyAgrees
<1>6. cache[s] = server[s].set
  BY <1>4, <1>5 DEF Config
<1>7. /\ view[s].title = server[s].set["name"]
      /\ \A x \in Settings \ {"name"} : view[s].set[x] = server[s].set[x]
  BY <1>1, <1>3 DEF PageAgrees
<1>8. /\ \A k \in Keys : Shows(view[s].rows, k) <=> k \in Listed(server[s].keys)
      /\ EachOnce(view[s].rows)
  BY <1>1, <1>2, <1>3 DEF RowsAgree
<1>9. \A n \in DOMAIN view[s].rows : view[s].rows[n].key \in Keys
  BY <1>1, ViewFields, RowsTyped
<1>10. {view[s].rows[n].key : n \in DOMAIN view[s].rows} = Listed(server[s].keys)
  BY <1>8, <1>9 DEF Shows, Listed
<1> QED
  BY <1>6, <1>7, <1>8, <1>10 DEF EachOnce

(* Everything has its type: a page is shown only for a server whose        *)
(* configuration was fetched, and every request carries what its handler   *)
(* reads (App, outline-server-view.js, shadowbox_server.ts).               *)
THEOREM TypeCorrect == Spec => []TypeOK
<1>1. ViewInv => TypeOK
  BY DEF ViewInv
<1> QED
  BY <1>1, InitViewInv, NextViewInv, PTL DEF Spec

(* When nothing is under way for a server, its page shows its settings and *)
(* its keys as the server has them, and the copy of the configuration is   *)
(* right: for any number of servers, keys and requests at once, in every   *)
(* order of their execution and of their answers, unless requests about    *)
(* the same thing overlapped or one failed.                                *)
THEOREM PagesAgreeAtRest == Spec => []ViewsAgreeAtRest
BY InitViewInv, NextViewInv, AgreesAtRest, PTL DEF Spec
=============================================================================
