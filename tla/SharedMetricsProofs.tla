------------------------- MODULE SharedMetricsProofs -------------------------
(***************************************************************************)
(* For any traffic, any number of hourly callbacks and any number of       *)
(* failures: the metrics server counts no transfer twice, and a report     *)
(* says what was transferred between its timestamps, each under the        *)
(* conditions the property names.                                          *)
(***************************************************************************)
EXTENDS SharedMetrics, TLAPS

----------------------------------------------------------------------------
(* The inductive invariant: what both properties need of it, and a part    *)
(* for each of them.                                                       *)

(* A report in the post has nothing from a sanctioned country. *)
SanctionedLeftOut ==
  \A c \in Calls : calls[c].pc = "posting" => calls[c].usage \cap Sanctioned = {}

(* Unless callbacks overlapped, one of them at most is under way. *)
OneAtATime ==
  ~overlapped =>
    \A c, d \in Calls : calls[c].pc # "idle" /\ calls[d].pc # "idle" => c = d

(* What is still to be reported has not been accepted before: neither what *)
(* a callback has got from its query, nor the window that the next one     *)
(* gets, except between an accepted report and its reset.                  *)
NothingAcceptedIsReported ==
  ~overlapped /\ ~doubtful =>
    /\ twice = {}
    /\ \A c \in Calls : calls[c].pc \in {"answered", "posting"} =>
         calls[c].usage \cap accepted = {}
    /\ (\A c \in Calls : calls[c].pc # "accepted") => window \cap accepted = {}

(* The window is part of the interval, except between the end of the       *)
(* interval, as the report is built, and the reset.                        *)
WindowInInterval ==
  ~overlapped /\ ~unreset =>
    /\ (\A c \in Calls : calls[c].pc \notin {"posting", "accepted"}) =>
         window \subseteq interval
    /\ \A c \in Calls : calls[c].pc = "answered" => calls[c].usage \subseteq window
    /\ \A c \in Calls : calls[c].pc = "posting" =>
         calls[c].usage \subseteq calls[c].interval

ReportInv ==
  /\ TypeOK
  /\ SanctionedLeftOut
  /\ OneAtATime
  /\ NothingAcceptedIsReported
  /\ WindowInInterval

LEMMA InitReportInv == Init => ReportInv
<1> SUFFICES ASSUME Init PROVE ReportInv
  OBVIOUS
<1>1. Idle \in [pc : {"idle", "querying", "answered", "posting", "accepted"},
                usage : SUBSET happened, interval : SUBSET happened,
                unknown : SUBSET happened]
  BY DEF Idle
<1>2. TypeOK
  <2>1. enabled \in BOOLEAN /\ stored \in BOOLEAN
    BY Zenon DEF Init
  <2>2. faults \in 0 .. MaxFaults
    BY ConstantsAssumption DEF Init
  <2> QED
    BY <1>1, <2>1, <2>2 DEF Init, TypeOK
<1>3. \A c \in Calls : calls[c].pc = "idle"
  BY DEF Init, Idle
<1>4. twice = {} /\ window = {}
  BY DEF Init
<1>5. SanctionedLeftOut /\ OneAtATime
  BY <1>3 DEF Init, SanctionedLeftOut, OneAtATime, Idle
<1>6. NothingAcceptedIsReported
  BY <1>3, <1>4 DEF NothingAcceptedIsReported
<1>7. WindowInInterval
  BY <1>3, <1>4 DEF WindowInInterval
<1> QED
  BY <1>2, <1>5, <1>6, <1>7 DEF ReportInv

----------------------------------------------------------------------------
(* The types.                                                              *)

CallRecord ==
  [pc : {"idle", "querying", "answered", "posting", "accepted"},
   usage : SUBSET happened, interval : SUBSET happened,
   unknown : SUBSET happened]

LEMMA IdleIsCallRecord == Idle \in CallRecord
BY DEF Idle, CallRecord

(* A failure is counted up to its bound. *)
LEMMA FaultBounded == TypeOK /\ Fault => faults' \in 0 .. MaxFaults
BY ConstantsAssumption DEF TypeOK, Fault

LEMMA StoreTyped ==
  ASSUME TypeOK, NEW value \in BOOLEAN, Store(value)
  PROVE  stored' \in BOOLEAN /\ faults' \in 0 .. MaxFaults
<1>1. stored' \in {value, stored}
  BY DEF Store
<1>2. faults' = faults \/ Fault
  BY DEF Store
<1>3. faults' \in 0 .. MaxFaults
  BY <1>2, FaultBounded DEF TypeOK
<1> QED
  BY <1>1, <1>3, Zenon DEF TypeOK

(* A step of one callback leaves a record again. *)
LEMMA StepTyped ==
  ASSUME TypeOK, NEW c \in Calls, NEW r \in CallRecord,
         calls' = [calls EXCEPT ![c] = r], UNCHANGED happened
  PROVE  calls' \in [Calls -> CallRecord]
BY DEF TypeOK, CallRecord

LEMMA NextTypeOK == TypeOK /\ SanctionedLeftOut /\ [Next]_vars => TypeOK'
<1> SUFFICES ASSUME TypeOK, SanctionedLeftOut, [Next]_vars PROVE TypeOK'
  OBVIOUS
<1>1. CASE StartSharing
  BY <1>1, StoreTyped
  DEF StartSharing, TypeOK, vars, traffic, table, setting
<1>2. CASE StopSharing
  BY <1>2, StoreTyped
  DEF StopSharing, TypeOK, vars, traffic, table, setting
<1>3. CASE SaveServerConfig
  <2>1. stored' \in BOOLEAN /\ faults' \in 0 .. MaxFaults
    BY <1>3, StoreTyped DEF SaveServerConfig, TypeOK
  <2> QED
    BY <1>3, <2>1 DEF SaveServerConfig, TypeOK, traffic, table
<1>4. ASSUME NEW b \in Transfers, Transfer(b) PROVE TypeOK'
  <2>1. happened' = happened \cup {b} /\ window' \subseteq happened'
        /\ interval' \subseteq happened'
    BY <1>4 DEF Transfer, TypeOK
  <2>2. calls' \in [Calls -> CallRecord']
    BY <1>4, <2>1 DEF Transfer, TypeOK, CallRecord
  <2> QED
    BY <1>4, <2>1, <2>2 DEF Transfer, TypeOK, CallRecord, setting, table
<1>5. ASSUME NEW k \in Keys, RemoveAccessKey(k) PROVE TypeOK'
  BY <1>5 DEF RemoveAccessKey, TypeOK, setting, traffic, table
<1>6. ASSUME NEW c \in Calls, HourlyReport(c) PROVE TypeOK'
  <2>1. calls' \in [Calls -> CallRecord]
    BY <1>6 DEF HourlyReport, TypeOK, CallRecord, traffic
  <2>2. overlapped' \in BOOLEAN
    BY <1>6 DEF HourlyReport
  <2>3. calls' \in [Calls -> CallRecord']
    BY <1>6, <2>1 DEF HourlyReport, CallRecord, traffic
  <2> QED
    BY <1>6, <2>2, <2>3
    DEF HourlyReport, TypeOK, CallRecord, setting, traffic, table
<1>7. ASSUME NEW c \in Calls, PrometheusAnswers(c) PROVE TypeOK'
  <2> DEFINE r == [calls[c] EXCEPT !.pc = "answered", !.usage = window]
  <2>1. r \in CallRecord
    BY DEF TypeOK, CallRecord
  <2>2. calls' = [calls EXCEPT ![c] = r] /\ calls \in [Calls -> CallRecord]
    BY <1>7 DEF PrometheusAnswers, TypeOK, CallRecord
  <2> HIDE DEF r
  <2>3. calls' \in [Calls -> CallRecord]
    BY <2>1, <2>2
  <2> QED
    BY <1>7, <2>3
    DEF PrometheusAnswers, TypeOK, CallRecord, setting, traffic, table
<1>8. ASSUME NEW c \in Calls, QueryFails(c) PROVE TypeOK'
  BY <1>8, StepTyped, IdleIsCallRecord, FaultBounded
  DEF QueryFails, TypeOK, CallRecord, setting, traffic, table
<1>9. ASSUME NEW c \in Calls, SkipReport(c) PROVE TypeOK'
  BY <1>9, StepTyped, IdleIsCallRecord
  DEF SkipReport, BuildReport, TypeOK, CallRecord, setting, traffic, table
<1>10. ASSUME NEW c \in Calls, PostReport(c) PROVE TypeOK'
  <2> DEFINE reports == UserReports(calls[c].usage)
             r == [pc |-> "posting", usage |-> reports, interval |-> interval,
                   unknown |-> {b \in reports : KeyOf[b] \notin keys}]
  <2>1. r \in CallRecord
    BY DEF TypeOK, CallRecord, UserReports
  <2>2. calls' = [calls EXCEPT ![c] = r] /\ UNCHANGED happened
    BY <1>10 DEF PostReport, BuildReport
  <2>3. calls' \in [Calls -> CallRecord]
    BY <2>1, <2>2, StepTyped
  <2> QED
    BY <1>10, <2>3
    DEF PostReport, BuildReport, TypeOK, CallRecord, setting, table
<1>11. ASSUME NEW c \in Calls, ReportAccepted(c) \/ AnswerLost(c) PROVE TypeOK'
  <2>1. calls[c].usage \subseteq happened \ Sanctioned
    BY <1>11
    DEF ReportAccepted, AnswerLost, Insert, SanctionedLeftOut, TypeOK
  <2>2. accepted' \subseteq happened' \ Sanctioned /\ twice' \subseteq accepted'
    BY <1>11, <2>1
    DEF ReportAccepted, AnswerLost, Insert, TypeOK, traffic
  <2>3. PICK r \in CallRecord : calls' = [calls EXCEPT ![c] = r]
    BY <1>11 DEF ReportAccepted, AnswerLost, Idle, CallRecord
  <2>4. calls' \in [Calls -> CallRecord]
    BY <1>11, <2>3, StepTyped DEF ReportAccepted, AnswerLost, Insert, traffic
  <2>5. faults' \in 0 .. MaxFaults
    BY <1>11, FaultBounded DEF ReportAccepted, AnswerLost, TypeOK
  <2>6. unreset' \in BOOLEAN /\ doubtful' \in BOOLEAN
    BY <1>11 DEF ReportAccepted, AnswerLost, TypeOK
  <2> QED
    BY <1>11, <2>2, <2>4, <2>5, <2>6
    DEF ReportAccepted, AnswerLost, Insert, TypeOK, CallRecord, setting, traffic
<1>12. ASSUME NEW c \in Calls, ReportRejected(c) PROVE TypeOK'
  BY <1>12, StepTyped, IdleIsCallRecord
  DEF ReportRejected, TypeOK, CallRecord, setting, traffic, table
<1>13. ASSUME NEW c \in Calls, PostFails(c) PROVE TypeOK'
  BY <1>13, StepTyped, IdleIsCallRecord, FaultBounded
  DEF PostFails, TypeOK, CallRecord, setting, traffic, table
<1>14. ASSUME NEW c \in Calls, Reset(c) PROVE TypeOK'
  BY <1>14, StepTyped, IdleIsCallRecord
  DEF Reset, TypeOK, CallRecord, setting, table
<1>15. CASE Restart
  <2>1. calls' \in [Calls -> CallRecord]
    BY <1>15, IdleIsCallRecord DEF Restart
  <2> QED
    BY <1>15, <2>1, FaultBounded DEF Restart, TypeOK, CallRecord, table
<1>16. CASE UNCHANGED vars
  BY <1>16 DEF vars, TypeOK, setting, traffic, table
<1> QED
  BY <1>1, <1>2, <1>3, <1>4, <1>5, <1>6, <1>7, <1>8, <1>9, <1>10, <1>11,
     <1>12, <1>13, <1>14, <1>15, <1>16 DEF Next

----------------------------------------------------------------------------
(* The steps of a callback, seen from the others: nothing but a callback   *)
(* that is under way moves, except as one begins or the process restarts.  *)

Moves(c) ==
  /\ calls[c].pc # "idle"
  /\ \A d \in Calls \ {c} : calls'[d] = calls[d]
  /\ UNCHANGED overlapped

LEMMA StepOfCalls ==
  ASSUME TypeOK, [Next]_vars
  PROVE  \/ UNCHANGED <<calls, overlapped>>
         \/ \E c \in Calls : HourlyReport(c)
         \/ \E c \in Calls : Moves(c)
         \/ Restart
<1>1. ASSUME NEW c \in Calls,
             \/ PrometheusAnswers(c) \/ QueryFails(c) \/ SkipReport(c)
             \/ PostReport(c) \/ ReportAccepted(c) \/ AnswerLost(c)
             \/ ReportRejected(c) \/ PostFails(c) \/ Reset(c)
      PROVE  Moves(c)
  BY <1>1 DEF PrometheusAnswers, QueryFails, SkipReport, PostReport,
     BuildReport, ReportAccepted, AnswerLost, Insert, ReportRejected,
     PostFails, Reset, Moves, TypeOK
<1>2. ASSUME \/ StartSharing \/ StopSharing \/ SaveServerConfig
             \/ \E b \in Transfers : Transfer(b)
             \/ \E k \in Keys : RemoveAccessKey(k)
             \/ UNCHANGED vars
      PROVE  UNCHANGED <<calls, overlapped>>
  BY <1>2 DEF StartSharing, StopSharing, SaveServerConfig, Transfer,
     RemoveAccessKey, vars
<1> QED
  BY <1>1, <1>2 DEF Next

(* A callback that begins while no other is under way is the only one. *)
LEMMA NextOneAtATime == TypeOK /\ OneAtATime /\ [Next]_vars => OneAtATime'
<1> SUFFICES ASSUME TypeOK, OneAtATime, [Next]_vars, ~overlapped',
                    NEW c \in Calls, NEW d \in Calls,
                    calls'[c].pc # "idle", calls'[d].pc # "idle"
             PROVE  c = d
  BY DEF OneAtATime
<1>1. CASE UNCHANGED <<calls, overlapped>>
  BY <1>1 DEF OneAtATime
<1>2. ASSUME NEW e \in Calls, HourlyReport(e) PROVE c = d
  <2>1. \A f \in Calls \ {e} : calls[f].pc = "idle" /\ calls'[f] = calls[f]
    BY <1>2 DEF HourlyReport, TypeOK
  <2> QED
    BY <2>1
<1>3. ASSUME NEW e \in Calls, Moves(e) PROVE c = d
  <2>1. calls[c].pc # "idle" /\ calls[d].pc # "idle"
    BY <1>3 DEF Moves
  <2> QED
    BY <1>3, <2>1 DEF OneAtATime, Moves
<1>4. CASE Restart
  BY <1>4 DEF Restart, Idle
<1> QED
  BY <1>1, <1>2, <1>3, <1>4, StepOfCalls

----------------------------------------------------------------------------
(* A report is in the post since PostReport, and its callback is then as   *)
(* PostReport left it.                                                     *)
PostingWasPosted(c) == calls'[c] = calls[c] \/ PostReport(c)

LEMMA NewlyPosted ==
  ASSUME TypeOK, [Next]_vars, NEW c \in Calls, calls'[c].pc = "posting"
  PROVE  PostingWasPosted(c)
<1>1. CASE UNCHANGED calls
  BY <1>1 DEF PostingWasPosted
<1>2. ASSUME NEW d \in Calls,
             \/ HourlyReport(d) \/ PrometheusAnswers(d) \/ QueryFails(d)
             \/ SkipReport(d) \/ ReportAccepted(d) \/ AnswerLost(d)
             \/ ReportRejected(d) \/ PostFails(d) \/ Reset(d)
      PROVE  PostingWasPosted(c)
  <2>1. calls'[d].pc # "posting" /\ (c # d => calls'[c] = calls[c])
    BY <1>2 DEF HourlyReport, PrometheusAnswers, QueryFails, SkipReport,
       BuildReport, ReportAccepted, AnswerLost, Insert, ReportRejected,
       PostFails, Reset, Idle, TypeOK
  <2> QED
    BY <2>1 DEF PostingWasPosted
<1>3. ASSUME NEW d \in Calls, PostReport(d) PROVE PostingWasPosted(c)
  BY <1>3 DEF PostReport, TypeOK, PostingWasPosted
<1>4. CASE Restart
  BY <1>4 DEF Restart, Idle
<1>5. ASSUME \/ StartSharing \/ StopSharing \/ SaveServerConfig
             \/ \E b \in Transfers : Transfer(b)
             \/ \E k \in Keys : RemoveAccessKey(k)
             \/ UNCHANGED vars
      PROVE  UNCHANGED calls
  BY <1>5 DEF StartSharing, StopSharing, SaveServerConfig, Transfer,
     RemoveAccessKey, vars
<1> QED
  BY <1>1, <1>2, <1>3, <1>4, <1>5 DEF Next

(* What is left out of a report in the post stays left out: the report is  *)
(* not touched until it is answered.                                       *)
LEMMA NextSanctionedLeftOut ==
  TypeOK /\ SanctionedLeftOut /\ [Next]_vars => SanctionedLeftOut'
<1> SUFFICES ASSUME TypeOK, SanctionedLeftOut, [Next]_vars, NEW c \in Calls,
                    calls'[c].pc = "posting"
             PROVE  calls'[c].usage \cap Sanctioned = {}
  BY DEF SanctionedLeftOut
<1>1. CASE calls'[c] = calls[c]
  BY <1>1 DEF SanctionedLeftOut
<1>2. CASE PostReport(c)
  BY <1>2 DEF PostReport, UserReports, TypeOK
<1>3. PostingWasPosted(c)
  BY NewlyPosted
<1> QED
  BY <1>1, <1>2, <1>3 DEF PostingWasPosted

----------------------------------------------------------------------------
(* While one callback at most is under way, the others are idle. *)
LEMMA OthersIdle ==
  ASSUME OneAtATime, ~overlapped, NEW c \in Calls, calls[c].pc # "idle"
  PROVE  \A d \in Calls \ {c} : calls[d].pc = "idle"
BY DEF OneAtATime

(* Between an accepted report and its reset no other callback can query the*)
(* window.                                                                 *)
LEMMA NextNothingAcceptedIsReported ==
  TypeOK /\ OneAtATime /\ NothingAcceptedIsReported /\ [Next]_vars
    => NothingAcceptedIsReported'
<1> SUFFICES ASSUME TypeOK, OneAtATime, NothingAcceptedIsReported, [Next]_vars,
                    ~overlapped', ~doubtful'
             PROVE  /\ twice' = {}
                    /\ \A c \in Calls :
                         calls'[c].pc \in {"answered", "posting"} =>
                           calls'[c].usage \cap accepted' = {}
                    /\ (\A c \in Calls : calls'[c].pc # "accepted") =>
                         window' \cap accepted' = {}
  BY DEF NothingAcceptedIsReported
<1>1. ASSUME \/ StartSharing \/ StopSharing \/ SaveServerConfig
             \/ \E k \in Keys : RemoveAccessKey(k)
             \/ UNCHANGED vars
      PROVE  UNCHANGED <<calls, window, table, overlapped, doubtful>>
  BY <1>1 DEF StartSharing, StopSharing, SaveServerConfig, RemoveAccessKey,
     vars, traffic
<1>2. CASE UNCHANGED <<calls, window, table, overlapped, doubtful>>
  BY <1>2 DEF NothingAcceptedIsReported, table
<1>3. ASSUME NEW b \in Transfers, Transfer(b) PROVE NothingAcceptedIsReported'
  <2>1. b \notin accepted
    BY <1>3 DEF Transfer, TypeOK
  <2> QED
    BY <1>3, <2>1 DEF Transfer, NothingAcceptedIsReported, table
<1>4. ASSUME NEW c \in Calls, HourlyReport(c) PROVE NothingAcceptedIsReported'
  <2>1. ~overlapped /\ ~doubtful
    BY <1>4, Zenon DEF HourlyReport
  <2>2. \A d \in Calls : \/ calls'[d] = calls[d]
                         \/ d = c /\ calls'[d].pc = "querying"
    BY <1>4 DEF HourlyReport, TypeOK
  <2>3. calls[c].pc = "idle" /\ UNCHANGED <<window, accepted, twice>>
    BY <1>4 DEF HourlyReport, traffic, table
  <2> QED
    BY <2>1, <2>2, <2>3 DEF NothingAcceptedIsReported
<1>5. ASSUME NEW c \in Calls, PrometheusAnswers(c)
      PROVE  NothingAcceptedIsReported'
  <2>1. \A d \in Calls : calls[d].pc # "accepted"
    BY <1>5, OthersIdle DEF PrometheusAnswers
  <2>2. window \cap accepted = {}
    BY <1>5, <2>1 DEF NothingAcceptedIsReported, PrometheusAnswers
  <2>3. \A d \in Calls : calls'[d] = calls[d] \/ calls'[d].usage = window
    BY <1>5 DEF PrometheusAnswers, TypeOK
  <2> QED
    BY <1>5, <2>2, <2>3
    DEF NothingAcceptedIsReported, PrometheusAnswers, traffic, table
<1>6. ASSUME NEW c \in Calls, \/ QueryFails(c) \/ ReportRejected(c)
                              \/ PostFails(c)
      PROVE  NothingAcceptedIsReported'
  <2>1. \A d \in Calls : calls[d].pc # "accepted"
    BY <1>6, OthersIdle DEF QueryFails, ReportRejected, PostFails
  <2>2. UNCHANGED <<window, accepted, twice, overlapped, doubtful>>
    BY <1>6 DEF QueryFails, ReportRejected, PostFails, traffic, table
  <2>3. \A d \in Calls : calls'[d] = calls[d] \/ calls'[d].pc = "idle"
    BY <1>6 DEF QueryFails, ReportRejected, PostFails, TypeOK, Idle
  <2> QED
    BY <2>1, <2>2, <2>3 DEF NothingAcceptedIsReported
<1>7. ASSUME NEW c \in Calls, SkipReport(c) \/ Reset(c)
      PROVE  NothingAcceptedIsReported'
  <2>1. /\ UNCHANGED <<accepted, twice, overlapped, doubtful>>
        /\ window' = {}
    BY <1>7 DEF SkipReport, BuildReport, Reset, table
  <2>2. \A d \in Calls : calls'[d] = calls[d] \/ calls'[d].pc = "idle"
    BY <1>7 DEF SkipReport, Reset, TypeOK, Idle
  <2> QED
    BY <2>1, <2>2 DEF NothingAcceptedIsReported
<1>8. ASSUME NEW c \in Calls, PostReport(c) PROVE NothingAcceptedIsReported'
  <2>1. calls[c].usage \cap accepted = {}
    BY <1>8 DEF PostReport, BuildReport, NothingAcceptedIsReported
  <2>2. calls'[c].usage \subseteq calls[c].usage /\ calls'[c].pc = "posting"
    BY <1>8 DEF PostReport, UserReports, TypeOK
  <2>3. \A d \in Calls \ {c} : calls'[d] = calls[d]
    BY <1>8 DEF PostReport, TypeOK
  <2>4. calls[c].pc = "answered"
        /\ UNCHANGED <<window, accepted, twice, overlapped, doubtful>>
    BY <1>8 DEF PostReport, BuildReport, table
  <2> QED
    BY <2>1, <2>2, <2>3, <2>4 DEF NothingAcceptedIsReported
<1>9. ASSUME NEW c \in Calls, ReportAccepted(c)
      PROVE  NothingAcceptedIsReported'
  <2>1. \A d \in Calls \ {c} : calls'[d] = calls[d] /\ calls[d].pc = "idle"
    BY <1>9, OthersIdle DEF ReportAccepted, Insert, TypeOK
  <2>2. calls'[c].pc = "accepted"
    BY <1>9 DEF ReportAccepted, TypeOK, Idle
  <2>3. twice' = {}
    BY <1>9 DEF ReportAccepted, Insert, NothingAcceptedIsReported
  <2> QED
    BY <2>1, <2>2, <2>3 DEF NothingAcceptedIsReported
<1>10. ASSUME NEW c \in Calls, AnswerLost(c) PROVE FALSE
  BY <1>10 DEF AnswerLost
<1>11. CASE Restart
  BY <1>11 DEF Restart, NothingAcceptedIsReported, Idle, table
<1> QED
  BY <1>1, <1>2, <1>3, <1>4, <1>5, <1>6, <1>7, <1>8, <1>9, <1>10, <1>11
  DEF Next, NothingAcceptedIsReported

----------------------------------------------------------------------------
(* The window, the interval, and the usage of the callback under way.      *)
LEMMA NextWindowInInterval ==
  TypeOK /\ OneAtATime /\ WindowInInterval /\ [Next]_vars => WindowInInterval'
<1> SUFFICES ASSUME TypeOK, OneAtATime, WindowInInterval, [Next]_vars,
                    ~overlapped', ~unreset'
             PROVE  WindowInInterval'
  BY DEF WindowInInterval
<1>1. ASSUME \/ StartSharing \/ StopSharing \/ SaveServerConfig
             \/ \E k \in Keys : RemoveAccessKey(k)
             \/ UNCHANGED vars
      PROVE  UNCHANGED <<calls, window, interval, overlapped, unreset>>
  BY <1>1 DEF StartSharing, StopSharing, SaveServerConfig, RemoveAccessKey,
     vars, traffic
<1>2. CASE UNCHANGED <<calls, window, interval, overlapped, unreset>>
  BY <1>2 DEF WindowInInterval
<1>3. ASSUME NEW b \in Transfers, Transfer(b) PROVE WindowInInterval'
  BY <1>3 DEF Transfer, WindowInInterval
<1>4. ASSUME NEW c \in Calls, HourlyReport(c) PROVE WindowInInterval'
  <2>1. ~overlapped /\ UNCHANGED <<window, interval, unreset>>
    BY <1>4, Zenon DEF HourlyReport, traffic
  <2>2. \A d \in Calls : \/ calls'[d] = calls[d]
                         \/ d = c /\ calls'[d].pc = "querying"
    BY <1>4 DEF HourlyReport, TypeOK
  <2>3. calls[c].pc = "idle"
    BY <1>4 DEF HourlyReport
  <2> QED
    BY <2>1, <2>2, <2>3 DEF WindowInInterval
<1>5. ASSUME NEW c \in Calls, PrometheusAnswers(c) PROVE WindowInInterval'
  <2>1. \A d \in Calls \ {c} : calls'[d] = calls[d]
    BY <1>5 DEF PrometheusAnswers, TypeOK
  <2>2. calls[c].pc = "querying" /\ calls'[c].pc = "answered"
        /\ calls'[c].usage = window
    BY <1>5 DEF PrometheusAnswers, TypeOK
  <2>3. UNCHANGED <<window, interval, overlapped, unreset>>
    BY <1>5 DEF PrometheusAnswers, traffic
  <2> QED
    BY <2>1, <2>2, <2>3 DEF WindowInInterval
<1>6. ASSUME NEW c \in Calls, QueryFails(c) PROVE WindowInInterval'
  <2>1. \A d \in Calls \ {c} : calls'[d] = calls[d]
    BY <1>6 DEF QueryFails, TypeOK
  <2>2. calls[c].pc = "querying" /\ calls'[c].pc = "idle"
    BY <1>6 DEF QueryFails, TypeOK, Idle
  <2>3. UNCHANGED <<window, interval, overlapped, unreset>>
    BY <1>6 DEF QueryFails, traffic
  <2> QED
    BY <2>1, <2>2, <2>3 DEF WindowInInterval
<1>7. ASSUME NEW c \in Calls, SkipReport(c) \/ Reset(c)
      PROVE  WindowInInterval'
  <2>1. ~overlapped /\ calls[c].pc # "idle" /\ window' = {}
    BY <1>7 DEF SkipReport, BuildReport, Reset
  <2>2. calls'[c].pc = "idle"
    BY <1>7 DEF SkipReport, Reset, TypeOK, Idle
  <2>3. \A d \in Calls \ {c} : calls'[d] = calls[d] /\ calls[d].pc = "idle"
    BY <1>7, <2>1, OthersIdle DEF SkipReport, Reset, TypeOK
  <2> QED
    BY <2>1, <2>2, <2>3 DEF WindowInInterval
<1>8. ASSUME NEW c \in Calls, PostReport(c) PROVE WindowInInterval'
  <2>1. calls[c].pc = "answered" /\ UNCHANGED <<window, overlapped, unreset>>
    BY <1>8 DEF PostReport, BuildReport
  <2>2. \A d \in Calls \ {c} : calls'[d] = calls[d] /\ calls[d].pc = "idle"
    BY <1>8, <2>1, OthersIdle DEF PostReport, TypeOK
  <2>3. /\ calls'[c].pc = "posting" /\ calls'[c].interval = interval
        /\ calls'[c].usage \subseteq calls[c].usage
    BY <1>8 DEF PostReport, UserReports, TypeOK
  <2>4. calls[c].usage \subseteq window /\ window \subseteq interval
    <3>1. \A d \in Calls : calls[d].pc \notin {"posting", "accepted"}
      BY <2>1, <2>2
    <3> QED
      BY <2>1, <3>1 DEF WindowInInterval
  <2> QED
    BY <2>2, <2>3, <2>4 DEF WindowInInterval
<1>9. ASSUME NEW c \in Calls, ReportAccepted(c) PROVE WindowInInterval'
  <2>1. calls[c].pc = "posting" /\ UNCHANGED <<overlapped, unreset>>
    BY <1>9 DEF ReportAccepted, Insert
  <2>2. \A d \in Calls \ {c} : calls'[d] = calls[d] /\ calls[d].pc = "idle"
    BY <1>9, <2>1, OthersIdle DEF ReportAccepted, TypeOK
  <2>3. calls'[c].pc = "accepted"
    BY <1>9 DEF ReportAccepted, TypeOK, Idle
  <2> QED
    BY <2>2, <2>3 DEF WindowInInterval
<1>10. ASSUME NEW c \in Calls,
              AnswerLost(c) \/ ReportRejected(c) \/ PostFails(c)
       PROVE  FALSE
  BY <1>10 DEF AnswerLost, ReportRejected, PostFails
<1>11. CASE Restart
  BY <1>11 DEF Restart, WindowInInterval, Idle
<1> QED
  BY <1>1, <1>2, <1>3, <1>4, <1>5, <1>6, <1>7, <1>8, <1>9, <1>10, <1>11
  DEF Next

----------------------------------------------------------------------------
(* The invariant holds of every step, and with it the properties. *)
LEMMA NextReportInv == ReportInv /\ [Next]_vars => ReportInv'
BY NextTypeOK, NextSanctionedLeftOut, NextOneAtATime,
   NextNothingAcceptedIsReported, NextWindowInInterval DEF ReportInv

(* The variables keep their types.  In particular what the metrics server  *)
(* has in its table did happen, and not in a sanctioned country.           *)
THEOREM TypeCorrect == Spec => []TypeOK
<1>1. ReportInv => TypeOK
  BY DEF ReportInv
<1> QED
  BY <1>1, InitReportInv, NextReportInv, PTL DEF Spec

(* The metrics server counts no transfer twice, unless callbacks overlapped*)
(* or an answer to a post was lost.                                        *)
THEOREM NothingCountedTwice == Spec => []CountedOnce
<1>1. ReportInv => CountedOnce
  BY DEF ReportInv, NothingAcceptedIsReported, CountedOnce
<1> QED
  BY <1>1, InitReportInv, NextReportInv, PTL DEF Spec

(* A report says what was transferred between its two timestamps, unless   *)
(* callbacks overlapped or the usage was not reset after the last report.  *)
THEOREM ReportsMatchTheirInterval == Spec => []UsageInInterval
<1>1. ReportInv => UsageInInterval
  BY DEF ReportInv, WindowInInterval, UsageInInterval
<1> QED
  BY <1>1, InitReportInv, NextReportInv, PTL DEF Spec
=============================================================================
