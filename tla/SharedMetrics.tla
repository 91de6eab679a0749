---------------------------- MODULE SharedMetrics ----------------------------
(***************************************************************************)
(* The hourly usage report of a server whose administrator shares metrics: *)
(* OutlineSharedMetricsPublisher and PrometheusUsageMetrics                *)
(* (shared_metrics.ts), and what the metrics server's POST /connections    *)
(* does with a report (metrics_server).                                    *)
(*                                                                         *)
(* Traffic is a set of transfers, each of one access key from one place.   *)
(* The two clocks of the code are kept as what they delimit: window is the *)
(* traffic since PrometheusUsageMetrics.resetTimeMs, which a report counts,*)
(* and interval the traffic since reportStartTimestampMs, which a report   *)
(* claims to count.  Prometheus is exact here: scrape delay and the        *)
(* extrapolation of increase() are left out.                               *)
(***************************************************************************)
EXTENDS Naturals, FiniteSets

CONSTANTS
  Transfers,        \* bound: the transfers that can happen
  Keys,             \* the access keys
  KeyOf,            \* the access key of each transfer
  Sanctioned,       \* the transfers from a sanctioned country
  MaxTransferred,   \* the most one user report may hold (1 TB)
  Calls,            \* bound: hourly callbacks that can be outstanding at once
  MaxFaults         \* bound: failed queries and posts, lost answers, restarts

ASSUME ConstantsAssumption ==
  /\ KeyOf \in [Transfers -> Keys]
  /\ Sanctioned \subseteq Transfers
  /\ MaxTransferred \in Nat
  /\ MaxFaults \in Nat

VARIABLES
  enabled,     \* serverConfig.data().metricsEnabled
  stored,      \* the same in shadowbox_server_config.json
  keys,        \* the keys the repository has: toMetricsId finds only these
  window,      \* the transfers since resetTimeMs
  interval,    \* the transfers since reportStartTimestampMs
  calls        \* the hourly callbacks, each with what it got from its awaits

(* History. *)
VARIABLES
  happened,    \* the transfers so far
  accepted,    \* the transfers the metrics server has in its table
  twice,       \* those it has more than once
  overlapped,  \* a callback began before the previous one had ended
  unreset,     \* a post failed or was rejected since the last reset
  doubtful,    \* the answer to a post that was accepted did not arrive
  faults       \* failures so far

traffic == <<happened, window, interval>>
table   == <<accepted, twice>>
setting == <<enabled, stored>>
vars == <<setting, keys, traffic, calls, table, overlapped, unreset, doubtful,
          faults>>

----------------------------------------------------------------------------
Idle == [pc |-> "idle", usage |-> {}, interval |-> {}, unknown |-> {}]

Fault == faults < MaxFaults /\ faults' = faults + 1

AllReports(usage) == usage  \* mutant: no country is left out

(* The user reports of a report: what is not from a sanctioned country. *)
UserReports(usage) == usage \ Sanctioned

(* isValidConnectionMetricsReport, of a report with the transfers in usage *)
(* of which those in unknown belong to keys without a metrics id: one of   *)
(* them, whose user id is "", or one report that is too large, invalidates *)
(* the whole.                                                              *)
IsValidReport(usage, unknown) ==
  /\ usage # {}
  /\ unknown = {}
  /\ \A k \in Keys :
       Cardinality({b \in usage : KeyOf[b] = k}) <= MaxTransferred

Init ==
  /\ enabled \in BOOLEAN
  /\ stored = enabled
  /\ keys = Keys
  /\ window = {}
  /\ interval = {}
  /\ calls = [c \in Calls |-> Idle]
  /\ happened = {}
  /\ accepted = {}
  /\ twice = {}
  /\ overlapped = FALSE
  /\ unreset = FALSE
  /\ doubtful = FALSE
  /\ faults = 0

----------------------------------------------------------------------------
(* A write of the server configuration, whose failure is swallowed. *)
Store(value) ==
  \/ stored' = value /\ UNCHANGED faults
  \/ Fault /\ UNCHANGED stored

(* PUT /metrics/enabled. *)
StartSharing ==
  /\ enabled' = TRUE
  /\ Store(TRUE)
  /\ UNCHANGED <<keys, traffic, calls, table, overlapped, unreset, doubtful>>

StopSharing ==
  /\ enabled' = FALSE
  /\ Store(FALSE)
  /\ UNCHANGED <<keys, traffic, calls, table, overlapped, unreset, doubtful>>

(* Another request that writes the server configuration. *)
SaveServerConfig ==
  /\ Store(enabled)
  /\ UNCHANGED <<enabled, keys, traffic, calls, table, overlapped, unreset,
                 doubtful>>

(* Clients and the administrator: traffic of a key, and its removal. *)
Transfer(b) ==
  /\ b \notin happened
  /\ KeyOf[b] \in keys
  /\ happened' = happened \cup {b}
  /\ window' = window \cup {b}
  /\ interval' = interval \cup {b}
  /\ UNCHANGED <<setting, keys, calls, table, overlapped, unreset,
                 doubtful, faults>>

RemoveAccessKey(k) ==
  /\ k \in keys
  /\ keys' = keys \ {k}
  /\ UNCHANGED <<setting, traffic, calls, table, overlapped, unreset,
                 doubtful, faults>>

----------------------------------------------------------------------------
(* The hourly callback, up to its await on getUsage. *)
HourlyReport(c) ==
  /\ enabled
  /\ calls[c].pc = "idle"
  /\ calls' = [calls EXCEPT ![c].pc = "querying"]
  /\ overlapped' = (overlapped \/ \E d \in Calls \ {c} : calls[d].pc # "idle")
  /\ UNCHANGED <<setting, keys, traffic, table, unreset, doubtful, faults>>

PrometheusAnswers(c) ==
  /\ calls[c].pc = "querying"
  /\ calls' = [calls EXCEPT ![c].pc = "answered", ![c].usage = window]
  /\ UNCHANGED <<setting, keys, traffic, table, overlapped, unreset,
                 doubtful, faults>>

QueryFails(c) ==
  /\ calls[c].pc = "querying"
  /\ Fault
  /\ calls' = [calls EXCEPT ![c] = Idle]
  /\ UNCHANGED <<setting, keys, traffic, table, overlapped, unreset, doubtful>>

(* reportServerUsageMetrics up to its await: the interval ends here. *)
BuildReport(c) ==
  /\ calls[c].pc = "answered"
  /\ interval' = {}
  /\ UNCHANGED <<setting, keys, happened, table, overlapped, doubtful, faults>>

(* Mutant: a report without user reports does not reset the usage. *)
SkipReportKeepsWindow(c) ==
  /\ BuildReport(c)
  /\ UserReports(calls[c].usage) = {}
  /\ calls' = [calls EXCEPT ![c] = Idle]
  /\ UNCHANGED <<window, unreset>>

(* Nothing to report: the usage is reset all the same. *)
SkipReport(c) ==
  /\ BuildReport(c)
  /\ UserReports(calls[c].usage) = {}
  /\ calls' = [calls EXCEPT ![c] = Idle]
  /\ window' = {}
  /\ unreset' = FALSE

(* Mutant: the start timestamp is advanced before it is put in the report. *)
PostReportAdvanced(c) ==
  /\ BuildReport(c)
  /\ LET reports == UserReports(calls[c].usage)
     IN  /\ reports # {}
         /\ calls' = [calls EXCEPT ![c] =
              [pc |-> "posting", usage |-> reports, interval |-> interval',
               unknown |-> {b \in reports : KeyOf[b] \notin keys}]]
  /\ UNCHANGED <<window, unreset>>

PostReport(c) ==
  /\ BuildReport(c)
  /\ LET reports == UserReports(calls[c].usage)
     IN  /\ reports # {}
         /\ calls' = [calls EXCEPT ![c] =
              [pc |-> "posting", usage |-> reports, interval |-> interval,
               unknown |-> {b \in reports : KeyOf[b] \notin keys}]]
  /\ UNCHANGED <<window, unreset>>

----------------------------------------------------------------------------
(* POST /connections on the metrics server: the rows are inserted. *)
Insert(c) ==
  /\ calls[c].pc = "posting"
  /\ IsValidReport(calls[c].usage, calls[c].unknown)
  /\ accepted' = accepted \cup calls[c].usage
  /\ twice' = twice \cup (accepted \cap calls[c].usage)
  /\ UNCHANGED <<setting, keys, traffic, overlapped>>

ReportAccepted(c) ==
  /\ Insert(c)
  /\ calls' = [calls EXCEPT ![c] = [Idle EXCEPT !.pc = "accepted"]]
  /\ UNCHANGED <<unreset, doubtful, faults>>

(* The rows are inserted, and the answer is lost. *)
AnswerLost(c) ==
  /\ Insert(c)
  /\ Fault
  /\ calls' = [calls EXCEPT ![c] = Idle]
  /\ unreset' = TRUE
  /\ doubtful' = TRUE

(* 400: the callback catches the error; there is no reset. *)
ReportRejected(c) ==
  /\ calls[c].pc = "posting"
  /\ ~IsValidReport(calls[c].usage, calls[c].unknown)
  /\ calls' = [calls EXCEPT ![c] = Idle]
  /\ unreset' = TRUE
  /\ UNCHANGED <<setting, keys, traffic, table, overlapped, doubtful, faults>>

(* The metrics server is not reached, or answers 500 as its insert failed. *)
PostFails(c) ==
  /\ calls[c].pc = "posting"
  /\ Fault
  /\ calls' = [calls EXCEPT ![c] = Idle]
  /\ unreset' = TRUE
  /\ UNCHANGED <<setting, keys, traffic, table, overlapped, doubtful>>

(* Mutant: the reset after an accepted report is missing. *)
ResetForgotten(c) ==
  /\ calls[c].pc = "accepted"
  /\ calls' = [calls EXCEPT ![c] = Idle]
  /\ UNCHANGED <<setting, keys, traffic, table, overlapped, unreset,
                 doubtful, faults>>

(* The rest of the callback: usageMetrics.reset().  What was transferred   *)
(* since the query is no longer in the window, and in no report.           *)
Reset(c) ==
  /\ calls[c].pc = "accepted"
  /\ calls' = [calls EXCEPT ![c] = Idle]
  /\ window' = {}
  /\ unreset' = FALSE
  /\ UNCHANGED <<setting, keys, happened, interval, table, overlapped,
                 doubtful, faults>>

(* A new process counts from its start; nothing of this is persisted but   *)
(* metricsEnabled.                                                         *)
Restart ==
  /\ Fault
  /\ enabled' = stored
  /\ window' = {}
  /\ interval' = {}
  /\ calls' = [c \in Calls |-> Idle]
  /\ unreset' = FALSE
  /\ UNCHANGED <<stored, keys, happened, table, overlapped, doubtful>>

Next ==
  \/ StartSharing
  \/ StopSharing
  \/ SaveServerConfig
  \/ \E b \in Transfers : Transfer(b)
  \/ \E k \in Keys : RemoveAccessKey(k)
  \/ \E c \in Calls : HourlyReport(c)
  \/ \E c \in Calls : PrometheusAnswers(c)
  \/ \E c \in Calls : QueryFails(c)
  \/ \E c \in Calls : SkipReport(c)
  \/ \E c \in Calls : PostReport(c)
  \/ \E c \in Calls : ReportAccepted(c)
  \/ \E c \in Calls : AnswerLost(c)
  \/ \E c \in Calls : ReportRejected(c)
  \/ \E c \in Calls : PostFails(c)
  \/ \E c \in Calls : Reset(c)
  \/ Restart

Spec == Init /\ [][Next]_vars

(* The hourly timer fires, and every request is answered or fails. *)
Fairness ==
  \A c \in Calls :
    /\ WF_vars(HourlyReport(c))
    /\ WF_vars(PrometheusAnswers(c) \/ QueryFails(c))
    /\ WF_vars(SkipReport(c) \/ PostReport(c))
    /\ WF_vars(ReportAccepted(c) \/ ReportRejected(c) \/ PostFails(c))
    /\ WF_vars(Reset(c))

FairSpec == Spec /\ Fairness

----------------------------------------------------------------------------
TypeOK ==
  /\ enabled \in BOOLEAN
  /\ stored \in BOOLEAN
  /\ keys \in SUBSET Keys
  /\ window \in SUBSET happened
  /\ interval \in SUBSET happened
  /\ calls \in [Calls -> [pc : {"idle", "querying", "answered", "posting",
                                "accepted"},
                          usage : SUBSET happened,
                          interval : SUBSET happened,
                          unknown : SUBSET happened]]
  /\ happened \in SUBSET Transfers
  /\ accepted \in SUBSET (happened \ Sanctioned)
  /\ twice \in SUBSET accepted
  /\ overlapped \in BOOLEAN
  /\ unreset \in BOOLEAN
  /\ doubtful \in BOOLEAN
  /\ faults \in 0 .. MaxFaults

(* The metrics server counts no transfer twice, whatever fails or restarts *)
(* in between, unless callbacks overlapped or an answer to a post was lost:*)
(* every accepted report has to be followed by a reset of the usage.       *)
CountedOnce == ~overlapped /\ ~doubtful => twice = {}

(* A report says what was transferred between its two timestamps, as long  *)
(* as the reset and the start of the next interval go together: no post    *)
(* failed since the last reset and callbacks did not overlap.              *)
UsageInInterval ==
  ~overlapped /\ ~unreset =>
    \A c \in Calls :
      calls[c].pc = "posting" => calls[c].usage \subseteq calls[c].interval

(* If sharing stays enabled, and the server has a metrics id for every     *)
(* transfer in its window and none is too large, then usage does not stay  *)
(* in the window for ever: reports are made and accepted again, whatever   *)
(* failed before.                                                          *)
Reportable ==
  LET reports == UserReports(window)
      unknown == {b \in reports : KeyOf[b] \notin keys}
  IN  reports = {} \/ IsValidReport(reports, unknown)
ReportsGoOn ==
  <>[](enabled /\ Reportable) => \A b \in Transfers : []<>(b \notin window)

(* The same with sharing enabled as the only condition.  shared_metrics.ts *)
(* :150: the metrics are "reported to the Outline team if the admin        *)
(* opts-in".                                                               *)
OptedInIsReported == <>[]enabled => \A b \in Transfers : []<>(b \notin window)
=============================================================================
