---------------------- MODULE DigitalOceanServerProofs ----------------------
(***************************************************************************)
(* The safety properties of DigitalOceanServer for any number of           *)
(* outstanding refreshes and of faults, and that it implements the safety  *)
(* part of ServerInstall.                                                  *)
(***************************************************************************)
EXTENDS DigitalOceanServer, TLAPS

----------------------------------------------------------------------------
(* Type correctness. *)
LEMMA OutcomeType ==
  ASSUME NEW known, NEW isLate
  PROVE  Outcome(known, isLate) \in {"unknown", "success", "error"}
BY DEF Outcome

LEMMA SetInstallStateType ==
  ASSUME TypeOK, NEW state \in {"unknown", "success", "error", "deleted"},
         SetInstallState(state)
  PROVE  /\ installState' \in {"unknown", "success", "error", "deleted"}
         /\ apiUrl' \in BOOLEAN
         /\ completed' \in BOOLEAN
BY DEF TypeOK, SetInstallState, object

LEMMA FaultType == TypeOK /\ Fault => faults' \in 0 .. MaxFaults /\ faults' > 0
BY ConstantsAssumption DEF TypeOK, Fault

LEMMA InitTypeOK == Init => TypeOK
<1> SUFFICES ASSUME Init PROVE TypeOK
  OBVIOUS
<1> DEFINE Refresh == [pc : {"idle", "asked", "answered", "failed"},
                       tags : SUBSET Tags]
<1>1. Idle \in Refresh
  BY DEF Idle
<1>2. refreshes \in [Polls -> Refresh]
  BY <1>1 DEF Init
<1>3. tags \in SUBSET Tags
  BY DEF Init
<1>4. faults \in 0 .. MaxFaults
  BY ConstantsAssumption DEF Init
<1> QED
  BY <1>2, <1>3, <1>4 DEF Init, TypeOK

LEMMA NextTypeOK == TypeOK /\ [Next]_vars => TypeOK'
<1> SUFFICES ASSUME TypeOK, [Next]_vars PROVE TypeOK'
  OBVIOUS
<1> DEFINE Refresh == [pc : {"idle", "asked", "answered", "failed"},
                       tags : SUBSET Tags]
<1>idle. Idle \in Refresh /\ [Idle EXCEPT !.pc = "failed"] \in Refresh
  BY DEF Idle
<1>1. ASSUME NEW tag \in Access, PublishAccess(tag) PROVE TypeOK'
  BY <1>1 DEF PublishAccess, TypeOK, Tags, object
<1>2. CASE PublishError
  BY <1>2 DEF PublishError, TypeOK, Tags, object
<1>3. ASSUME NEW p \in Polls, Poll(p) PROVE TypeOK'
  <2>1. refreshes' \in [Polls -> Refresh]
    BY <1>3 DEF Poll, TypeOK
  <2> QED
    BY <1>3, <2>1 DEF Poll, TypeOK, droplet, object
<1>4. CASE PollStops
  BY <1>4 DEF PollStops, TypeOK, droplet, object
<1>5. ASSUME NEW p \in Polls, DropletAnswers(p) PROVE TypeOK'
  <2>1. refreshes' \in [Polls -> Refresh]
    BY <1>5, <1>idle DEF DropletAnswers, TypeOK
  <2> QED
    BY <1>5, <2>1 DEF DropletAnswers, TypeOK, droplet, object
<1>6. ASSUME NEW p \in Polls, RequestFails(p) PROVE TypeOK'
  <2>1. refreshes' \in [Polls -> Refresh]
    BY <1>6, <1>idle DEF RequestFails, TypeOK
  <2> QED
    BY <1>6, <2>1, FaultType DEF RequestFails, TypeOK, droplet, object
<1>7. ASSUME NEW p \in Polls, Refreshed(p) PROVE TypeOK'
  <2>1. refreshes' \in [Polls -> Refresh]
    BY <1>7, <1>idle DEF Refreshed, TypeOK
  <2>2. Outcome(refreshes[p].tags, late) \in {"unknown", "success", "error"}
    BY OutcomeType
  <2>3. /\ installState' \in {"unknown", "success", "error", "deleted"}
        /\ apiUrl' \in BOOLEAN
        /\ completed' \in BOOLEAN
    BY <1>7, <2>2, SetInstallStateType DEF Refreshed
  <2> QED
    BY <1>7, <2>1, <2>3 DEF Refreshed, TypeOK, droplet
<1>8. ASSUME NEW p \in Polls, RefreshFailed(p) PROVE TypeOK'
  <2>1. refreshes' \in [Polls -> Refresh]
    BY <1>8, <1>idle DEF RefreshFailed, TypeOK
  <2>2. /\ installState' \in {"unknown", "success", "error", "deleted"}
        /\ apiUrl' \in BOOLEAN
        /\ completed' \in BOOLEAN
    BY <1>8, SetInstallStateType DEF RefreshFailed
  <2> QED
    BY <1>8, <2>1, <2>2 DEF RefreshFailed, TypeOK, droplet
<1>9. CASE TimePasses
  BY <1>9 DEF TimePasses, TypeOK, droplet, object
<1>10. CASE InstallSettles
  BY <1>10 DEF InstallSettles, TypeOK, droplet, object
<1>11. CASE Delete
  BY <1>11 DEF Delete, TypeOK, droplet, object
<1>12. CASE DropletDeleted
  BY <1>12 DEF DropletDeleted, TypeOK, object
<1>13. CASE DeleteLost
  BY <1>13, FaultType DEF DeleteLost, TypeOK, droplet, object
<1>14. CASE DeleteNotFound
  BY <1>14 DEF DeleteNotFound, TypeOK, droplet, object
<1>15. CASE OnDelete
  <2>1. /\ installState' \in {"unknown", "success", "error", "deleted"}
        /\ apiUrl' \in BOOLEAN
        /\ completed' \in BOOLEAN
    BY <1>15, SetInstallStateType DEF OnDelete
  <2> QED
    BY <1>15, <2>1 DEF OnDelete, TypeOK, droplet
<1>16. CASE Restart
  <2>1. refreshes' \in [Polls -> Refresh]
    BY <1>16, <1>idle DEF Restart
  <2>2. installState' \in {"unknown", "success", "error"}
    BY <1>16, OutcomeType DEF Restart
  <2> QED
    BY <1>16, <2>1, <2>2, FaultType DEF Restart, AddServer, TypeOK, droplet
<1>17. CASE UNCHANGED vars
  BY <1>17 DEF vars, TypeOK, droplet, object
<1> QED
  BY <1>1, <1>2, <1>3, <1>4, <1>5, <1>6, <1>7, <1>8, <1>9, <1>10, <1>11,
     <1>12, <1>13, <1>14, <1>15, <1>16, <1>17 DEF Next

(* Every variable keeps its type: the install state is one of the four of  *)
(* the code, whatever tags a refresh brings.                               *)
THEOREM TypeCorrect == Spec => []TypeOK
<1>1. Init => TypeOK
  BY InitTypeOK
<1>2. TypeOK /\ [Next]_vars => TypeOK'
  BY NextTypeOK
<1> QED
  BY <1>1, <1>2, PTL DEF Spec

----------------------------------------------------------------------------
(* The polling goes on until the state is known: whatever ends it sets the *)
(* state in the same step, and the state never becomes unknown again but   *)
(* with a new object.                                                      *)
LEMMA NextPollingGoesOn ==
  ASSUME PollingGoesOn, [Next]_vars
  PROVE  PollingGoesOn'
<1>1. CASE UNCHANGED <<installState, polling>>
  BY <1>1 DEF PollingGoesOn
<1>2. CASE PollStops
  BY <1>2 DEF PollStops, PollingGoesOn, object
<1>3. ASSUME NEW p \in Polls, Refreshed(p) PROVE PollingGoesOn'
  BY <1>3 DEF Refreshed, SetInstallState, PollingGoesOn, object
<1>4. ASSUME NEW p \in Polls, RefreshFailed(p) PROVE PollingGoesOn'
  BY <1>4 DEF RefreshFailed, SetInstallState, PollingGoesOn, object
<1>5. CASE OnDelete
  BY <1>5 DEF OnDelete, SetInstallState, PollingGoesOn, object
<1>6. CASE Restart
  BY <1>6 DEF Restart, PollingGoesOn
<1> QED
  BY <1>1, <1>2, <1>3, <1>4, <1>5, <1>6
  DEF Next, vars, object, PublishAccess, PublishError, Poll, DropletAnswers,
      RequestFails, TimePasses, InstallSettles, Delete, DropletDeleted,
      DeleteLost, DeleteNotFound

(* While the install state is unknown the interval is set, with any number *)
(* of refreshes outstanding, failing and answered late.                    *)
THEOREM PollsUntilDecided == Spec => []PollingGoesOn
<1>1. Init => PollingGoesOn
  BY DEF Init, PollingGoesOn
<1>2. PollingGoesOn /\ [Next]_vars => PollingGoesOn'
  BY NextPollingGoesOn
<1> QED
  BY <1>1, <1>2, PTL DEF Spec

----------------------------------------------------------------------------
(* What is known from answers.  A refresh that was answered brings tags    *)
(* the droplet has, for tags are only added; one that failed did so for a  *)
(* fault or a deleted droplet; and a deletion is answered once the droplet *)
(* is gone.                                                                *)
AnswersTrue ==
  /\ \A p \in Polls :
       /\ refreshes[p].tags \subseteq tags
       /\ refreshes[p].pc = "failed" => ~exists \/ faults > 0
  /\ deletion = "answered" => ~exists

LEMMA NextAnswersTrue ==
  ASSUME TypeOK, TypeOK', AnswersTrue, [Next]_vars
  PROVE  AnswersTrue'
<1> USE DEF AnswersTrue
<1>1. ASSUME NEW tag \in Access, PublishAccess(tag) PROVE AnswersTrue'
  BY <1>1 DEF PublishAccess
<1>2. CASE PublishError
  BY <1>2 DEF PublishError
<1>3. ASSUME NEW p \in Polls, Poll(p) PROVE AnswersTrue'
  BY <1>3 DEF Poll, droplet, TypeOK
<1>4. ASSUME NEW p \in Polls, DropletAnswers(p) PROVE AnswersTrue'
  BY <1>4 DEF DropletAnswers, droplet, TypeOK, Idle
<1>5. ASSUME NEW p \in Polls, RequestFails(p) PROVE AnswersTrue'
  BY <1>5, FaultType DEF RequestFails, droplet, TypeOK, Idle
<1>6. ASSUME NEW p \in Polls, Refreshed(p) PROVE AnswersTrue'
  BY <1>6 DEF Refreshed, droplet, TypeOK, Idle
<1>7. ASSUME NEW p \in Polls, RefreshFailed(p) PROVE AnswersTrue'
  BY <1>7 DEF RefreshFailed, droplet, TypeOK, Idle
<1>8. CASE DropletDeleted
  BY <1>8 DEF DropletDeleted
<1>9. CASE DeleteLost
  BY <1>9, FaultType DEF DeleteLost, droplet
<1>10. CASE OnDelete
  BY <1>10 DEF OnDelete, droplet
<1>11. CASE Restart
  BY <1>11 DEF Restart, droplet, Idle
<1>12. CASE UNCHANGED <<droplet, refreshes, faults>> /\ deletion' # "answered"
  BY <1>12 DEF droplet
<1>13. CASE UNCHANGED <<droplet, refreshes, faults, deletion>>
  BY <1>13 DEF droplet
<1> QED
  BY <1>1, <1>2, <1>3, <1>4, <1>5, <1>6, <1>7, <1>8, <1>9, <1>10, <1>11,
     <1>12, <1>13
  DEF Next, vars, PollStops, TimePasses, InstallSettles, Delete, DeleteNotFound

LEMMA AnswersAreTrue == Spec => [](TypeOK /\ AnswersTrue)
<1>1. Init => TypeOK /\ AnswersTrue
  BY InitTypeOK DEF Init, AnswersTrue, Idle
<1>2. TypeOK /\ AnswersTrue /\ [Next]_vars => TypeOK' /\ AnswersTrue'
  BY NextTypeOK, NextAnswersTrue
<1> QED
  BY <1>1, <1>2, PTL DEF Spec

----------------------------------------------------------------------------
(* Reasons. *)
LEMMA NextErrorHasCause ==
  ASSUME TypeOK, TypeOK', AnswersTrue, ErrorHasCause, [Next]_vars
  PROVE  ErrorHasCause'
<1>1. ASSUME NEW p \in Polls, Refreshed(p) PROVE ErrorHasCause'
  <2>1. Outcome(refreshes[p].tags, late) = "error"
          => late \/ "install-error" \in tags
    BY DEF Outcome, AnswersTrue
  <2> QED
    BY <1>1, <2>1 DEF Refreshed, SetInstallState, ErrorHasCause, droplet, object
<1>2. ASSUME NEW p \in Polls, RefreshFailed(p) PROVE ErrorHasCause'
  BY <1>2 DEF RefreshFailed, SetInstallState, ErrorHasCause, AnswersTrue,
              droplet, object
<1>3. CASE OnDelete
  BY <1>3 DEF OnDelete, SetInstallState, ErrorHasCause, droplet, object
<1>4. CASE Restart
  BY <1>4, FaultType DEF Restart, ErrorHasCause, droplet
<1>5. CASE /\ installState' = installState
           /\ tags \subseteq tags'
           /\ (late => late')
           /\ (exists' => exists)
           /\ (faults > 0 => faults' > 0)
  BY <1>5, Zenon DEF ErrorHasCause
<1>6. Fault => faults' > 0
  BY FaultType
<1> QED
  BY <1>1, <1>2, <1>3, <1>4, <1>5, <1>6
  DEF Next, vars, droplet, object, TypeOK, PublishAccess, PublishError, Poll,
      PollStops, DropletAnswers, RequestFails, TimePasses, InstallSettles,
      Delete, DropletDeleted, DeleteLost, DeleteNotFound

(* An installation is given up for its error tag, the timeout or the       *)
(* deletion of the droplet only, as long as no request fails.              *)
THEOREM ErrorsAreCaused == Spec => []ErrorHasCause
<1>1. Init => ErrorHasCause
  BY DEF Init, ErrorHasCause
<1>2. TypeOK /\ TypeOK' /\ AnswersTrue /\ ErrorHasCause /\ [Next]_vars
        => ErrorHasCause'
  BY NextErrorHasCause
<1> QED
  BY <1>1, <1>2, AnswersAreTrue, PTL DEF Spec

----------------------------------------------------------------------------
(* The refinement: initial states map to initial states, and every step to *)
(* a step of ServerInstall or a stutter.                                   *)
LEMMA InitInstall == Init => Install!Init
BY DEF Init, Install!Init, Access

LEMMA NextInstall ==
  ASSUME TypeOK, TypeOK', AnswersTrue, [Next]_vars
  PROVE  [Install!Next]_(Install!vars)
<1> USE DEF Install!vars
<1>1. ASSUME NEW tag \in Access, PublishAccess(tag)
      PROVE  [Install!Next]_(Install!vars)
  <2>1. CASE Access \subseteq tags'
    BY <1>1, <2>1 DEF PublishAccess, object, Install!Next, Install!Publish
  <2>2. CASE ~(Access \subseteq tags')
    BY <1>1, <2>2 DEF PublishAccess, object
  <2> QED
    BY <2>1, <2>2
<1>2. CASE PublishError
  BY <1>2 DEF PublishError, object, Access
<1>3. CASE DropletDeleted
  BY <1>3 DEF DropletDeleted, object, Install!Next, Install!Vanish
<1>4. CASE InstallSettles
  BY <1>4 DEF InstallSettles, droplet, object, Install!Next, Install!Settle
<1>5. ASSUME NEW state \in {"unknown", "success", "error", "deleted"},
             SetInstallState(state), Install!Justified(state),
             UNCHANGED <<droplet, waiter>>
      PROVE  [Install!Next]_(Install!vars)
  BY <1>5 DEF SetInstallState, droplet, object, Install!Next, Install!Decide,
              Install!Outcomes, Install!Justified
<1>6. ASSUME NEW p \in Polls, Refreshed(p) PROVE [Install!Next]_(Install!vars)
  <2> DEFINE state == Outcome(refreshes[p].tags, late)
  <2>1. state \in {"unknown", "success", "error", "deleted"}
    BY OutcomeType
  <2>2. Install!Justified(state)
    BY DEF Outcome, AnswersTrue, Install!Justified
  <2> QED
    BY <1>5, <1>6, <2>1, <2>2 DEF Refreshed
<1>7. ASSUME NEW p \in Polls, RefreshFailed(p)
      PROVE  [Install!Next]_(Install!vars)
  BY <1>5, <1>7 DEF RefreshFailed, Install!Justified
<1>8. CASE OnDelete
  <2>1. Install!Justified("deleted")
    BY <1>8 DEF OnDelete, AnswersTrue, Install!Justified
  <2> QED
    BY <1>5, <1>8, <2>1 DEF OnDelete
<1>9. CASE Restart
  <2>1. /\ installState' \in {"unknown", "success", "error"}
        /\ installState' = "success" => Access \subseteq tags
    BY <1>9, OutcomeType DEF Restart, Outcome
  <2>2. Install!StartOver
    BY <1>9, <2>1 DEF Restart, AddServer, droplet, Install!StartOver,
                      Install!Outcomes, Install!Justified
  <2> QED
    BY <2>2 DEF Install!Next
<1>10. CASE UNCHANGED <<droplet, object, waiter>>
  BY <1>10 DEF droplet, object
<1> QED
  BY <1>1, <1>2, <1>3, <1>4, <1>6, <1>7, <1>8, <1>9, <1>10
  DEF Next, vars, Poll, PollStops, DropletAnswers, RequestFails, TimePasses,
      Delete, DeleteLost, DeleteNotFound

(* A DigitalOcean server keeps the safety part of what the interface       *)
(* promises App, for any number of refreshes and faults.                   *)
THEOREM InstallImplemented == Spec => Install!SafetySpec
<1>1. Init => Install!Init
  BY InitInstall
<1>2. TypeOK /\ TypeOK' /\ AnswersTrue /\ [Next]_vars
        => [Install!Next]_(Install!vars)
  BY NextInstall
<1> QED
  BY <1>1, <1>2, AnswersAreTrue, PTL DEF Spec, Install!SafetySpec
=============================================================================
