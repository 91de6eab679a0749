-------------------------- MODULE GcpServerProofs --------------------------
(***************************************************************************)
(* Adding a server at GCP.                                                 *)
(*                                                                         *)
(* The server (GcpServer): for any number of lost requests and restarts of *)
(* the manager, and wherever the scripts on the instance stop, no static   *)
(* address is left without its instance but by the operation that was to   *)
(* delete it, an installation counts as done only when it is, and its end  *)
(* leaves something to be heard of.                                        *)
(*                                                                         *)
(* The wizard (GcpCreateServer, here the instance Wizard): for any number  *)
(* of projects and of overlapping runs of start(), a server is created     *)
(* only for a user with a healthy project, and no page that waits for      *)
(* something waits for nothing.                                            *)
(***************************************************************************)
EXTENDS GcpServer, SequenceTheorems, TLAPS

CONSTANTS Projects, Starts, MaxTaps, MaxFailures, None

VARIABLES cloud, shown, page, chosen, billing, loop, live, starts, refreshes,
          setup, pickers, options, busy, madeIn, taps, failures

Wizard == INSTANCE GcpCreateServer WITH
            MaxFaults <- MaxFailures, project <- chosen, creation <- madeIn,
            faults <- failures

----------------------------------------------------------------------------
(* The inductive invariant.  The address and the instance are deleted in   *)
(* this order by two requests that nothing ties to each other, and the     *)
(* request that promotes the address may be late, too.  What keeps them    *)
(* apart is that an address is deleted only after it was promoted, and     *)
(* that no second promotion follows: createServer is past it for good.  An *)
(* address that is still there when the instance is deleted is one whose   *)
(* own deletion was not seen to succeed.                                   *)
Promoted == creating \in {"created", "ended"}

AddressAfterPromotion == static \/ deletion = "freed" \/ dropping => Promoted

FreedBeforeDropped == deletion = "freed" \/ dropping => ~static \/ releasing

AddressInv == NoIdleAddress /\ AddressAfterPromotion /\ FreedBeforeDropped

LEMMA InitAddressInv == Init => AddressInv
BY DEF Init, AddressInv, NoIdleAddress, AddressAfterPromotion,
       FreedBeforeDropped, Promoted

(* A step that touches neither instance nor address, that does not send    *)
(* createServer back, and that starts no deletion keeps the invariant.     *)
LEMMA AddressUntouched ==
  ASSUME AddressInv,
         UNCHANGED <<vm, static, releasing, dropping>>,
         Promoted => Promoted',
         deletion' = "freed" => deletion = "freed"
  PROVE  AddressInv'
BY DEF AddressInv, NoIdleAddress, AddressAfterPromotion, FreedBeforeDropped

LEMMA NextAddressInv == AddressInv /\ [Next]_vars => AddressInv'
<1> SUFFICES ASSUME AddressInv, [Next]_vars PROVE AddressInv'
  OBVIOUS
<1> USE DEF Promoted
<1>1. CASE FirewallsListed
  BY <1>1, AddressUntouched DEF FirewallsListed, project, removal
<1>2. CASE FirewallCreated
  BY <1>2, AddressUntouched DEF FirewallCreated, removal
<1>3. CASE InstanceCreated
  BY <1>3 DEF InstanceCreated, AddressInv, NoIdleAddress,
              AddressAfterPromotion, FreedBeforeDropped, removal
<1>4. CASE InstanceAnswered
  BY <1>4, AddressUntouched DEF InstanceAnswered, project, removal
<1>5. CASE StaticIpCreated
  <2>1. ~static /\ deletion # "freed" /\ ~dropping
    BY <1>5 DEF StaticIpCreated, AddressInv, AddressAfterPromotion
  <2>2. Promoted'
    BY <1>5 DEF StaticIpCreated
  <2>3. NoIdleAddress'
    BY <1>5, <2>1 DEF StaticIpCreated, NoIdleAddress
  <2> QED
    BY <1>5, <2>1, <2>2, <2>3 DEF StaticIpCreated, AddressInv,
       AddressAfterPromotion, FreedBeforeDropped, removal
<1>6. CASE ServerCreated
  BY <1>6, AddressUntouched DEF ServerCreated, project, removal
<1>7. CASE CreationFails
  BY <1>7, AddressUntouched DEF CreationFails, project, removal
<1>8. CASE Install
  BY <1>8, AddressUntouched DEF Install, project, creation, removal
<1>9. CASE CheckState
  BY <1>9, AddressUntouched DEF CheckState, project, creation, removal
<1>10. CASE AttributesAnswered
  BY <1>10, AddressUntouched DEF AttributesAnswered, project, creation,
                                 removal
<1>11. CASE AttributesHandled
  BY <1>11, AddressUntouched DEF AttributesHandled, project, creation,
                                 removal
<1>12. CASE Delete
  BY <1>12, AddressUntouched DEF Delete, project, creation
<1>13. CASE StaticIpDeleted
  BY <1>13 DEF StaticIpDeleted, AddressInv, NoIdleAddress,
               AddressAfterPromotion, FreedBeforeDropped, creation
<1>14. CASE StaticIpNotFound
  BY <1>14, AddressUntouched DEF StaticIpNotFound, project, creation
<1>15. CASE OnDelete
  BY <1>15 DEF OnDelete, AddressInv, NoIdleAddress, AddressAfterPromotion,
               FreedBeforeDropped, project, creation
<1>16. CASE InstanceDeleted
  <2>1. (~static \/ releasing) /\ Promoted
    BY <1>16 DEF InstanceDeleted, AddressInv, AddressAfterPromotion,
                 FreedBeforeDropped
  <2> QED
    BY <1>16, <2>1 DEF InstanceDeleted, AddressInv, NoIdleAddress,
       AddressAfterPromotion, FreedBeforeDropped, creation
<1>17. CASE DeletionFails
  BY <1>17, AddressUntouched DEF DeletionFails, project, creation
<1>18. CASE Restart
  BY <1>18, AddressUntouched DEF Restart, project
<1>19. CASE AddressReleased
  BY <1>19 DEF AddressReleased, AddressInv, NoIdleAddress,
               AddressAfterPromotion, FreedBeforeDropped, creation, removal
<1>20. CASE UNCHANGED vars
  BY <1>20, AddressUntouched DEF vars, project, creation, removal
<1> QED
  BY <1>1, <1>2, <1>3, <1>4, <1>5, <1>6, <1>7, <1>8, <1>9, <1>10, <1>11,
     <1>12, <1>13, <1>14, <1>15, <1>16, <1>17, <1>18, <1>19, <1>20 DEF Next

----------------------------------------------------------------------------
(* No address outlives its instance but by an operation to delete it that  *)
(* the manager took for done: however the requests of createServer and of  *)
(* GcpHost.delete fail, come late or are forgotten by a restart, any other *)
(* static address belongs to an instance that runs, so the manager can     *)
(* find it and delete it.                                                  *)
THEOREM NoOtherAddressLeftBehind == Spec => []NoIdleAddress
<1>1. Init => AddressInv
  BY InitAddressInv
<1>2. AddressInv /\ [Next]_vars => AddressInv'
  BY NextAddressInv
<1>3. AddressInv => NoIdleAddress
  BY DEF AddressInv
<1> QED
  BY <1>1, <1>2, <1>3, PTL DEF Spec

----------------------------------------------------------------------------
(* The order of install_shadowbox's steps, of which there are as many as   *)
(* the parts that Steps is joined from have together.                      *)
StepNames ==
  {"verify_docker_installed", "verify_docker_running",
   "create_persisted_state_dir", "generate_secret_key", "generate_certificate",
   "generate_certificate_fingerprint", "write_config", "start_shadowbox",
   "start_watchtower", "wait_shadowbox", "create_first_user",
   "add_api_url_to_config", "check_firewall"}

Joins(s, t, u) ==
  /\ Len(u) = Len(s) + Len(t)
  /\ \A i \in 1 .. Len(s) : u[i] = s[i]
  /\ \A i \in 1 .. Len(t) : u[Len(s) + i] = t[i]

LEMMA Joined ==
  ASSUME NEW S, NEW s \in Seq(S), NEW t \in Seq(S)
  PROVE  s \o t \in Seq(S) /\ Joins(s, t, s \o t)
BY ConcatProperties DEF Joins

LEMMA StepsInOrder ==
  /\ Len(Steps) = 13
  /\ \A i \in 1 .. 13 :
       /\ Steps[i] = "generate_certificate_fingerprint" <=> i = 6
       /\ Steps[i] = "start_shadowbox" <=> i = 8
       /\ Steps[i] = "wait_shadowbox" <=> i = 10
       /\ Steps[i] = "create_first_user" <=> i = 11
       /\ Steps[i] = "add_api_url_to_config" <=> i = 12
<1> DEFINE A == <<"add_api_url_to_config">>
           F == <<"check_firewall">>
           DS == DockerSteps \o StateSteps
           DSC == DS \o ContainerSteps
           B == DSC \o ServiceSteps
           U == B \o A
<1>1. /\ DockerSteps \in Seq(StepNames) /\ Len(DockerSteps) = 2
      /\ StateSteps \in Seq(StepNames) /\ Len(StateSteps) = 5
      /\ ContainerSteps \in Seq(StepNames) /\ Len(ContainerSteps) = 2
      /\ ServiceSteps \in Seq(StepNames) /\ Len(ServiceSteps) = 2
      /\ A \in Seq(StepNames) /\ Len(A) = 1 /\ A[1] = "add_api_url_to_config"
      /\ F \in Seq(StepNames) /\ Len(F) = 1 /\ F[1] = "check_firewall"
  BY DEF StepNames, DockerSteps, StateSteps, ContainerSteps, ServiceSteps
<1> HIDE DEF A, F
<1>2. DS \in Seq(StepNames) /\ Joins(DockerSteps, StateSteps, DS)
  BY <1>1, Joined
<1>3. DSC \in Seq(StepNames) /\ Joins(DS, ContainerSteps, DSC)
  <2> HIDE DEF DS
  <2> QED BY <1>1, <1>2, Joined
<1>4. B \in Seq(StepNames) /\ Joins(DSC, ServiceSteps, B)
  <2> HIDE DEF DSC
  <2> QED BY <1>1, <1>3, Joined
<1>5. U \in Seq(StepNames) /\ Joins(B, A, U)
  <2> HIDE DEF B
  <2> QED BY <1>1, <1>4, Joined
<1>6. Joins(U, F, Steps)
  <2>1. Steps = U \o F
    BY DEF Steps, A, F
  <2> HIDE DEF U
  <2> QED BY <1>1, <1>5, <2>1, Joined
<1> HIDE DEF DS, DSC, B, U
<1>7. Len(DS) = 7 /\ Len(DSC) = 9 /\ Len(B) = 11 /\ Len(U) = 12
  BY <1>1, <1>2, <1>3, <1>4, <1>5 DEF Joins
<1>8. /\ Steps[1] = DockerSteps[1] /\ Steps[2] = DockerSteps[2]
      /\ \A i \in 1 .. 5 : Steps[2 + i] = StateSteps[i]
      /\ Steps[8] = ContainerSteps[1] /\ Steps[9] = ContainerSteps[2]
      /\ Steps[10] = ServiceSteps[1] /\ Steps[11] = ServiceSteps[2]
      /\ Steps[12] = A[1]
      /\ Steps[13] = F[1]
      /\ Len(Steps) = 13
  <2>1. \A i \in 1 .. 12 : Steps[i] = U[i]
    BY <1>6, <1>7 DEF Joins
  <2>2. \A i \in 1 .. 11 : U[i] = B[i]
    BY <1>5, <1>7 DEF Joins
  <2>3. \A i \in 1 .. 9 : B[i] = DSC[i]
    BY <1>4, <1>7 DEF Joins
  <2>4. \A i \in 1 .. 7 : DSC[i] = DS[i]
    BY <1>3, <1>7 DEF Joins
  <2>5. Steps[1] = DockerSteps[1] /\ Steps[2] = DockerSteps[2]
    BY <2>1, <2>2, <2>3, <2>4, <1>1, <1>2 DEF Joins
  <2>6. ASSUME NEW i \in 1 .. 5 PROVE Steps[2 + i] = StateSteps[i]
    <3>1. 2 + i \in 1 .. 7
      OBVIOUS
    <3>2. DS[2 + i] = StateSteps[i]
      BY <1>1, <1>2 DEF Joins
    <3> QED
      BY <2>1, <2>2, <2>3, <2>4, <3>1, <3>2
  <2>7. Steps[8] = ContainerSteps[1] /\ Steps[9] = ContainerSteps[2]
    BY <2>1, <2>2, <2>3, <1>1, <1>3, <1>7 DEF Joins
  <2>8. Steps[10] = ServiceSteps[1] /\ Steps[11] = ServiceSteps[2]
    BY <2>1, <2>2, <1>1, <1>4, <1>7 DEF Joins
  <2>9. Steps[12] = A[1] /\ Steps[13] = F[1] /\ Len(Steps) = 13
    BY <2>1, <1>1, <1>5, <1>6, <1>7 DEF Joins
  <2> QED BY <2>5, <2>6, <2>7, <2>8, <2>9
<1> QED
  BY <1>1, <1>8 DEF DockerSteps, StateSteps, ContainerSteps, ServiceSteps

----------------------------------------------------------------------------
(* The instance.  How far install_shadowbox got tells what is in           *)
(* ACCESS_CONFIG and what serves; what is published was in the file.       *)
ConfigOfStep ==
  accessConfig = IF step <= 6 THEN <<>>
                 ELSE IF step <= 12 THEN <<"certSha256">>
                 ELSE <<"certSha256", "apiUrl">>

ServesAfterWaiting ==
  /\ step > 10 => shadowbox = "healthy"
  /\ step > 11 => firstUser

PublishedFromFile ==
  /\ reader = "posting" => read > 0
  /\ "apiUrl" \in attributes => step > 12

InstanceInv ==
  InstanceTypeOK /\ ConfigOfStep /\ ServesAfterWaiting /\ PublishedFromFile

(* The GcpServer object.  The URL is known to it only once it was in the   *)
(* file, and a loop that goes on has no error to report.                   *)
UrlFromFile ==
  "apiUrl" \in answer \/ installState = "success" => step > 12

OutcomeForCause ==
  /\ installState = "none" => waiter = "none"
  /\ installState = "error" => waiter = "rejected"
  /\ installState = "deleted" => deletion = "done"
  /\ waiter = "fulfilled" => step > 12 \/ deletion = "done"

ObjectInv == TypeOK /\ InstanceInv /\ UrlFromFile /\ OutcomeForCause

LEMMA InitInstanceInv == Init => InstanceInv
<1> SUFFICES ASSUME Init PROVE InstanceInv
  OBVIOUS
<1> USE DEF Init, InitInstance
<1>1. step \in 1 .. Len(Steps) + 1
  BY StepsInOrder
<1>2. read \in 0 .. Len(accessConfig) /\ faults \in 0 .. MaxFaults
  BY FaultsAssumption
<1>3. InstanceTypeOK
  BY <1>1, <1>2 DEF InstanceTypeOK
<1> QED
  BY <1>3 DEF InstanceInv, ConfigOfStep, ServesAfterWaiting, PublishedFromFile

(* What a step of install_shadowbox appends, by its number. *)
LEMMA OutputOfStep ==
  ASSUME NEW i \in 1 .. 13
  PROVE  OutputConfig(Steps[i]) = IF i = 6 THEN <<"certSha256">>
                                  ELSE IF i = 12 THEN <<"apiUrl">>
                                  ELSE <<>>
BY StepsInOrder DEF OutputConfig

LEMMA ConfigAppended ==
  /\ <<>> \o <<>> = <<>>
  /\ <<>> \o <<"certSha256">> = <<"certSha256">>
  /\ <<"certSha256">> \o <<>> = <<"certSha256">>
  /\ <<"certSha256">> \o <<"apiUrl">> = <<"certSha256", "apiUrl">>
  /\ <<"certSha256", "apiUrl">> \o <<>> = <<"certSha256", "apiUrl">>
<1> DEFINE C == <<"certSha256">>
           U == <<"apiUrl">>
           CU == <<"certSha256", "apiUrl">>
<1>1. /\ C \in Seq(Access) /\ Len(C) = 1 /\ C[1] = "certSha256"
      /\ U \in Seq(Access) /\ Len(U) = 1 /\ U[1] = "apiUrl"
      /\ CU \in Seq(Access) /\ Len(CU) = 2
      /\ CU[1] = "certSha256" /\ CU[2] = "apiUrl"
      /\ <<>> \in Seq(Access)
  BY DEF Access
<1> HIDE DEF C, U, CU
<1>2. <<>> \o <<>> = <<>> /\ <<>> \o C = C /\ C \o <<>> = C /\ CU \o <<>> = CU
  BY <1>1, ConcatEmptySeq
<1>3. C \o U = CU
  <2> DEFINE J == C \o U
  <2>1. Joins(C, U, J) /\ J \in Seq(Access)
    BY <1>1, Joined
  <2> HIDE DEF J
  <2>2. Len(J) = 2 /\ J[1] = CU[1] /\ J[2] = CU[2]
    BY <1>1, <2>1 DEF Joins
  <2>3. J = CU
    BY <1>1, <2>1, <2>2, SeqEqual
  <2> QED
    BY <2>3 DEF J
<1> QED
  BY <1>2, <1>3 DEF C, U, CU

LEMMA RunStepInv == InstanceInv /\ RunStep => InstanceInv' /\ step' = step + 1
<1> SUFFICES ASSUME InstanceInv, RunStep PROVE InstanceInv' /\ step' = step + 1
  OBVIOUS
<1> USE DEF InstanceInv
<1>1. step \in 1 .. 13 /\ step' = step + 1 /\ Len(Steps) = 13
  BY StepsInOrder DEF RunStep, InstanceTypeOK
<1>2. ConfigOfStep'
  <2>1. accessConfig' = accessConfig \o OutputConfig(Steps[step])
    BY DEF RunStep
  <2>2. CASE step < 6
    <3>1. OutputConfig(Steps[step]) = <<>> /\ accessConfig = <<>>
      BY <1>1, <2>2, OutputOfStep DEF ConfigOfStep
    <3>2. accessConfig' = <<>>
      BY <2>1, <3>1, ConfigAppended
    <3> QED
      BY <1>1, <2>2, <3>2 DEF ConfigOfStep
  <2>3. CASE step = 6
    BY <1>1, <2>1, <2>3, OutputOfStep, ConfigAppended DEF ConfigOfStep
  <2>4. CASE step > 6 /\ step < 12
    <3>1. OutputConfig(Steps[step]) = <<>> /\ accessConfig = <<"certSha256">>
      BY <1>1, <2>4, OutputOfStep DEF ConfigOfStep
    <3>2. accessConfig' = <<"certSha256">>
      BY <2>1, <3>1, ConfigAppended
    <3> QED
      BY <1>1, <2>4, <3>2 DEF ConfigOfStep
  <2>5. CASE step = 12
    <3>1. OutputConfig(Steps[step]) = <<"apiUrl">>
      BY <1>1, <2>5, OutputOfStep
    <3>2. accessConfig = <<"certSha256">>
      BY <2>5 DEF ConfigOfStep
    <3> QED
      BY <1>1, <2>1, <2>5, <3>1, <3>2, ConfigAppended DEF ConfigOfStep
  <2>6. CASE step = 13
    <3>1. OutputConfig(Steps[step]) = <<>>
      BY <1>1, <2>6, OutputOfStep
    <3>2. accessConfig = <<"certSha256", "apiUrl">>
      BY <2>6 DEF ConfigOfStep
    <3> QED
      BY <1>1, <2>1, <2>6, <3>1, <3>2, ConfigAppended DEF ConfigOfStep
  <2> QED
    BY <1>1, <2>2, <2>3, <2>4, <2>5, <2>6
<1>3. ServesAfterWaiting'
  <2>1. step >= 10 => shadowbox = "healthy"
    BY <1>1, StepsInOrder DEF RunStep, ServesAfterWaiting
  <2>2. step >= 10 => UNCHANGED shadowbox
    BY <1>1, StepsInOrder DEF RunStep
  <2>3. step >= 11 => firstUser'
    <3>1. CASE step = 11
      <4>1. Steps[step] = "create_first_user"
        BY <3>1, StepsInOrder
      <4> QED
        BY <4>1, Zenon DEF RunStep
    <3>2. CASE step > 11
      <4>1. firstUser
        BY <3>2 DEF ServesAfterWaiting
      <4> QED
        BY <4>1, Zenon DEF RunStep
    <3> QED
      BY <1>1, <3>1, <3>2
  <2> QED
    BY <1>1, <2>1, <2>2, <2>3 DEF ServesAfterWaiting
<1>4. PublishedFromFile'
  BY <1>1 DEF RunStep, publish, PublishedFromFile
<1>5. InstanceTypeOK'
  <2>1. accessConfig' \in {<<>>, <<"certSha256">>, <<"certSha256", "apiUrl">>}
    BY <1>2 DEF ConfigOfStep
  <2>2. read \in 0 .. Len(accessConfig')
    BY <1>1, <1>2 DEF InstanceTypeOK, ConfigOfStep
  <2>3. /\ shadowbox' \in {"none", "starting", "healthy"}
        /\ firstUser' \in BOOLEAN /\ installing' \in BOOLEAN
    BY DEF RunStep, InstanceTypeOK
  <2> QED
    BY <1>1, <2>1, <2>2, <2>3 DEF RunStep, InstanceTypeOK, publish
<1> QED
  BY <1>1, <1>2, <1>3, <1>4, <1>5

LEMMA RunInstanceInv ==
  InstanceInv /\ RunInstance => InstanceInv' /\ step' \in {step, step + 1}
<1> SUFFICES ASSUME InstanceInv, RunInstance
             PROVE  InstanceInv' /\ step' \in {step, step + 1}
  OBVIOUS
<1>1. CASE RunStep
  BY <1>1, RunStepInv
<1>2. CASE StepFails
  <2>1. /\ installing' = FALSE
        /\ UNCHANGED <<step, accessConfig, attributes, shadowbox, firstUser,
                       reader, read, script, lost, faults>>
    BY <1>2 DEF StepFails, server, publish
  <2>2. InstanceTypeOK'
    BY <2>1 DEF InstanceInv, InstanceTypeOK
  <2>3. ConfigOfStep' /\ ServesAfterWaiting' /\ PublishedFromFile'
    BY <2>1
    DEF InstanceInv, ConfigOfStep, ServesAfterWaiting, PublishedFromFile
  <2> QED
    BY <2>1, <2>2, <2>3 DEF InstanceInv
<1> USE DEF InstanceInv, InstanceTypeOK, ConfigOfStep, ServesAfterWaiting,
            PublishedFromFile, install, server, publish, Fault
<1>3. CASE ShadowboxServes
  BY <1>3 DEF ShadowboxServes
<1>4. CASE ReadLine
  BY <1>4 DEF ReadLine, Unread
<1>5. CASE SetGuestAttribute
  <2>1. read \in 1 .. Len(accessConfig)
    BY <1>5 DEF SetGuestAttribute
  <2>2. /\ accessConfig[read] \in Attributes
        /\ accessConfig[read] = "apiUrl" => step > 12
    BY <2>1 DEF Attributes, Access
  <2>3. attributes' \in SUBSET Attributes
    BY <1>5, <2>2 DEF SetGuestAttribute
  <2>4. "apiUrl" \in attributes' => step > 12
    BY <1>5, <2>2 DEF SetGuestAttribute
  <2>5. faults' \in 0 .. MaxFaults
    BY <1>5, FaultsAssumption DEF SetGuestAttribute
  <2>6. lost' \in {lost, TRUE}
    BY <1>5, Zenon DEF SetGuestAttribute
  <2>7. UNCHANGED <<install, server, read, script>> /\ reader' = "reading"
    BY <1>5 DEF SetGuestAttribute
  <2> QED
    BY <2>3, <2>4, <2>5, <2>6, <2>7
<1>6. CASE SetGuestAttributeFails
  BY <1>6, FaultsAssumption DEF SetGuestAttributeFails
<1>7. CASE TailEnds
  BY <1>7 DEF TailEnds
<1>8. CASE Finish
  <2>1. attributes' \in SUBSET Attributes
    BY <1>8 DEF Finish, Attributes
  <2>2. "apiUrl" \in attributes' => step > 12
    BY <1>8 DEF Finish
  <2>3. faults' \in 0 .. MaxFaults
    BY <1>8, FaultsAssumption DEF Finish
  <2>4. lost' \in {lost, TRUE}
    BY <1>8, Zenon DEF Finish
  <2>5. UNCHANGED <<install, server, reader, read>> /\ script' = "ended"
    BY <1>8 DEF Finish
  <2>6. InstanceTypeOK'
    BY <2>1, <2>3, <2>4, <2>5
  <2>7. ConfigOfStep' /\ ServesAfterWaiting'
    BY <2>5
  <2>8. PublishedFromFile'
    BY <2>2, <2>5
  <2>9. step' = step
    BY <2>5
  <2> HIDE DEF InstanceTypeOK, ConfigOfStep, ServesAfterWaiting,
               PublishedFromFile, Fault
  <2> QED
    BY <2>6, <2>7, <2>8, <2>9
<1> QED
  BY <1>1, <1>2, <1>3, <1>4, <1>5, <1>6, <1>7, <1>8 DEF RunInstance

(* A step of the manager leaves the instance alone, but may use up a fault.*)
LEMMA InstanceUntouched ==
  ASSUME InstanceInv, UNCHANGED instance, Fault \/ UNCHANGED faults
  PROVE  InstanceInv' /\ step' = step
BY FaultsAssumption DEF InstanceInv, InstanceTypeOK, ConfigOfStep,
   ServesAfterWaiting, PublishedFromFile, instance, install, server, publish,
   Fault

LEMMA NextInstanceInv ==
  InstanceInv /\ [Next]_vars => InstanceInv' /\ step' \in {step, step + 1}
<1> SUFFICES ASSUME InstanceInv, [Next]_vars
             PROVE  InstanceInv' /\ step' \in {step, step + 1}
  OBVIOUS
<1>1. CASE Install
  BY <1>1, RunInstanceInv DEF Install
<1>2. CASE UNCHANGED instance /\ (Fault \/ UNCHANGED faults)
  BY <1>2, InstanceUntouched
<1>3. CASE \/ FirewallsListed \/ FirewallCreated \/ InstanceCreated
           \/ InstanceAnswered \/ StaticIpCreated \/ ServerCreated
           \/ CreationFails
  <2>1. UNCHANGED instance /\ (Fault \/ UNCHANGED faults)
    BY <1>3, Zenon DEF FirewallsListed, FirewallCreated, InstanceCreated,
       InstanceAnswered, StaticIpCreated, ServerCreated, CreationFails
  <2> QED
    BY <1>2, <2>1
<1>4. CASE CheckState \/ AttributesAnswered \/ AttributesHandled
  <2>1. UNCHANGED instance /\ (Fault \/ UNCHANGED faults)
    BY <1>4, Zenon DEF CheckState, AttributesAnswered, AttributesHandled
  <2> QED
    BY <1>2, <2>1
<1>5. CASE \/ Delete \/ StaticIpDeleted \/ AddressReleased
           \/ StaticIpNotFound \/ OnDelete
           \/ InstanceDeleted \/ DeletionFails \/ Restart
  <2>1. UNCHANGED instance /\ (Fault \/ UNCHANGED faults)
    BY <1>5, Zenon DEF Delete, StaticIpDeleted, AddressReleased,
       StaticIpNotFound, OnDelete, InstanceDeleted, DeletionFails, Restart
  <2> QED
    BY <1>2, <2>1
<1>6. CASE UNCHANGED vars
  BY <1>2, <1>6 DEF vars
<1> QED
  BY <1>1, <1>3, <1>4, <1>5, <1>6 DEF Next

----------------------------------------------------------------------------
(* The manager's part of the invariant. *)
LEMMA InitObjectInv == Init => ObjectInv
<1> SUFFICES ASSUME Init PROVE ObjectInv
  OBVIOUS
<1>1. InstanceInv
  BY InitInstanceInv
<1> QED
  BY <1>1 DEF Init, ObjectInv, TypeOK, InstanceInv, UrlFromFile,
              OutcomeForCause, Attributes

LEMMA NextTypeOK == ObjectInv /\ [Next]_vars => TypeOK'
<1> SUFFICES ASSUME ObjectInv, [Next]_vars PROVE TypeOK'
  OBVIOUS
<1>1. InstanceTypeOK' /\ attributes \in SUBSET Attributes
  BY NextInstanceInv DEF ObjectInv, InstanceInv, InstanceTypeOK
<1>2. TypeOK
  BY DEF ObjectInv
<1> USE <1>1, <1>2 DEF TypeOK, project, creation, object, removal, AddServer
<1>3. CASE FirewallsListed
  BY <1>3 DEF FirewallsListed
<1>4. CASE FirewallCreated
  <2>1. firewall' \in BOOLEAN
    BY <1>4 DEF FirewallCreated
  <2>2. creating' \in {"createInstance", "ended"}
    BY <1>4 DEF FirewallCreated
  <2>3. UNCHANGED <<vm, static, releasing, abandoned, object, removal>>
    BY <1>4 DEF FirewallCreated
  <2> QED
    BY <2>1, <2>2, <2>3
<1>5. CASE InstanceCreated
  <2>1. vm' = "running" /\ creating' \in {"getInstance", "ended"}
    BY <1>5 DEF InstanceCreated
  <2>2. UNCHANGED <<firewall, static, releasing, abandoned, object, removal>>
    BY <1>5 DEF InstanceCreated
  <2> QED
    BY <2>1, <2>2
<1>6. CASE InstanceAnswered
  BY <1>6 DEF InstanceAnswered
<1>7. CASE StaticIpCreated
  <2>1. static' \in BOOLEAN
    BY <1>7 DEF StaticIpCreated
  <2>2. creating' \in {"created", "ended"}
    BY <1>7 DEF StaticIpCreated
  <2>3. UNCHANGED <<firewall, vm, releasing, abandoned, object, removal>>
    BY <1>7 DEF StaticIpCreated
  <2> QED
    BY <2>1, <2>2, <2>3
<1>8. CASE ServerCreated
  BY <1>8 DEF ServerCreated
<1>9. CASE CreationFails
  BY <1>9 DEF CreationFails
<1>10. CASE Install
  BY <1>10 DEF Install
<1>11. CASE CheckState
  BY <1>11 DEF CheckState
<1>12. CASE AttributesAnswered
  BY <1>12 DEF AttributesAnswered
<1>13. CASE AttributesHandled
  <2>1. installState' \in {installState, "success", "error"}
    BY <1>13 DEF AttributesHandled
  <2>2. waiter' \in {"checking", "rejected"}
    BY <1>13 DEF AttributesHandled
  <2>3. UNCHANGED <<project, creation, answer, removal>>
    BY <1>13 DEF AttributesHandled
  <2> QED
    BY <2>1, <2>2, <2>3
<1>14. CASE Delete
  BY <1>14 DEF Delete
<1>15. CASE StaticIpDeleted
  <2>1. static' \in BOOLEAN /\ releasing' \in BOOLEAN
    BY <1>15 DEF StaticIpDeleted
  <2>2. deletion' = "freed"
    BY <1>15 DEF StaticIpDeleted
  <2>3. UNCHANGED <<firewall, vm, creation, object, dropping>>
    BY <1>15 DEF StaticIpDeleted
  <2> QED
    BY <2>1, <2>2, <2>3
<1>16. CASE StaticIpNotFound
  BY <1>16 DEF StaticIpNotFound
<1>17. CASE OnDelete
  BY <1>17 DEF OnDelete
<1>18. CASE InstanceDeleted
  <2>1. vm' \in {vm, "gone"}
    BY <1>18 DEF InstanceDeleted
  <2>2. UNCHANGED <<firewall, static, releasing, creation, object, deletion>>
    BY <1>18 DEF InstanceDeleted
  <2> QED
    BY <1>18, <2>1, <2>2 DEF InstanceDeleted
<1>19. CASE DeletionFails
  BY <1>19 DEF DeletionFails
<1>20. CASE Restart
  BY <1>20 DEF Restart
<1>21. CASE AddressReleased
  <2>1. static' \in BOOLEAN /\ releasing' \in BOOLEAN
    BY <1>21 DEF AddressReleased
  <2>2. UNCHANGED <<firewall, vm, creation, object, removal>>
    BY <1>21 DEF AddressReleased
  <2> QED
    BY <2>1, <2>2
<1>22. CASE UNCHANGED vars
  BY <1>22 DEF vars
<1> QED
  BY <1>3, <1>4, <1>5, <1>6, <1>7, <1>8, <1>9, <1>10, <1>11, <1>12, <1>13,
     <1>14, <1>15, <1>16, <1>17, <1>18, <1>19, <1>20, <1>21, <1>22 DEF Next

(* A step that leaves the object and the end of the deletion alone keeps   *)
(* the rest, for install_shadowbox does not go back.                       *)
LEMMA ObjectUntouched ==
  ASSUME UrlFromFile, OutcomeForCause, step \in Nat,
         step' \in {step, step + 1}, UNCHANGED object,
         deletion = "done" => deletion' = "done"
  PROVE  UrlFromFile' /\ OutcomeForCause'
BY DEF UrlFromFile, OutcomeForCause, object

LEMMA NextObjectInv == ObjectInv /\ [Next]_vars => ObjectInv'
<1> SUFFICES ASSUME ObjectInv, [Next]_vars PROVE ObjectInv'
  OBVIOUS
<1>1. TypeOK' /\ InstanceInv'
  BY NextTypeOK, NextInstanceInv DEF ObjectInv
<1>2. /\ step' \in {step, step + 1} /\ step \in Nat
      /\ UrlFromFile /\ OutcomeForCause /\ PublishedFromFile /\ TypeOK
  BY NextInstanceInv, StepsInOrder DEF ObjectInv, InstanceInv, InstanceTypeOK
<1> SUFFICES UrlFromFile' /\ OutcomeForCause'
  BY <1>1 DEF ObjectInv
<1> USE <1>2, ObjectUntouched
<1>3. CASE FirewallsListed
  BY <1>3 DEF FirewallsListed, removal
<1>4. CASE FirewallCreated
  BY <1>4 DEF FirewallCreated, removal
<1>5. CASE InstanceCreated
  BY <1>5 DEF InstanceCreated, removal
<1>6. CASE InstanceAnswered
  BY <1>6 DEF InstanceAnswered, removal
<1>7. CASE StaticIpCreated
  BY <1>7 DEF StaticIpCreated, removal
<1>8. CASE ServerCreated
  BY <1>8 DEF ServerCreated, AddServer, UrlFromFile, OutcomeForCause
<1>9. CASE CreationFails
  BY <1>9 DEF CreationFails, removal
<1>10. CASE Install
  BY <1>10 DEF Install, removal
<1>11. CASE CheckState
  <2>1. installState \in {"none", "unknown", "success", "error", "deleted"}
    BY DEF TypeOK
  <2>2. waiter' = "fulfilled" => installState \in {"success", "deleted"}
    BY <1>11, <2>1 DEF CheckState, OutcomeForCause
  <2> QED
    BY <1>11, <2>2 DEF CheckState, removal, UrlFromFile, OutcomeForCause
<1>12. CASE AttributesAnswered
  <2>1. "apiUrl" \in answer' => step > 12
    BY <1>12 DEF AttributesAnswered, PublishedFromFile
  <2> QED
    BY <1>12, <2>1 DEF AttributesAnswered, removal, UrlFromFile,
                       OutcomeForCause
<1>13. CASE AttributesHandled
  BY <1>13 DEF AttributesHandled, Access, removal, UrlFromFile,
               OutcomeForCause
<1>14. CASE Delete
  BY <1>14 DEF Delete
<1>15. CASE StaticIpDeleted
  BY <1>15 DEF StaticIpDeleted
<1>16. CASE StaticIpNotFound
  BY <1>16 DEF StaticIpNotFound
<1>17. CASE OnDelete
  BY <1>17 DEF OnDelete, UrlFromFile, OutcomeForCause
<1>18. CASE InstanceDeleted
  BY <1>18 DEF InstanceDeleted
<1>19. CASE DeletionFails
  BY <1>19 DEF DeletionFails
<1>20. CASE Restart
  BY <1>20 DEF Restart, AddServer, UrlFromFile, OutcomeForCause
<1>21. CASE AddressReleased
  BY <1>21 DEF AddressReleased, removal
<1>22. CASE UNCHANGED vars
  BY <1>22 DEF vars, removal
<1> QED
  BY <1>3, <1>4, <1>5, <1>6, <1>7, <1>8, <1>9, <1>10, <1>11, <1>12, <1>13,
     <1>14, <1>15, <1>16, <1>17, <1>18, <1>19, <1>20, <1>21, <1>22 DEF Next

(* The variables of GcpServer, of the instance and of the script on it     *)
(* keep their types, with any number of faults.                            *)
THEOREM TypeCorrect == Spec => []TypeOK
<1>1. Init => ObjectInv
  BY InitObjectInv
<1>2. ObjectInv /\ [Next]_vars => ObjectInv'
  BY NextObjectInv
<1>3. ObjectInv => TypeOK
  BY DEF ObjectInv
<1> QED
  BY <1>1, <1>2, <1>3, PTL DEF Spec

(* App shows a GCP server as installed only when Shadowbox serves there    *)
(* with its first access key, or the user has deleted it: through the file *)
(* the script writes, the loop that publishes its lines, lost requests,    *)
(* restarts of the manager and the deletion of the server while            *)
(* GcpServer.waitOnInstall waits.                                          *)
THEOREM FulfilmentJustified == Spec => []FulfilledForCause
<1>1. Init => ObjectInv
  BY InitObjectInv
<1>2. ObjectInv /\ [Next]_vars => ObjectInv'
  BY NextObjectInv
<1>3. ObjectInv => FulfilledForCause
  BY StepsInOrder DEF ObjectInv, InstanceInv, InstanceTypeOK, OutcomeForCause,
     ServesAfterWaiting, FulfilledForCause
<1> QED
  BY <1>1, <1>2, <1>3, PTL DEF Spec
----------------------------------------------------------------------------
(* The end of an installation is announced.  As long as no request of the  *)
(* script failed, what the loop is past was published, the script ends     *)
(* with every line read, and the trap adds an error unless the lines are   *)
(* complete.                                                               *)
HandedOn == IF reader = "posting" THEN read - 1 ELSE read

AllReadAtEnd ==
  script # "tailing" => ~installing /\ ~Unread /\ reader = "reading"

ReportInv ==
  ~lost =>
    /\ reader # "broken"
    /\ \A i \in 1 .. HandedOn : accessConfig[i] \in attributes
    /\ AllReadAtEnd
    /\ script = "ended" => Complete \/ "install-error" \in attributes

(* Somebody asks for the attributes as long as the outcome is unknown.     *)
StillAsking ==
  installState = "unknown" => waiter \in {"checking", "asking", "answered"}

EndReported ==
  script = "ended" /\ ~lost =>
    Access \subseteq attributes \/ "install-error" \in attributes

LEMMA RunReportInv == InstanceInv /\ ReportInv /\ RunInstance => ReportInv'
<1> SUFFICES ASSUME InstanceInv, ReportInv, RunInstance, ~lost'
             PROVE  ReportInv'
  BY DEF ReportInv
<1> USE DEF install, server, publish
<1>1. ~lost
  <2>1. CASE SetGuestAttribute
    BY <2>1, Zenon DEF SetGuestAttribute
  <2>2. CASE Finish
    BY <2>2, Zenon DEF Finish
  <2> QED
    BY <2>1, <2>2, Zenon DEF RunInstance, RunStep, StepFails,
       ShadowboxServes, ReadLine, SetGuestAttributeFails, TailEnds
<1>2. /\ reader # "broken" /\ AllReadAtEnd
      /\ \A i \in 1 .. HandedOn : accessConfig[i] \in attributes
      /\ script = "ended" => Complete \/ "install-error" \in attributes
  BY <1>1 DEF ReportInv
<1>3. /\ read \in 0 .. Len(accessConfig)
      /\ reader = "posting" => read > 0
      /\ script \in {"tailing", "finishing", "ended"}
      /\ Len(accessConfig) \in Nat /\ read \in Nat
  BY DEF InstanceInv, InstanceTypeOK, PublishedFromFile
<1>4. CASE RunStep
  <2>1. script = "tailing"
    BY <1>2, <1>4 DEF RunStep, AllReadAtEnd
  <2>2. \A i \in 1 .. read : accessConfig'[i] = accessConfig[i]
    <3>1. ConfigOfStep /\ ConfigOfStep' /\ step' = step + 1 /\ step \in Nat
      BY <1>4, RunStepInv, StepsInOrder DEF InstanceInv, InstanceTypeOK
    <3>2. CASE step <= 6
      <4>1. Len(accessConfig) = 0
        BY <3>1, <3>2 DEF ConfigOfStep
      <4> QED
        BY <1>3, <4>1
    <3>3. CASE step > 6 /\ step <= 12
      <4>1. /\ accessConfig = <<"certSha256">>
            /\ accessConfig' \in {<<"certSha256">>, <<"certSha256", "apiUrl">>}
        BY <3>1, <3>3 DEF ConfigOfStep
      <4>2. Len(accessConfig) = 1 /\ accessConfig'[1] = accessConfig[1]
        BY <4>1
      <4> QED
        BY <1>3, <4>2
    <3>4. CASE step > 12
      <4>1. accessConfig' = accessConfig
        BY <3>1, <3>4 DEF ConfigOfStep
      <4> QED
        BY <4>1
    <3> QED
      BY <3>1, <3>2, <3>3, <3>4
  <2>3. UNCHANGED <<attributes, reader, read, script>>
    BY <1>4 DEF RunStep
  <2>4. \A i \in 1 .. HandedOn : i \in 1 .. read
    <3>1. HandedOn \in Int /\ HandedOn <= read
      BY <1>3 DEF HandedOn
    <3> QED
      BY <1>3, <3>1
  <2>5. \A i \in 1 .. HandedOn' : accessConfig'[i] \in attributes'
    BY <1>2, <2>2, <2>3, <2>4 DEF HandedOn
  <2> QED
    BY <1>2, <2>1, <2>3, <2>5 DEF ReportInv, AllReadAtEnd
<1>5. CASE StepFails \/ ShadowboxServes
  <2>1. UNCHANGED <<attributes, accessConfig, publish>>
        /\ installing' \in {installing, FALSE}
    BY <1>5 DEF StepFails, ShadowboxServes
  <2> QED
    BY <1>2, <2>1
    DEF ReportInv, AllReadAtEnd, HandedOn, Complete, Unread
<1>6. CASE ReadLine
  <2>1. /\ script' = "tailing" /\ reader' = "posting" /\ read' = read + 1
        /\ reader = "reading" /\ UNCHANGED <<attributes, accessConfig>>
    BY <1>6 DEF ReadLine
  <2>2. HandedOn = read /\ HandedOn' = read
    BY <1>3, <2>1 DEF HandedOn
  <2> QED
    BY <1>2, <2>1, <2>2 DEF ReportInv, AllReadAtEnd
<1>7. CASE SetGuestAttribute
  <2>1. /\ attributes' = attributes \cup {accessConfig[read]}
        /\ script' = "tailing" /\ reader' = "reading" /\ reader = "posting"
        /\ UNCHANGED <<read, accessConfig>>
    BY <1>7 DEF SetGuestAttribute
  <2>2. HandedOn' = read /\ HandedOn = read - 1
    BY <2>1 DEF HandedOn
  <2>3. ASSUME NEW i \in 1 .. read PROVE accessConfig[i] \in attributes'
    <3>1. i \in 1 .. read - 1 \/ i = read
      BY <1>3
    <3> QED
      BY <1>2, <2>1, <2>2, <3>1
  <2> QED
    BY <2>1, <2>2, <2>3 DEF ReportInv, AllReadAtEnd
<1>8. CASE SetGuestAttributeFails
  BY <1>8 DEF SetGuestAttributeFails
<1>9. CASE TailEnds
  <2>1. reader = "reading" /\ ~installing /\ ~Unread /\ script' = "finishing"
    BY <1>2, <1>9 DEF TailEnds
  <2>2. UNCHANGED <<attributes, install, reader, read>>
    BY <1>9 DEF TailEnds
  <2> QED
    BY <1>2, <2>1, <2>2 DEF ReportInv, AllReadAtEnd, HandedOn, Unread
<1>10. CASE Finish
  <2>1. /\ script = "finishing" /\ script' = "ended"
        /\ UNCHANGED <<install, reader, read>>
    BY <1>10 DEF Finish
  <2>2. /\ attributes \subseteq attributes'
        /\ Complete \/ "install-error" \in attributes'
    <3>1. CASE Complete
      BY <1>10, <3>1 DEF Finish
    <3>2. CASE ~Complete
      <4>1. attributes' = attributes \cup {"install-error"} \/ lost'
        BY <1>10, <3>2, Zenon DEF Finish
      <4> QED
        BY <4>1
    <3> QED
      BY <3>1, <3>2
  <2> QED
    BY <1>2, <2>1, <2>2
    DEF ReportInv, AllReadAtEnd, HandedOn, Complete, Unread
<1> QED
  BY <1>4, <1>5, <1>6, <1>7, <1>8, <1>9, <1>10 DEF RunInstance

LEMMA NextReportInv ==
  InstanceInv /\ ReportInv /\ [Next]_vars => ReportInv'
<1> SUFFICES ASSUME InstanceInv, ReportInv, [Next]_vars PROVE ReportInv'
  OBVIOUS
<1>1. CASE Install
  BY <1>1, RunReportInv DEF Install
<1>2. CASE UNCHANGED instance
  BY <1>2 DEF instance, install, publish, ReportInv, AllReadAtEnd, HandedOn,
     Complete, Unread
<1>3. ~Install => UNCHANGED instance
  <2>1. CASE \/ FirewallsListed \/ FirewallCreated \/ InstanceCreated
             \/ InstanceAnswered \/ StaticIpCreated \/ ServerCreated
             \/ CreationFails
    BY <2>1, Zenon DEF FirewallsListed, FirewallCreated, InstanceCreated,
       InstanceAnswered, StaticIpCreated, ServerCreated, CreationFails
  <2>2. CASE \/ CheckState \/ AttributesAnswered \/ AttributesHandled
             \/ Delete \/ StaticIpDeleted \/ AddressReleased
             \/ StaticIpNotFound \/ OnDelete
             \/ InstanceDeleted \/ DeletionFails \/ Restart
    BY <2>2, Zenon DEF CheckState, AttributesAnswered, AttributesHandled,
       Delete, StaticIpDeleted, AddressReleased, StaticIpNotFound, OnDelete,
       InstanceDeleted, DeletionFails, Restart
  <2>3. CASE UNCHANGED vars
    BY <2>3 DEF vars
  <2> QED
    BY <2>1, <2>2, <2>3 DEF Next
<1> QED
  BY <1>1, <1>2, <1>3

LEMMA NextStillAsking == StillAsking /\ [Next]_vars => StillAsking'
<1> SUFFICES ASSUME StillAsking, [Next]_vars PROVE StillAsking'
  OBVIOUS
<1>1. CASE UNCHANGED object
  BY <1>1 DEF object, StillAsking
<1>2. CASE \/ FirewallsListed \/ FirewallCreated \/ InstanceCreated
           \/ InstanceAnswered \/ StaticIpCreated \/ CreationFails \/ Install
           \/ Delete \/ StaticIpDeleted \/ AddressReleased \/ StaticIpNotFound
           \/ InstanceDeleted \/ DeletionFails
  <2>1. UNCHANGED object
    BY <1>2, Zenon DEF FirewallsListed, FirewallCreated, InstanceCreated,
       InstanceAnswered, StaticIpCreated, CreationFails, Install, Delete,
       StaticIpDeleted, AddressReleased, StaticIpNotFound, InstanceDeleted,
       DeletionFails
  <2> QED
    BY <1>1, <2>1
<1>3. CASE ServerCreated \/ Restart \/ OnDelete
  BY <1>3 DEF ServerCreated, Restart, OnDelete, AddServer, StillAsking
<1>4. CASE CheckState
  BY <1>4 DEF CheckState, StillAsking
<1>5. CASE AttributesAnswered
  BY <1>5 DEF AttributesAnswered, StillAsking
<1>6. CASE AttributesHandled
  BY <1>6 DEF AttributesHandled, StillAsking
<1>7. CASE UNCHANGED vars
  BY <1>1, <1>7 DEF vars
<1> QED
  BY <1>2, <1>3, <1>4, <1>5, <1>6, <1>7 DEF Next

(* The end of an installation can be heard of: as long as its outcome is   *)
(* unknown GcpServer.waitOnInstall goes on asking, and once the script has *)
(* ended there is something to be found, both lines of ACCESS_CONFIG or an *)
(* error, unless a request of the script itself failed.                    *)
THEOREM EndIsHeardOf == Spec => [](StillAsking /\ EndReported)
<1>1. Init => StillAsking /\ ReportInv
  <2> SUFFICES ASSUME Init PROVE StillAsking /\ ReportInv
    OBVIOUS
  <2>1. \A i \in 1 .. HandedOn : FALSE
    BY DEF Init, InitInstance, HandedOn
  <2> QED
    BY <2>1 DEF Init, InitInstance, StillAsking, ReportInv, AllReadAtEnd
<1>2. InstanceInv /\ ReportInv => EndReported
  <2> SUFFICES ASSUME InstanceInv, ReportInv, script = "ended", ~lost,
                      Complete, NEW a \in Access
               PROVE  a \in attributes
    BY DEF ReportInv, EndReported
  <2>1. PICK i \in 1 .. Len(accessConfig) : accessConfig[i] = a
    BY DEF Complete, ToSet, InstanceInv, InstanceTypeOK
  <2>2. HandedOn = Len(accessConfig)
    BY DEF ReportInv, AllReadAtEnd, HandedOn, Unread, InstanceInv,
       InstanceTypeOK
  <2> QED
    BY <2>1, <2>2 DEF ReportInv
<1>3. Spec => []InstanceInv
  <2>1. InstanceInv /\ [Next]_vars => InstanceInv'
    BY NextInstanceInv
  <2> QED
    BY <2>1, InitInstanceInv, PTL DEF Spec
<1> QED
  BY <1>1, <1>2, <1>3, NextReportInv, NextStillAsking, PTL DEF Spec

----------------------------------------------------------------------------
(* The wizard.                                                             *)
(* Type correctness: the parts of the wizard's state, and what a step does *)
(* to each.                                                                *)
SomeProject == Projects \cup {None}
Clouds == [open : BOOLEAN, exist : SUBSET Projects,
           billed : SUBSET Projects, enabled : SUBSET Projects]
Pages == {"", "billingAccountSetup", "projectSetup", "regionPicker"}
StartSteps == {"none", "billing", "projects", "health"}
SetupSteps == {"none", "create", "link", "enable", "linkRepaired",
               "enableRepaired"}
PickerSteps == {"none", "health", "locations"}
StartMaps == [Starts -> [pc : StartSteps, of : SomeProject]]
RefreshMaps == [Wizard!Refreshers -> {"none", "asking"}]
Setups == {s \in [pc : SetupSteps, of : SomeProject] :
             s.pc # "none" => s.of \in Projects}
PickerMaps == [Wizard!Pickers -> [pc : PickerSteps, of : SomeProject]]

FormTyped ==
  page \in Pages /\ chosen \in SomeProject /\ options \in BOOLEAN
    /\ busy \in BOOLEAN
TimersTyped == loop \in Starts \cup {None} /\ live \in SUBSET Starts
BoundsTyped == taps \in 0 .. MaxTaps /\ failures \in 0 .. MaxFailures
OthersTyped ==
  /\ cloud \in Clouds /\ shown \in BOOLEAN /\ billing \in BOOLEAN
  /\ starts \in StartMaps /\ refreshes \in RefreshMaps /\ setup \in Setups
  /\ pickers \in PickerMaps /\ madeIn \in SomeProject

WizardTyped == FormTyped /\ TimersTyped /\ BoundsTyped /\ OthersTyped

LEMMA WizardTypedTypeOK == WizardTyped => Wizard!TypeOK
BY DEF WizardTyped, Wizard!TypeOK, FormTyped, TimersTyped, BoundsTyped,
       OthersTyped, SomeProject, Clouds, Pages, StartSteps, SetupSteps,
       PickerSteps, StartMaps, RefreshMaps, Setups, PickerMaps

LEMMA StartSet ==
  ASSUME NEW m \in StartMaps, NEW k \in Starts, NEW p \in SomeProject
  PROVE  /\ \A pc \in StartSteps :
              [m EXCEPT ![k] = Wizard!At(pc, p)] \in StartMaps
         /\ [m EXCEPT ![k] = Wizard!Idle] \in StartMaps
BY DEF StartMaps, StartSteps, SomeProject, Wizard!At, Wizard!Idle

LEMMA PickerSet ==
  ASSUME NEW m \in PickerMaps, NEW k, NEW p \in SomeProject
  PROVE  /\ \A pc \in PickerSteps :
              [m EXCEPT ![k] = Wizard!At(pc, p)] \in PickerMaps
         /\ [m EXCEPT ![k] = Wizard!Idle] \in PickerMaps
BY DEF PickerMaps, PickerSteps, SomeProject, Wizard!At, Wizard!Idle

LEMMA RefreshSet ==
  ASSUME NEW m \in RefreshMaps, NEW r, NEW s \in {"none", "asking"}
  PROVE  [m EXCEPT ![r] = s] \in RefreshMaps
BY DEF RefreshMaps

LEMMA SetupTyped ==
  /\ Wizard!Idle \in Setups
  /\ \A p \in Projects, pc \in SetupSteps : Wizard!At(pc, p) \in Setups
  /\ \A s \in Setups, pc \in SetupSteps :
       s.pc # "none" => [s EXCEPT !.pc = pc] \in Setups
  /\ \A s \in Setups : s.pc # "none" => s.of \in Projects
BY DEF Setups, SetupSteps, SomeProject, Wizard!At, Wizard!Idle

LEMMA TapTyped ==
  ASSUME MaxTaps \in Nat, BoundsTyped, Wizard!Tap PROVE BoundsTyped'
BY DEF BoundsTyped, Wizard!Tap

LEMMA FaultTyped ==
  ASSUME MaxFailures \in Nat, BoundsTyped, Wizard!Fault PROVE BoundsTyped'
BY DEF BoundsTyped, Wizard!Fault

LEMMA StopTyped ==
  TimersTyped /\ Wizard!StopRefreshing => TimersTyped'
BY DEF TimersTyped, Wizard!StopRefreshing

LEMMA PageTyped ==
  ASSUME FormTyped, NEW new \in Pages, Wizard!ShowPage(new),
         chosen' \in SomeProject
  PROVE  FormTyped'
BY DEF FormTyped, Wizard!ShowPage

LEMMA ProjectSetupTyped ==
  ASSUME FormTyped, NEW p \in SomeProject, Wizard!ShowProjectSetup(p)
  PROVE  FormTyped'
<1>1. chosen' \in SomeProject
  BY DEF Wizard!ShowProjectSetup
<1>2. CASE Wizard!ShowPage("projectSetup")
  BY <1>1, <1>2, PageTyped DEF Pages
<1>3. CASE UNCHANGED <<page, options, busy>>
  BY <1>1, <1>3 DEF FormTyped
<1> QED
  BY <1>2, <1>3 DEF Wizard!ShowProjectSetup

(* The end of start(), whichever way it goes. *)
LEMMA AskTyped ==
  ASSUME FormTyped, TimersTyped, OthersTyped, NEW k \in Starts,
         chosen' \in SomeProject, Wizard!AskForSetup(k)
  PROVE  FormTyped' /\ TimersTyped' /\ starts' \in StartMaps
           /\ pickers' \in PickerMaps
<1>1. starts' \in StartMaps /\ pickers' \in PickerMaps
  BY StartSet DEF Wizard!AskForSetup, OthersTyped
<1>2. CASE billing'
  BY <1>1, <1>2, ProjectSetupTyped
  DEF Wizard!AskForSetup, Wizard!timers, TimersTyped
<1>3. CASE ~billing'
  <2>1. FormTyped'
    BY <1>3, PageTyped DEF Wizard!AskForSetup, Pages
  <2>2. TimersTyped'
    BY <1>3 DEF Wizard!AskForSetup, TimersTyped
  <2> QED
    BY <1>1, <2>1, <2>2
<1> QED
  BY <1>2, <1>3

LEMMA CheckTyped ==
  ASSUME FormTyped, TimersTyped, OthersTyped, NEW k \in Starts,
         chosen' \in SomeProject, Wizard!CheckProject(k)
  PROVE  FormTyped' /\ TimersTyped' /\ starts' \in StartMaps
           /\ pickers' \in PickerMaps
<1>1. CASE chosen' = None
  BY <1>1, AskTyped DEF Wizard!CheckProject
<1>2. CASE chosen' # None
  <2>1. UNCHANGED <<page, options, busy, pickers>> /\ UNCHANGED <<loop, live>>
    BY <1>2 DEF Wizard!CheckProject, Wizard!timers
  <2>2. starts' \in StartMaps
    <3>1. starts' = [starts EXCEPT ![k] = Wizard!At("health", chosen')]
      BY <1>2 DEF Wizard!CheckProject
    <3>2. starts \in StartMaps /\ "health" \in StartSteps
      BY DEF OthersTyped, StartSteps
    <3> QED
      BY <3>1, <3>2, StartSet
  <2> QED
    BY <2>1, <2>2 DEF FormTyped, TimersTyped, OthersTyped
<1> QED
  BY <1>1, <1>2

LEMMA NextWizardTyped ==
  ASSUME MaxTaps \in Nat, MaxFailures \in Nat,
         WizardTyped, [Wizard!Next]_(Wizard!vars)
  PROVE  WizardTyped'
<1>0. FormTyped /\ TimersTyped /\ BoundsTyped /\ OthersTyped
  BY DEF WizardTyped
<1> USE DEF Wizard!form, Wizard!timers, Wizard!bounds
<1>1. ASSUME NEW k \in Starts, Wizard!CreateGcpServerTapped(k)
      PROVE  WizardTyped'
  <2>1. FormTyped'
    BY <1>0, <1>1, PageTyped
    DEF Wizard!CreateGcpServerTapped, FormTyped, Pages
  <2>2. TimersTyped'
    BY <1>0, <1>1, StopTyped DEF Wizard!CreateGcpServerTapped
  <2>3. BoundsTyped'
    BY <1>0, <1>1, TapTyped DEF Wizard!CreateGcpServerTapped
  <2>4. OthersTyped'
    BY <1>0, <1>1, StartSet
    DEF Wizard!CreateGcpServerTapped, OthersTyped, StartSteps, SomeProject
  <2> QED
    BY <2>1, <2>2, <2>3, <2>4 DEF WizardTyped
<1>2. ASSUME NEW k \in Starts, Wizard!IntervalFires(k) PROVE WizardTyped'
  <2>1. FormTyped'
    BY <1>0, <1>2 DEF Wizard!IntervalFires, FormTyped
  <2>2. TimersTyped'
    BY <1>0, <1>2 DEF Wizard!IntervalFires, TimersTyped
  <2>3. BoundsTyped'
    BY <1>0, <1>2 DEF Wizard!IntervalFires, BoundsTyped
  <2>4. OthersTyped'
    BY <1>0, <1>2, RefreshSet DEF Wizard!IntervalFires, OthersTyped
  <2> QED
    BY <2>1, <2>2, <2>3, <2>4 DEF WizardTyped
<1>3. ASSUME NEW k \in Starts, Wizard!BillingAccountsListed(k)
      PROVE  WizardTyped'
  <2>1. FormTyped'
    BY <1>0, <1>3 DEF Wizard!BillingAccountsListed, FormTyped
  <2>2. TimersTyped'
    BY <1>0, <1>3 DEF Wizard!BillingAccountsListed, TimersTyped
  <2>3. BoundsTyped'
    BY <1>0, <1>3 DEF Wizard!BillingAccountsListed, BoundsTyped
  <2>4. OthersTyped'
    BY <1>0, <1>3, StartSet
    DEF Wizard!BillingAccountsListed, OthersTyped, StartSteps, SomeProject,
        Clouds
  <2> QED
    BY <2>1, <2>2, <2>3, <2>4 DEF WizardTyped
<1>4. ASSUME NEW k \in Starts, Wizard!ProjectsListed(k) PROVE WizardTyped'
  <2>1. chosen' \in SomeProject
    BY <1>0, <1>4
    DEF Wizard!ProjectsListed, SomeProject, FormTyped, OthersTyped, Clouds
  <2>2. /\ FormTyped' /\ TimersTyped'
        /\ starts' \in StartMaps /\ pickers' \in PickerMaps
    BY <1>0, <1>4, <2>1, CheckTyped DEF Wizard!ProjectsListed
  <2>3. BoundsTyped'
    BY <1>0, <1>4 DEF Wizard!ProjectsListed, BoundsTyped
  <2>4. OthersTyped'
    BY <1>0, <1>4, <2>2 DEF Wizard!ProjectsListed, OthersTyped
  <2> QED
    BY <2>2, <2>3, <2>4 DEF WizardTyped
<1>5. ASSUME NEW k \in Starts, Wizard!ListingFails(k) PROVE WizardTyped'
  <2>1. chosen' \in SomeProject
    BY <1>0, <1>5
    DEF Wizard!ListingFails, SomeProject, FormTyped, OthersTyped, Clouds
  <2>2. /\ FormTyped' /\ TimersTyped'
        /\ starts' \in StartMaps /\ pickers' \in PickerMaps
    BY <1>0, <1>5, <2>1, CheckTyped DEF Wizard!ListingFails
  <2>3. BoundsTyped'
    BY <1>0, <1>5, FaultTyped DEF Wizard!ListingFails, BoundsTyped
  <2>4. OthersTyped'
    BY <1>0, <1>5, <2>2 DEF Wizard!ListingFails, OthersTyped
  <2> QED
    BY <2>2, <2>3, <2>4 DEF WizardTyped
<1>6. ASSUME NEW k \in Starts, Wizard!HealthAnswered(k) PROVE WizardTyped'
  <2>1. chosen' \in SomeProject
    BY <1>0, <1>6
    DEF Wizard!HealthAnswered, SomeProject, FormTyped, OthersTyped, Clouds
  <2>2. CASE chosen # None /\ Wizard!Healthy(starts[k].of)
    <3>1. UNCHANGED <<page, options, busy, loop, live, chosen>>
      BY <1>6, <2>2 DEF Wizard!HealthAnswered
    <3>2. Wizard!Pick(k)
      BY <1>6, <2>2 DEF Wizard!HealthAnswered
    <3>3. starts' \in StartMaps
      BY <1>0, <2>1, <3>2, StartSet DEF Wizard!Pick, OthersTyped
    <3>4. pickers' \in PickerMaps
      BY <1>0, <2>1, <3>2, PickerSet DEF Wizard!Pick, PickerSteps, OthersTyped
    <3> QED
      BY <1>0, <1>6, <3>1, <3>3, <3>4 
      DEF Wizard!HealthAnswered, FormTyped, TimersTyped, BoundsTyped,
          OthersTyped, WizardTyped
  <2>3. CASE ~(chosen # None /\ Wizard!Healthy(starts[k].of))
    <3>1. /\ FormTyped' /\ TimersTyped'
          /\ starts' \in StartMaps /\ pickers' \in PickerMaps
      BY <1>0, <1>6, <2>1, <2>3, AskTyped DEF Wizard!HealthAnswered
    <3> QED
      BY <1>0, <1>6, <3>1
      DEF Wizard!HealthAnswered, BoundsTyped, OthersTyped, WizardTyped
  <2> QED
    BY <2>2, <2>3
<1>7. ASSUME NEW k \in Starts, Wizard!HealthFails(k) PROVE WizardTyped'
  <2>1. FormTyped'
    BY <1>0, <1>7 DEF Wizard!HealthFails, FormTyped
  <2>2. TimersTyped'
    BY <1>0, <1>7 DEF Wizard!HealthFails, TimersTyped
  <2>3. BoundsTyped'
    BY <1>0, <1>7, FaultTyped DEF Wizard!HealthFails
  <2>4. OthersTyped'
    BY <1>0, <1>7, StartSet
    DEF Wizard!HealthFails, OthersTyped, StartSteps, SomeProject
  <2> QED
    BY <2>1, <2>2, <2>3, <2>4 DEF WizardTyped
<1>8. CASE Wizard!Leave
  <2>1. FormTyped'
    BY <1>0, <1>8 DEF Wizard!Leave, FormTyped
  <2>2. TimersTyped'
    BY <1>0, <1>8, StopTyped DEF Wizard!Leave
  <2>3. BoundsTyped'
    BY <1>0, <1>8, TapTyped DEF Wizard!Leave
  <2>4. OthersTyped'
    BY <1>0, <1>8 DEF Wizard!Leave, OthersTyped
  <2> QED
    BY <2>1, <2>2, <2>3, <2>4 DEF WizardTyped
<1>9. CASE Wizard!BillingAccountOpened
  <2>1. FormTyped'
    BY <1>0, <1>9 DEF Wizard!BillingAccountOpened, FormTyped
  <2>2. TimersTyped'
    BY <1>0, <1>9 DEF Wizard!BillingAccountOpened, TimersTyped
  <2>3. BoundsTyped'
    BY <1>0, <1>9 DEF Wizard!BillingAccountOpened, BoundsTyped
  <2>4. OthersTyped'
    BY <1>0, <1>9 DEF Wizard!BillingAccountOpened, OthersTyped, Clouds
  <2> QED
    BY <2>1, <2>2, <2>3, <2>4 DEF WizardTyped
<1>10. CASE Wizard!BillingNextTapped
  <2>1. FormTyped'
    BY <1>0, <1>10 DEF Wizard!BillingNextTapped, FormTyped
  <2>2. TimersTyped'
    BY <1>0, <1>10 DEF Wizard!BillingNextTapped, TimersTyped
  <2>3. BoundsTyped'
    BY <1>0, <1>10, TapTyped DEF Wizard!BillingNextTapped
  <2>4. OthersTyped'
    BY <1>0, <1>10, RefreshSet DEF Wizard!BillingNextTapped, OthersTyped
  <2> QED
    BY <2>1, <2>2, <2>3, <2>4 DEF WizardTyped
<1>11. ASSUME NEW r \in Wizard!Refreshers, Wizard!BillingAccountsRefreshed(r)
       PROVE  WizardTyped'
  <2>1. FormTyped'
    BY <1>0, <1>11, ProjectSetupTyped
    DEF Wizard!BillingAccountsRefreshed, FormTyped, SomeProject
  <2>2. TimersTyped'
    BY <1>0, <1>11, StopTyped
    DEF Wizard!BillingAccountsRefreshed, TimersTyped
  <2>3. BoundsTyped'
    BY <1>0, <1>11 DEF Wizard!BillingAccountsRefreshed, BoundsTyped
  <2>4. OthersTyped'
    BY <1>0, <1>11, RefreshSet
    DEF Wizard!BillingAccountsRefreshed, OthersTyped, Clouds
  <2> QED
    BY <2>1, <2>2, <2>3, <2>4 DEF WizardTyped
<1>12. ASSUME NEW r \in Wizard!Refreshers, Wizard!RefreshFails(r)
       PROVE  WizardTyped'
  <2>1. FormTyped'
    BY <1>0, <1>12, ProjectSetupTyped
    DEF Wizard!RefreshFails, FormTyped, SomeProject
  <2>2. TimersTyped'
    BY <1>0, <1>12 DEF Wizard!RefreshFails, TimersTyped
  <2>3. BoundsTyped'
    BY <1>0, <1>12, FaultTyped DEF Wizard!RefreshFails
  <2>4. OthersTyped'
    BY <1>0, <1>12, RefreshSet DEF Wizard!RefreshFails, OthersTyped
  <2> QED
    BY <2>1, <2>2, <2>3, <2>4 DEF WizardTyped
<1>13. ASSUME NEW p \in Projects, Wizard!ProjectSetupNextTapped(p)
       PROVE  WizardTyped'
  <2>1. FormTyped'
    BY <1>0, <1>13 DEF Wizard!ProjectSetupNextTapped, FormTyped
  <2>2. TimersTyped'
    BY <1>0, <1>13 DEF Wizard!ProjectSetupNextTapped, TimersTyped
  <2>3. BoundsTyped'
    BY <1>0, <1>13, TapTyped DEF Wizard!ProjectSetupNextTapped
  <2>4. OthersTyped'
    BY <1>0, <1>13, SetupTyped
    DEF Wizard!ProjectSetupNextTapped, OthersTyped, SomeProject, SetupSteps,
        FormTyped
  <2> QED
    BY <2>1, <2>2, <2>3, <2>4 DEF WizardTyped
<1>14. CASE Wizard!ProjectCreated
  <2>1. FormTyped'
    BY <1>0, <1>14 DEF Wizard!ProjectCreated, FormTyped
  <2>2. TimersTyped'
    BY <1>0, <1>14 DEF Wizard!ProjectCreated, TimersTyped
  <2>3. BoundsTyped'
    BY <1>0, <1>14, FaultTyped
    DEF Wizard!ProjectCreated, BoundsTyped
  <2>4. OthersTyped'
    <3>1. setup' \in Setups
      BY <1>0, <1>14, SetupTyped
      DEF Wizard!ProjectCreated, OthersTyped, SetupSteps
    <3>2. setup.of \in Projects
      BY <1>0, <1>14, SetupTyped DEF Wizard!ProjectCreated, OthersTyped
    <3>3. cloud' \in Clouds
      BY <1>0, <1>14, <3>2
      DEF Wizard!ProjectCreated, OthersTyped, Clouds, SomeProject
    <3> QED
      BY <1>0, <1>14, <3>1, <3>3 DEF Wizard!ProjectCreated, OthersTyped
  <2> QED
    BY <2>1, <2>2, <2>3, <2>4 DEF WizardTyped
<1>15. CASE Wizard!BillingAccountLinked
  <2>1. FormTyped'
    BY <1>0, <1>15 DEF Wizard!BillingAccountLinked, FormTyped
  <2>2. TimersTyped'
    BY <1>0, <1>15 DEF Wizard!BillingAccountLinked, TimersTyped
  <2>3. BoundsTyped'
    BY <1>0, <1>15 DEF Wizard!BillingAccountLinked, BoundsTyped
  <2>4. OthersTyped'
    BY <1>0, <1>15, SetupTyped
    DEF Wizard!BillingAccountLinked, OthersTyped, Wizard!Linking, SetupSteps,
        Clouds, SomeProject
  <2> QED
    BY <2>1, <2>2, <2>3, <2>4 DEF WizardTyped
<1>16. CASE Wizard!ServicesEnabled
  <2>1. FormTyped'
    BY <1>0, <1>16, SetupTyped 
    DEF Wizard!ServicesEnabled, FormTyped, OthersTyped, SomeProject
  <2>2. TimersTyped'
    BY <1>0, <1>16 DEF Wizard!ServicesEnabled, TimersTyped
  <2>3. BoundsTyped'
    BY <1>0, <1>16, FaultTyped
    DEF Wizard!ServicesEnabled, BoundsTyped
  <2>4. OthersTyped'
    <3>1. setup.of \in Projects /\ setup' \in Setups
      BY <1>0, <1>16, SetupTyped DEF Wizard!ServicesEnabled, OthersTyped
    <3>2. cloud' \in Clouds
      BY <1>0, <1>16, <3>1 DEF Wizard!ServicesEnabled, OthersTyped, Clouds
    <3>3. chosen' \in SomeProject
      BY <1>0, <1>16, <3>1
      DEF Wizard!ServicesEnabled, FormTyped, SomeProject
    <3>4. pickers' \in PickerMaps
      <4>1. CASE chosen' = None
        BY <1>0, <1>16, <4>1
        DEF Wizard!ServicesEnabled, OthersTyped, PickerMaps
      <4>2. CASE chosen' # None
        <5>1. pickers' = [pickers EXCEPT !["setup"] =
                            Wizard!At("health", chosen')]
          BY <1>16, <4>2 DEF Wizard!ServicesEnabled
        <5> QED
          BY <1>0, <3>3, <5>1, PickerSet DEF OthersTyped, PickerSteps
      <4> QED
        BY <4>1, <4>2
    <3> QED
      BY <1>0, <1>16, <3>1, <3>2, <3>4 DEF Wizard!ServicesEnabled, OthersTyped
  <2> QED
    BY <2>1, <2>2, <2>3, <2>4 DEF WizardTyped
<1>17. CASE Wizard!SetupFails
  <2>1. FormTyped'
    BY <1>0, <1>17 DEF Wizard!SetupFails, FormTyped
  <2>2. TimersTyped'
    BY <1>0, <1>17 DEF Wizard!SetupFails, TimersTyped
  <2>3. BoundsTyped'
    BY <1>0, <1>17, FaultTyped DEF Wizard!SetupFails, BoundsTyped, BoundsTyped
  <2>4. OthersTyped'
    BY <1>0, <1>17, SetupTyped DEF Wizard!SetupFails, OthersTyped
  <2> QED
    BY <2>1, <2>2, <2>3, <2>4 DEF WizardTyped
<1>18. ASSUME NEW c \in Wizard!Pickers, Wizard!PickerHealthAnswered(c)
       PROVE  WizardTyped'
  <2>1. FormTyped'
    BY <1>0, <1>18, PageTyped, ProjectSetupTyped
    DEF Wizard!PickerHealthAnswered, FormTyped, SomeProject, Pages
  <2>2. TimersTyped'
    BY <1>0, <1>18 DEF Wizard!PickerHealthAnswered, TimersTyped
  <2>3. BoundsTyped'
    BY <1>0, <1>18 DEF Wizard!PickerHealthAnswered, BoundsTyped
  <2>4. OthersTyped'
    <3>1. pickers' = [pickers EXCEPT ![c] = Wizard!Idle]
            \/ pickers' = [pickers EXCEPT ![c] = Wizard!At("locations", chosen)]
      BY <1>18 DEF Wizard!PickerHealthAnswered
    <3>2. chosen \in SomeProject /\ pickers \in PickerMaps
      BY <1>0 DEF FormTyped, OthersTyped
    <3>3. "locations" \in PickerSteps
      BY DEF PickerSteps
    <3>4. [pickers EXCEPT ![c] = Wizard!At("locations", chosen)] \in PickerMaps
      BY <3>2, <3>3, PickerSet
    <3>5. [pickers EXCEPT ![c] = Wizard!Idle] \in PickerMaps
      BY <3>2, PickerSet
    <3>6. pickers' \in PickerMaps
      BY <3>1, <3>4, <3>5
    <3> QED
      BY <1>0, <1>18, <3>6 DEF Wizard!PickerHealthAnswered, OthersTyped
  <2> QED
    BY <2>1, <2>2, <2>3, <2>4 DEF WizardTyped
<1>19. ASSUME NEW c \in Wizard!Pickers, Wizard!LocationsListed(c)
       PROVE  WizardTyped'
  <2>1. FormTyped'
    BY <1>0, <1>19 DEF Wizard!LocationsListed, FormTyped
  <2>2. TimersTyped'
    BY <1>0, <1>19 DEF Wizard!LocationsListed, TimersTyped
  <2>3. BoundsTyped'
    BY <1>0, <1>19 DEF Wizard!LocationsListed, BoundsTyped
  <2>4. OthersTyped'
    BY <1>0, <1>19, PickerSet
    DEF Wizard!LocationsListed, OthersTyped, SomeProject
  <2> QED
    BY <2>1, <2>2, <2>3, <2>4 DEF WizardTyped
<1>20. ASSUME NEW c \in Wizard!Pickers, Wizard!PickerFails(c)
       PROVE  WizardTyped'
  <2>1. FormTyped'
    BY <1>0, <1>20 DEF Wizard!PickerFails, FormTyped
  <2>2. TimersTyped'
    BY <1>0, <1>20 DEF Wizard!PickerFails, TimersTyped
  <2>3. BoundsTyped'
    BY <1>0, <1>20, FaultTyped DEF Wizard!PickerFails
  <2>4. OthersTyped'
    BY <1>0, <1>20, PickerSet DEF Wizard!PickerFails, OthersTyped, SomeProject
  <2> QED
    BY <2>1, <2>2, <2>3, <2>4 DEF WizardTyped
<1>21. CASE Wizard!RegionSelected
  <2>1. FormTyped'
    BY <1>0, <1>21 DEF Wizard!RegionSelected, FormTyped
  <2>2. TimersTyped'
    BY <1>0, <1>21 DEF Wizard!RegionSelected, TimersTyped
  <2>3. BoundsTyped'
    BY <1>0, <1>21, TapTyped DEF Wizard!RegionSelected
  <2>4. OthersTyped'
    BY <1>0, <1>21 DEF Wizard!RegionSelected, OthersTyped, FormTyped
  <2> QED
    BY <2>1, <2>2, <2>3, <2>4 DEF WizardTyped
<1>22. CASE Wizard!ServerCreated
  <2>1. FormTyped'
    BY <1>0, <1>22 DEF Wizard!ServerCreated, FormTyped
  <2>2. TimersTyped'
    BY <1>0, <1>22, StopTyped DEF Wizard!ServerCreated
  <2>3. BoundsTyped'
    BY <1>0, <1>22 DEF Wizard!ServerCreated, BoundsTyped
  <2>4. OthersTyped'
    BY <1>0, <1>22 DEF Wizard!ServerCreated, OthersTyped, SomeProject
  <2> QED
    BY <2>1, <2>2, <2>3, <2>4 DEF WizardTyped
<1>23. CASE Wizard!CreationFails
  <2>1. FormTyped'
    BY <1>0, <1>23 DEF Wizard!CreationFails, FormTyped
  <2>2. TimersTyped'
    BY <1>0, <1>23 DEF Wizard!CreationFails, TimersTyped
  <2>3. BoundsTyped'
    BY <1>0, <1>23, FaultTyped DEF Wizard!CreationFails
  <2>4. OthersTyped'
    BY <1>0, <1>23 DEF Wizard!CreationFails, OthersTyped, SomeProject
  <2> QED
    BY <2>1, <2>2, <2>3, <2>4 DEF WizardTyped
<1>24. CASE UNCHANGED Wizard!vars
  BY <1>0, <1>24 
  DEF Wizard!vars, FormTyped, TimersTyped, BoundsTyped, OthersTyped, WizardTyped
<1> QED
  BY <1>1, <1>2, <1>3, <1>4, <1>5, <1>6, <1>7, <1>8, <1>9, <1>10, <1>11,
     <1>12, <1>13, <1>14, <1>15, <1>16, <1>17, <1>18, <1>19, <1>20, <1>21,
     <1>22, <1>23, <1>24
  DEF Wizard!Next

(* Which steps touch what: the projects at GCP, the page, the creation.    *)
CloudStep ==
  \/ Wizard!BillingAccountOpened \/ Wizard!ProjectCreated
  \/ Wizard!BillingAccountLinked \/ Wizard!ServicesEnabled

PageStep ==
  \/ \E k \in Starts :
       \/ Wizard!CreateGcpServerTapped(k) \/ Wizard!ProjectsListed(k)
       \/ Wizard!ListingFails(k) \/ Wizard!HealthAnswered(k)
  \/ Wizard!Leave \/ Wizard!ServerCreated
  \/ \E r \in Wizard!Refreshers :
       Wizard!BillingAccountsRefreshed(r) \/ Wizard!RefreshFails(r)
  \/ \E c \in Wizard!Pickers : Wizard!PickerHealthAnswered(c)

StartStep ==
  \E k \in Starts :
    \/ Wizard!CreateGcpServerTapped(k) \/ Wizard!BillingAccountsListed(k)
    \/ Wizard!ProjectsListed(k) \/ Wizard!ListingFails(k)
    \/ Wizard!HealthAnswered(k) \/ Wizard!HealthFails(k)

SetupStep ==
  \/ \E p \in Projects : Wizard!ProjectSetupNextTapped(p)
  \/ Wizard!ProjectCreated \/ Wizard!BillingAccountLinked
  \/ Wizard!ServicesEnabled \/ Wizard!SetupFails

PickerStep ==
  \/ \E k \in Starts : Wizard!HealthAnswered(k)
  \/ Wizard!ServicesEnabled
  \/ \E c \in Wizard!Pickers :
       \/ Wizard!PickerHealthAnswered(c) \/ Wizard!LocationsListed(c)
       \/ Wizard!PickerFails(c)

LEMMA WizardSteps ==
  ASSUME [Wizard!Next]_(Wizard!vars)
  PROVE  /\ CloudStep \/ cloud' = cloud
         /\ PageStep \/ UNCHANGED <<shown, page, loop, live>>
         /\ \/ page' # "regionPicker"
            \/ page' = page
            \/ \E p : Wizard!Healthy(p)
         /\ page' = "projectSetup" => page' = page \/ billing'
         /\ madeIn' \in {None, madeIn} \/ page = "regionPicker"
         /\ billing' \in {billing, cloud.open}
         /\ StartStep \/ starts' = starts
         /\ SetupStep \/ setup' = setup
         /\ PickerStep \/ pickers' = pickers
         /\ Wizard!Fault \/ failures' = failures
<1> USE DEF Wizard!Next, Wizard!vars, Wizard!form, Wizard!timers,
      Wizard!bounds, Wizard!Linking, Wizard!CreateGcpServerTapped,
      Wizard!IntervalFires, Wizard!BillingAccountsListed,
      Wizard!ProjectsListed, Wizard!ListingFails, Wizard!HealthAnswered,
      Wizard!HealthFails, Wizard!Leave, Wizard!BillingAccountOpened,
      Wizard!BillingNextTapped, Wizard!BillingAccountsRefreshed,
      Wizard!RefreshFails, Wizard!ProjectSetupNextTapped,
      Wizard!ProjectCreated, Wizard!BillingAccountLinked,
      Wizard!ServicesEnabled, Wizard!SetupFails, Wizard!PickerHealthAnswered,
      Wizard!LocationsListed, Wizard!PickerFails, Wizard!RegionSelected,
      Wizard!ServerCreated, Wizard!CreationFails
<1>1. CloudStep \/ cloud' = cloud
  BY DEF CloudStep
<1>2. page' # "regionPicker" \/ page' = page \/ \E p : Wizard!Healthy(p)
  BY DEF Wizard!ShowPage, Wizard!ShowProjectSetup, Wizard!CheckProject,
         Wizard!AskForSetup
<1>3. madeIn' \in {None, madeIn} \/ page = "regionPicker"
  OBVIOUS
<1>4. PageStep \/ UNCHANGED <<shown, page, loop, live>>
  BY DEF PageStep
<1>5. page' = "projectSetup" => page' = page \/ billing'
  BY DEF Wizard!ShowPage, Wizard!ShowProjectSetup, Wizard!CheckProject,
         Wizard!AskForSetup
<1>6. billing' \in {billing, cloud.open}
  OBVIOUS
<1>7. StartStep \/ starts' = starts
  BY DEF StartStep
<1>8. SetupStep \/ setup' = setup
  BY DEF SetupStep
<1>9. PickerStep \/ pickers' = pickers
  BY DEF PickerStep, Wizard!CheckProject, Wizard!AskForSetup
<1>10. Wizard!Fault \/ failures' = failures
  BY DEF Wizard!Tap
<1> HIDE DEF Wizard!Next
<1> QED
  BY <1>1, <1>2, <1>3, <1>4, <1>5, <1>6, <1>7, <1>8, <1>9, <1>10

(* What the user has at GCP, he keeps.                                     *)
LEMMA CloudKept ==
  ASSUME [Wizard!Next]_(Wizard!vars), cloud \in Clouds
  PROVE  /\ cloud.billed \subseteq cloud'.billed
         /\ cloud.enabled \subseteq cloud'.enabled
         /\ cloud.open => cloud'.open
         /\ cloud.billed \subseteq cloud.exist
              => cloud'.billed \subseteq cloud'.exist
         /\ setup.pc # "none" \/ cloud'.billed = cloud.billed
<1> USE DEF Clouds
<1>1. CASE cloud' = cloud
  BY <1>1
<1>2. CASE Wizard!BillingAccountOpened
  BY <1>2 DEF Wizard!BillingAccountOpened
<1>3. CASE Wizard!ProjectCreated
  BY <1>3 DEF Wizard!ProjectCreated
<1>4. CASE Wizard!BillingAccountLinked
  BY <1>4 DEF Wizard!BillingAccountLinked, Wizard!Linking
<1>5. CASE Wizard!ServicesEnabled
  BY <1>5 DEF Wizard!ServicesEnabled
<1> QED
  BY <1>1, <1>2, <1>3, <1>4, <1>5, WizardSteps DEF CloudStep

(* A server is made only from the region picker, and that is shown only    *)
(* once a project was found healthy; which one is chosen may change later. *)
HealthyInv ==
  /\ cloud.billed \subseteq cloud.exist
  /\ page = "regionPicker" \/ madeIn # None => \E p : Wizard!Healthy(p)

LEMMA NextHealthyInv ==
  ASSUME WizardTyped, HealthyInv, [Wizard!Next]_(Wizard!vars)
  PROVE  HealthyInv'
<1>1. cloud \in Clouds
  BY DEF WizardTyped, OthersTyped
<1>2. \A p : Wizard!Healthy(p) => Wizard!Healthy(p)'
  BY <1>1, CloudKept DEF Wizard!Healthy
<1>3. page' = "regionPicker" \/ madeIn' # None => \E p : Wizard!Healthy(p)
  BY WizardSteps DEF HealthyInv
<1>4. page' = "regionPicker" \/ madeIn' # None => \E p : Wizard!Healthy(p)'
  BY <1>2, <1>3
<1>5. cloud'.billed \subseteq cloud'.exist
  BY <1>1, CloudKept DEF HealthyInv
<1> QED
  BY <1>4, <1>5 DEF HealthyInv

LEMMA InitWizard ==
  ASSUME MaxTaps \in Nat, MaxFailures \in Nat, Wizard!Init
  PROVE  WizardTyped /\ HealthyInv
<1>1. /\ page = "" /\ chosen = None /\ options = FALSE /\ busy = FALSE
      /\ loop = None /\ live = {}
  BY DEF Wizard!Init
<1>2. FormTyped /\ TimersTyped
  BY <1>1 DEF FormTyped, TimersTyped, Pages, SomeProject
<1>3. taps = 0 /\ failures = 0
  BY DEF Wizard!Init
<1>4. BoundsTyped
  BY <1>3 DEF BoundsTyped
<1>5. starts \in StartMaps /\ refreshes \in RefreshMaps /\ setup \in Setups
        /\ pickers \in PickerMaps
  BY DEF Wizard!Init, Wizard!Idle, StartMaps, RefreshMaps, Setups,
         PickerMaps, StartSteps, SetupSteps, PickerSteps, SomeProject
<1>6. OthersTyped
  BY <1>5 DEF Wizard!Init, OthersTyped, Clouds, SomeProject
<1> QED
  BY <1>2, <1>4, <1>6 DEF Wizard!Init, WizardTyped, HealthyInv

(* Each part of the wizard's state is of its type, however runs of start(),*)
(* refreshes, setups and changes to the region picker overlap.             *)
THEOREM WizardTypeCorrect ==
  ASSUME MaxTaps \in Nat, MaxFailures \in Nat
  PROVE  Wizard!Spec => []Wizard!TypeOK
<1>1. Wizard!Init => WizardTyped
  BY InitWizard
<1>2. WizardTyped /\ [Wizard!Next]_(Wizard!vars) => WizardTyped'
  BY NextWizardTyped
<1>3. WizardTyped => Wizard!TypeOK
  BY WizardTypedTypeOK
<1> QED
  BY <1>1, <1>2, <1>3, PTL DEF Wizard!Spec

(* The one project of a user who has no other is billed and enabled when   *)
(* the wizard creates a server in it, although the errors of the           *)
(* operations that create the project and enable its service are ignored,  *)
(* and whichever run of start() or setup chose it.                         *)
THEOREM ServersInHealthyProjects ==
  ASSUME MaxTaps \in Nat, MaxFailures \in Nat
  PROVE  Wizard!Spec => []Wizard!ServerInHealthyProject
<1>1. Wizard!Init => WizardTyped /\ HealthyInv
  BY InitWizard
<1>2. WizardTyped /\ [Wizard!Next]_(Wizard!vars) => WizardTyped'
  BY NextWizardTyped
<1>3. WizardTyped /\ HealthyInv /\ [Wizard!Next]_(Wizard!vars) => HealthyInv'
  BY NextHealthyInv
<1>4. WizardTyped /\ HealthyInv => Wizard!ServerInHealthyProject
  <2> SUFFICES ASSUME HealthyInv, madeIn # None, cloud.exist = {madeIn}
               PROVE  Wizard!Healthy(madeIn)
    BY DEF Wizard!ServerInHealthyProject
  <2>1. PICK p : Wizard!Healthy(p)
    BY DEF HealthyInv
  <2>2. p = madeIn
    BY <2>1 DEF HealthyInv, Wizard!Healthy
  <2> QED
    BY <2>1, <2>2
<1> QED
  BY <1>1, <1>2, <1>3, <1>4, PTL DEF Wizard!Spec

----------------------------------------------------------------------------
(* What the pages rest on.  Whether a billing account is known does not go *)
(* back, and without a failure it is known in time.                        *)
BillingPage ==
  shown /\ page = "billingAccountSetup" => loop \in live

NoPageYet == shown /\ page = ""

PageComing ==
  \/ \E k \in Starts : starts[k].pc # "none"
  \/ \E c \in Wizard!Pickers : pickers[c].pc = "health"

BlankPage == NoPageYet /\ failures = 0 => PageComing

BillingInv ==
  /\ billing \/ cloud.billed # {} => cloud.open
  /\ page = "projectSetup" \/ setup.pc # "none" => billing
  /\ failures = 0 =>
       /\ \A k \in Starts :
            cloud.billed # {} /\ starts[k].pc \in {"projects", "health"}
              => billing
       /\ \A c \in Wizard!Pickers : pickers[c].pc = "health" => billing

LEMMA NextBillingPage ==
  ASSUME BillingPage, [Wizard!Next]_(Wizard!vars)
  PROVE  BillingPage'
<1> USE DEF BillingPage, Wizard!ShowPage, Wizard!ShowProjectSetup,
      Wizard!CheckProject, Wizard!AskForSetup, Wizard!Pick, Wizard!timers,
      Wizard!form
<1>1. ASSUME NEW k \in Starts, Wizard!CreateGcpServerTapped(k)
      PROVE  BillingPage'
  BY <1>1 DEF Wizard!CreateGcpServerTapped
<1>2. ASSUME NEW k \in Starts, Wizard!ProjectsListed(k) PROVE BillingPage'
  BY <1>2 DEF Wizard!ProjectsListed
<1>3. ASSUME NEW k \in Starts, Wizard!ListingFails(k) PROVE BillingPage'
  BY <1>3 DEF Wizard!ListingFails
<1>4. ASSUME NEW k \in Starts, Wizard!HealthAnswered(k) PROVE BillingPage'
  BY <1>4 DEF Wizard!HealthAnswered
<1>5. CASE Wizard!Leave \/ Wizard!ServerCreated
  BY <1>5 DEF Wizard!Leave, Wizard!ServerCreated
<1>6. ASSUME NEW r \in Wizard!Refreshers,
             Wizard!BillingAccountsRefreshed(r)
      PROVE  BillingPage'
  <2>1. CASE cloud.open
    <3>1. Wizard!ShowPage("projectSetup")
      BY <1>6, <2>1 DEF Wizard!BillingAccountsRefreshed
    <3> QED
      BY <3>1
  <2>2. CASE ~cloud.open
    BY <1>6, <2>2 DEF Wizard!BillingAccountsRefreshed
  <2> QED
    BY <2>1, <2>2
<1>7. ASSUME NEW r \in Wizard!Refreshers, Wizard!RefreshFails(r)
      PROVE  BillingPage'
  BY <1>7 DEF Wizard!RefreshFails
<1>8. ASSUME NEW c \in Wizard!Pickers, Wizard!PickerHealthAnswered(c)
      PROVE  BillingPage'
  BY <1>8 DEF Wizard!PickerHealthAnswered
<1>9. CASE UNCHANGED <<shown, page, loop, live>>
  BY <1>9
<1> QED
  BY <1>1, <1>2, <1>3, <1>4, <1>5, <1>6, <1>7, <1>8, <1>9, WizardSteps
  DEF PageStep

LEMMA NextBillingInv ==
  ASSUME WizardTyped, BillingInv, [Wizard!Next]_(Wizard!vars)
  PROVE  BillingInv'
<1>0. /\ starts \in [Starts -> [pc : StartSteps, of : SomeProject]]
      /\ pickers \in [Wizard!Pickers -> [pc : PickerSteps, of : SomeProject]]
      /\ cloud \in Clouds /\ failures \in Nat
  BY DEF WizardTyped, OthersTyped, BoundsTyped, StartMaps, PickerMaps
<1>1. billing => billing'
  BY WizardSteps DEF BillingInv
<1>2. cloud.open => cloud'.open
  BY <1>0, CloudKept
<1>3. cloud'.billed # {} => cloud.billed # {} \/ billing
  BY <1>0, CloudKept DEF BillingInv
<1>4. billing' \/ cloud'.billed # {} => cloud'.open
  BY <1>2, <1>3, WizardSteps DEF BillingInv
<1>5. setup'.pc # "none" => setup.pc # "none" \/ page = "projectSetup"
  <2>1. CASE SetupStep
    BY <2>1 DEF SetupStep, Wizard!ProjectSetupNextTapped,
       Wizard!ProjectCreated, Wizard!BillingAccountLinked, Wizard!Linking,
       Wizard!ServicesEnabled, Wizard!SetupFails, Wizard!Idle
  <2> QED
    BY <2>1, WizardSteps
<1>6. page' = "projectSetup" \/ setup'.pc # "none" => billing'
  BY <1>1, <1>5, WizardSteps DEF BillingInv
<1>7. failures' = 0 => failures = 0 /\ ~Wizard!Fault
  BY <1>0, WizardSteps DEF Wizard!Fault
<1>8. ASSUME failures' = 0, NEW k \in Starts, cloud'.billed # {},
             starts'[k].pc \in {"projects", "health"}
      PROVE  billing'
  <2>1. CASE starts[k].pc \in {"projects", "health"}
    BY <1>1, <1>3, <1>7, <1>8, <2>1 DEF BillingInv
  <2>2. CASE starts[k].pc \notin {"projects", "health"}
    <3>1. PICK j \in Starts :
            \/ Wizard!CreateGcpServerTapped(j) \/ Wizard!BillingAccountsListed(j)
            \/ Wizard!ProjectsListed(j) \/ Wizard!ListingFails(j)
            \/ Wizard!HealthAnswered(j) \/ Wizard!HealthFails(j)
      BY <1>8, <2>2, WizardSteps DEF StartStep
    <3>2. CASE Wizard!BillingAccountsListed(j)
      BY <1>3, <1>8, <3>2, <1>1 DEF Wizard!BillingAccountsListed, BillingInv
    <3>3. CASE Wizard!CreateGcpServerTapped(j)
      BY <1>0, <1>8, <2>2, <3>3 DEF Wizard!CreateGcpServerTapped, Wizard!At
    <3>4. ~Wizard!ListingFails(j) /\ ~Wizard!HealthFails(j)
      BY <1>7, <1>8 DEF Wizard!ListingFails, Wizard!HealthFails
    <3>5. CASE Wizard!ProjectsListed(j) \/ Wizard!HealthAnswered(j)
      <4>1. j # k
        BY <2>2, <3>5 DEF Wizard!ProjectsListed, Wizard!HealthAnswered
      <4>2. starts'[k] = starts[k]
        BY <1>0, <3>5, <4>1 DEF Wizard!ProjectsListed, Wizard!HealthAnswered,
           Wizard!CheckProject, Wizard!AskForSetup, Wizard!Pick
      <4> QED
        BY <1>8, <2>2, <4>2
    <3> QED
      BY <3>1, <3>2, <3>3, <3>4, <3>5
  <2> QED
    BY <2>1, <2>2
<1>9. ASSUME failures' = 0, NEW c \in Wizard!Pickers,
             pickers'[c].pc = "health"
      PROVE  billing'
  <2>1. CASE pickers[c].pc = "health"
    BY <1>1, <1>7, <1>9, <2>1 DEF BillingInv
  <2>2. CASE pickers[c].pc # "health"
    <3>1. PickerStep
      BY <1>9, <2>2, WizardSteps
    <3>2. ASSUME NEW k \in Starts, Wizard!HealthAnswered(k)
          PROVE  billing'
      <4>1. Wizard!Pick(k) /\ Wizard!Healthy(starts[k].of)
        BY <1>9, <2>2, <3>2 DEF Wizard!HealthAnswered, Wizard!AskForSetup
      <4>2. cloud.billed # {} /\ starts[k].pc = "health"
        BY <3>2, <4>1 DEF Wizard!Healthy, Wizard!HealthAnswered
      <4> QED
        BY <1>1, <1>7, <1>9, <4>2 DEF BillingInv
    <3>3. CASE Wizard!ServicesEnabled
      BY <1>1, <3>3 DEF Wizard!ServicesEnabled, BillingInv
    <3>4. ASSUME NEW d \in Wizard!Pickers,
                 \/ Wizard!PickerHealthAnswered(d)
                 \/ Wizard!LocationsListed(d) \/ Wizard!PickerFails(d)
          PROVE  pickers'[c].pc # "health"
      BY <1>0, <2>2, <3>4 DEF Wizard!PickerHealthAnswered, Wizard!At,
         Wizard!LocationsListed, Wizard!PickerFails, Wizard!Idle
    <3> QED
      BY <1>9, <3>1, <3>2, <3>3, <3>4 DEF PickerStep
  <2> QED
    BY <2>1, <2>2
<1> QED
  BY <1>4, <1>6, <1>8, <1>9 DEF BillingInv

LEMMA NextBlankPage ==
  ASSUME WizardTyped, BillingInv, BlankPage, [Wizard!Next]_(Wizard!vars)
  PROVE  BlankPage'
<1> SUFFICES ASSUME NoPageYet', failures' = 0 PROVE PageComing'
  BY DEF BlankPage
<1>0. /\ starts \in [Starts -> [pc : StartSteps, of : SomeProject]]
      /\ pickers \in [Wizard!Pickers -> [pc : PickerSteps, of : SomeProject]]
      /\ cloud \in Clouds /\ failures \in Nat
  BY DEF WizardTyped, OthersTyped, BoundsTyped, StartMaps, PickerMaps
<1>1. failures = 0 /\ ~Wizard!Fault
  BY <1>0, WizardSteps DEF Wizard!Fault
<1>2. ASSUME NEW k \in Starts, Wizard!CreateGcpServerTapped(k)
      PROVE  PageComing'
  BY <1>0, <1>2 DEF Wizard!CreateGcpServerTapped, Wizard!At, PageComing
(* Whoever asks for the setup of a project or a billing account shows the  *)
(* page for it.                                                            *)
<1>3. ASSUME NEW k \in Starts, Wizard!AskForSetup(k) PROVE FALSE
  BY <1>3 DEF Wizard!AskForSetup, Wizard!ShowPage, Wizard!ShowProjectSetup,
     NoPageYet
<1>4. CASE \E k \in Starts : Wizard!CreateGcpServerTapped(k)
  BY <1>2, <1>4
<1>5. CASE ~ \E k \in Starts : Wizard!CreateGcpServerTapped(k)
  <2>1. NoPageYet
    BY <1>3, <1>5, WizardSteps DEF PageStep, NoPageYet,
       Wizard!ProjectsListed, Wizard!ListingFails, Wizard!HealthAnswered,
       Wizard!CheckProject, Wizard!Leave, Wizard!ServerCreated,
       Wizard!BillingAccountsRefreshed, Wizard!RefreshFails,
       Wizard!PickerHealthAnswered, Wizard!ShowPage, Wizard!ShowProjectSetup,
       Wizard!timers, Wizard!form
  <2>2. ASSUME NEW k \in Starts, starts[k].pc # "none" PROVE PageComing'
    <3>1. ASSUME starts'[k].pc = "none"
          PROVE  Wizard!HealthAnswered(k) /\ Wizard!Pick(k)
      BY <1>0, <1>1, <1>3, <1>5, <2>2, <3>1, WizardSteps DEF StartStep,
         Wizard!BillingAccountsListed, Wizard!ProjectsListed,
         Wizard!ListingFails, Wizard!HealthAnswered, Wizard!HealthFails,
         Wizard!CheckProject, Wizard!Pick, Wizard!At
    <3>2. ASSUME Wizard!Pick(k) PROVE pickers'[k].pc = "health"
      BY <1>0, <3>2 DEF Wizard!Pick, Wizard!Pickers, Wizard!At
    <3> QED
      BY <3>1, <3>2 DEF PageComing, Wizard!Pickers
  <2>3. ASSUME NEW c \in Wizard!Pickers, pickers[c].pc = "health"
        PROVE  pickers'[c].pc = "health"
    <3>1. billing
      BY <1>1, <2>3 DEF BillingInv
    <3>2. ASSUME NEW k \in Starts, Wizard!HealthAnswered(k)
          PROVE  pickers'[c].pc = "health"
      BY <1>0, <1>3, <2>3, <3>2 DEF Wizard!HealthAnswered, Wizard!Pick,
         Wizard!At
    <3>3. CASE Wizard!ServicesEnabled
      BY <1>0, <2>3, <3>3 DEF Wizard!ServicesEnabled, Wizard!At
    <3>4. ASSUME NEW d \in Wizard!Pickers, Wizard!PickerHealthAnswered(d)
          PROVE  FALSE
      BY <3>1, <3>4 DEF Wizard!PickerHealthAnswered, Wizard!ShowPage,
         Wizard!ShowProjectSetup, NoPageYet
    <3>5. ASSUME NEW d \in Wizard!Pickers, Wizard!LocationsListed(d)
          PROVE  pickers'[c].pc = "health"
      BY <1>0, <2>3, <3>5 DEF Wizard!LocationsListed
    <3>6. ASSUME NEW d \in Wizard!Pickers PROVE ~Wizard!PickerFails(d)
      BY <1>1 DEF Wizard!PickerFails
    <3> QED
      BY <2>3, <3>2, <3>3, <3>4, <3>5, <3>6, WizardSteps DEF PickerStep
  <2> QED
    BY <1>1, <2>1, <2>2, <2>3 DEF BlankPage, PageComing
<1> QED
  BY <1>4, <1>5

LEMMA InitPages ==
  Wizard!Init => BillingPage /\ BillingInv /\ BlankPage
<1> SUFFICES ASSUME Wizard!Init PROVE BillingPage /\ BillingInv /\ BlankPage
  OBVIOUS
<1>1. /\ ~shown /\ page = "" /\ ~billing /\ setup.pc = "none"
      /\ \A k \in Starts : starts[k].pc = "none"
      /\ \A c \in Wizard!Pickers : pickers[c].pc = "none"
  BY DEF Wizard!Init, Wizard!Idle
<1>2. cloud.billed # {} => cloud.open
  BY DEF Wizard!Init
<1> QED
  BY <1>1, <1>2 DEF BillingPage, BillingInv, BlankPage, NoPageYet

(* Nobody waits in vain on the page for a billing account: as long as it   *)
(* is shown the interval that asks for the accounts is set, and it is the  *)
(* one the wizard knows and will clear, whatever other runs of start() and *)
(* refreshes set, clear or replace meanwhile.                              *)
THEOREM BillingPageIsRefreshed == Wizard!Spec => []BillingPage
<1>1. Wizard!Init => BillingPage
  BY InitPages
<1>2. BillingPage /\ [Wizard!Next]_(Wizard!vars) => BillingPage'
  BY NextBillingPage
<1> QED
  BY <1>1, <1>2, PTL DEF Wizard!Spec

(* A wizard that shows no page yet has a run of start(), or the last check *)
(* of a project's health, under way, unless a request failed: every run    *)
(* that ends shows a page or hands over to one that will, since the error  *)
(* of a project setup without a billing account cannot occur by then.      *)
THEOREM BlankPageIsTemporary ==
  ASSUME MaxTaps \in Nat, MaxFailures \in Nat
  PROVE  Wizard!Spec => []BlankPage
<1>1. Wizard!Init => WizardTyped /\ BillingInv /\ BlankPage
  BY InitWizard, InitPages
<1>2. WizardTyped /\ [Wizard!Next]_(Wizard!vars) => WizardTyped'
  BY NextWizardTyped
<1>3. WizardTyped /\ BillingInv /\ [Wizard!Next]_(Wizard!vars) => BillingInv'
  BY NextBillingInv
<1>4. WizardTyped /\ BillingInv /\ BlankPage /\ [Wizard!Next]_(Wizard!vars)
        => BlankPage'
  BY NextBlankPage
<1> QED
  BY <1>1, <1>2, <1>3, <1>4, PTL DEF Wizard!Spec
=============================================================================
