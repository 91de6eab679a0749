--------------------------- MODULE InstallScript ---------------------------
(***************************************************************************)
(* The installation of Shadowbox on a new instance: the script that        *)
(* installs (install_server3.sh, which the cloud's script runs as          *)
(* install_server.sh) appends lines to the file ACCESS_CONFIG, and the     *)
(* cloud's script (gcp_install_server.sh) follows that file with tail and  *)
(* publishes each line as an attribute of the instance, or an error from   *)
(* its EXIT trap.                                                          *)
(*                                                                         *)
(* The two run at the same time.  A request of curl that is answered with  *)
(* an HTTP error is a success for the script; one that is not answered     *)
(* ends the loop that reads the file, and the script as soon as tail ends. *)
(***************************************************************************)
EXTENDS Naturals, Sequences, SequencesExt

CONSTANT MaxFaults  \* bound: failed requests, lost answers and restarts

ASSUME FaultsAssumption == MaxFaults \in Nat

Access     == {"certSha256", "apiUrl"}
Attributes == Access \cup {"install-error"}

(* The steps of install_shadowbox: Docker is there or installed, the files *)
(* of the server are made, its containers are started, and it is used.     *)
DockerSteps    == <<"verify_docker_installed", "verify_docker_running">>
StateSteps     == <<"create_persisted_state_dir", "generate_secret_key",
                    "generate_certificate", "generate_certificate_fingerprint",
                    "write_config">>
ContainerSteps == <<"start_shadowbox", "start_watchtower">>
ServiceSteps   == <<"wait_shadowbox", "create_first_user">>

(* Mutant: the URL is announced as soon as the containers run. *)
StepsUrlEarly ==
  DockerSteps \o StateSteps \o ContainerSteps \o <<"add_api_url_to_config">>
    \o ServiceSteps \o <<"check_firewall">>

Steps ==
  DockerSteps \o StateSteps \o ContainerSteps \o ServiceSteps
    \o <<"add_api_url_to_config">> \o <<"check_firewall">>

(* What a step appends to ACCESS_CONFIG. *)
OutputConfig(s) ==
  CASE s = "generate_certificate_fingerprint" -> <<"certSha256">>
    [] s = "add_api_url_to_config"            -> <<"apiUrl">>
    [] OTHER                                  -> <<>>

VARIABLES
  attributes,    \* the guest attributes of the instance
  step,          \* the step install_shadowbox is at, or Len(Steps) + 1
  installing,    \* install_server.sh runs
  shadowbox,     \* its container: "none", "starting" or "healthy"
  firstUser,     \* Shadowbox has an access key
  accessConfig,  \* the lines of ACCESS_CONFIG
  reader,        \* the loop that reads them
  read,          \* ... and how many it has read
  script,        \* gcp_install_server.sh: "tailing", "finishing" or "ended"
  lost,          \* one of its requests failed, which nothing remembers
  faults

server  == <<shadowbox, firstUser>>
install == <<step, installing, accessConfig>>
publish == <<reader, read, script>>
instance == <<attributes, server, install, publish, lost>>

Fault == faults < MaxFaults /\ faults' = faults + 1

InitInstance ==
  /\ attributes = {}
  /\ step = 1
  /\ installing = TRUE
  /\ shadowbox = "none"
  /\ firstUser = FALSE
  /\ accessConfig = <<>>
  /\ reader = "reading"
  /\ read = 0
  /\ script = "tailing"
  /\ lost = FALSE

Complete == Access \subseteq ToSet(accessConfig)

----------------------------------------------------------------------------
(* install_shadowbox. *)
RunStep ==
  /\ installing /\ step <= Len(Steps)
  /\ Steps[step] = "wait_shadowbox" => shadowbox = "healthy"
  /\ Steps[step] = "create_first_user" => shadowbox = "healthy"
  /\ shadowbox' = IF Steps[step] = "start_shadowbox" THEN "starting"
                  ELSE shadowbox
  /\ firstUser' = (firstUser \/ Steps[step] = "create_first_user")
  /\ accessConfig' = accessConfig \o OutputConfig(Steps[step])
  /\ step' = step + 1
  /\ installing' = (step < Len(Steps))
  /\ UNCHANGED <<attributes, publish, lost, faults>>

(* set -e: the first step that fails ends the script.  wait_shadowbox      *)
(* never fails, it goes on asking.                                         *)
StepFails ==
  /\ installing /\ step <= Len(Steps)
  /\ Steps[step] # "wait_shadowbox"
  /\ installing' = FALSE
  /\ UNCHANGED <<attributes, step, accessConfig, server, publish, lost,
                 faults>>

(* The container may take any time to serve, or never do. *)
ShadowboxServes ==
  /\ shadowbox = "starting"
  /\ shadowbox' = "healthy"
  /\ UNCHANGED <<attributes, firstUser, install, publish, lost, faults>>

----------------------------------------------------------------------------
(* The loop over the lines that tail finds in ACCESS_CONFIG. *)
Unread == read < Len(accessConfig)

ReadLine ==
  /\ script = "tailing" /\ reader = "reading"
  /\ Unread
  /\ reader' = "posting"
  /\ read' = read + 1
  /\ UNCHANGED <<attributes, install, server, script, lost, faults>>

(* set_guest_attribute: stored, or refused with an answer that curl, which *)
(* is run without --fail, takes for a success.                             *)
SetGuestAttribute ==
  /\ script = "tailing" /\ reader = "posting"
  /\ reader' = "reading"
  /\ \/ attributes' = attributes \cup {accessConfig[read]}
        /\ UNCHANGED <<lost, faults>>
     \/ Fault /\ lost' = TRUE /\ UNCHANGED attributes
  /\ UNCHANGED <<install, server, read, script>>

SetGuestAttributeFails ==
  /\ script = "tailing" /\ reader = "posting"
  /\ Fault
  /\ lost' = TRUE
  /\ reader' = "broken"
  /\ UNCHANGED <<attributes, install, server, read, script>>

(* tail ends after the installation, when everything was read, or when it  *)
(* has a line for a loop that has ended.  The trap runs.                   *)
TailEnds ==
  /\ script = "tailing"
  /\ \/ reader = "reading" /\ ~installing /\ ~Unread
     \/ reader = "broken" /\ (~installing \/ Unread)
  /\ script' = "finishing"
  /\ UNCHANGED <<attributes, install, server, reader, read, lost, faults>>

(* Mutant: the trap looks for the fingerprint only. *)
FinishHalf ==
  /\ script = "finishing"
  /\ script' = "ended"
  /\ IF "certSha256" \in ToSet(accessConfig)
     THEN UNCHANGED <<attributes, lost, faults>>
     ELSE \/ attributes' = attributes \cup {"install-error"}
             /\ UNCHANGED <<lost, faults>>
          \/ Fault /\ lost' = TRUE /\ UNCHANGED attributes
  /\ UNCHANGED <<install, server, reader, read>>

(* The trap looks at the file, not at what was published. *)
Finish ==
  /\ script = "finishing"
  /\ script' = "ended"
  /\ IF Complete
     THEN UNCHANGED <<attributes, lost, faults>>
     ELSE \/ attributes' = attributes \cup {"install-error"}
             /\ UNCHANGED <<lost, faults>>
          \/ Fault /\ lost' = TRUE /\ UNCHANGED attributes
  /\ UNCHANGED <<install, server, reader, read>>

RunInstance ==
  \/ RunStep \/ StepFails \/ ShadowboxServes
  \/ ReadLine \/ SetGuestAttribute \/ SetGuestAttributeFails
  \/ TailEnds \/ Finish

InstanceTypeOK ==
  /\ attributes \in SUBSET Attributes
  /\ step \in 1 .. Len(Steps) + 1
  /\ installing \in BOOLEAN
  /\ shadowbox \in {"none", "starting", "healthy"}
  /\ firstUser \in BOOLEAN
  /\ accessConfig \in {<<>>, <<"certSha256">>, <<"certSha256", "apiUrl">>}
  /\ reader \in {"reading", "posting", "broken"}
  /\ read \in 0 .. Len(accessConfig)
  /\ script \in {"tailing", "finishing", "ended"}
  /\ lost \in BOOLEAN
  /\ faults \in 0 .. MaxFaults
=============================================================================
