--------------------------- MODULE BoundaryProofs ---------------------------
(***************************************************************************)
(* Theorems about the launch boundary, for any capabilities, challenges    *)
(* saved, networks left behind and number of changes.                      *)
(***************************************************************************)
EXTENDS Boundary, TLAPS

\* A worker that is up could start again: what it checked of the environment
\* and the table stays acceptable.
Booted ==
  /\ up => Bootable
  /\ ~up => ~connected /\ ~reloading /\ At("idle")

TypeInv == TypeOK /\ Booted

AfterCapabilities == {"run", "started"}
AfterVolumes == AfterCapabilities \cup {"capabilities"}
AfterImage == AfterVolumes \cup {"volumes"}
AfterSeparation == AfterImage \cup {"image"}
AfterNetwork == AfterSeparation \cup {"separation"}
AfterDaemon == AfterNetwork \cup {"network"}

\* A launch in progress has seen what holds now.
Watched == ~At("idle") => Facts \subseteq launch.seen

ControlsSeen ==
  launch.pc \in AfterDaemon =>
    /\ "cpu and pid controls" \in launch.seen
    /\ ~env.override => "controls" \in launch.seen

NetworkSeen ==
  /\ launch.pc \in AfterNetwork =>
       /\ {"isolated", "owned"} \subseteq launch.seen
       /\ env.target # "local" => "egress" \in launch.seen
  /\ launch.pc \in AfterSeparation => (env.named => "separate" \in launch.seen)

ImageChecked ==
  launch.pc \in AfterImage /\ env.target = "production" =>
    LET image == launch.challenge.image IN
    image.pinned /\ image.sound /\ image.inPrefix

ExtrasSeen ==
  /\ launch.pc \in AfterVolumes =>
       \/ launch.challenge.volumes = "none"
       \/ launch.challenge.volumes = "read-only" /\ "volumes" \in launch.seen
  /\ launch.pc \in AfterCapabilities =>
       launch.challenge.capabilities \subseteq launch.seen

ChecksInv ==
  /\ Watched
  /\ ControlsSeen
  /\ NetworkSeen
  /\ ImageChecked
  /\ ExtrasSeen
  /\ ProductionImageIsChecked

BoundaryInv == TypeInv /\ ChecksInv

-----------------------------------------------------------------------------
(* Type correctness.                                                       *)

LEMMA EffectiveType ==
  ASSUME NEW t \in Settings, env \in Environments
  PROVE  Effective(t) \in Settings
  BY DEF Effective, Settings, Environments

\* What a worker that may start enforces.
LEMMA BootableEnforces ==
  ASSUME env \in Environments, table \in Settings, Bootable
  PROVE  /\ Effective(table).limits = "positive"
         /\ env.target # "local" => Effective(table).endpoint = "ssh"
  BY DEF Bootable, ProfileAccepted, EndpointAccepted

\* A form that passes the validation leaves the table bootable.
LEMMA AcceptedStaysBootable ==
  ASSUME env \in Environments, table \in Settings, NEW form \in Settings,
         Bootable, FormAccepted(form), table' = form, UNCHANGED env
  PROVE  Bootable'
<1>1. ProfileAccepted(Effective(form))
  BY DEF FormAccepted, ProfileAccepted, Effective, Settings
<1>2. EndpointAccepted(env, Effective(form).endpoint)
  <2>1. CASE env.endpoint = "unset"
    BY <2>1 DEF FormAccepted, Effective
  <2>2. CASE env.endpoint # "unset"
    <3>1. Effective(form).endpoint = Effective(table).endpoint
      BY <2>2 DEF Effective, Settings
    <3>. QED
      BY <3>1 DEF Bootable
  <2>. QED
    BY <2>1, <2>2
<1>3. Effective(table)' = Effective(form)
  BY DEF Effective
<1>. QED
  BY <1>1, <1>2, <1>3 DEF Bootable

LEMMA IdleIsLaunch == Idle \in Launches
  BY DEF Idle, Launches, PlainChallenge, Challenges, Images, Volumes, PCs

LEMMA FactsType == Facts \subseteq Promises \cup Capabilities
  BY DEF Facts

LEMMA SeenMore ==
  ASSUME launch \in Launches, NEW facts \in SUBSET (Promises \cup Capabilities)
  PROVE  [launch EXCEPT !.seen = @ \cup facts] \in Launches
  BY DEF Launches

LEMMA CheckType ==
  ASSUME TypeInv, NEW pc \in PCs, NEW accepted \in BOOLEAN,
         NEW next \in PCs \ {"idle"}, pc # "idle", Check(pc, accepted, next)
  PROVE  TypeInv'
<1>1. launch' \in Launches
  BY IdleIsLaunch DEF Check, Goto, TypeInv, TypeOK, Launches
<1>2. up
  BY DEF Check, TypeInv, Booted, At
<1>. QED
  BY <1>1, <1>2 DEF Check, TypeInv, TypeOK, Booted, Bootable, Effective, workerVars,
     outsideVars, dbVars

\* A change moves no step and keeps the worker as it is, but for the table
\* and the connection.
LEMMA WatchType ==
  ASSUME TypeInv, Watch, Facts' \subseteq Promises \cup Capabilities
  PROVE  launch' \in Launches /\ launch'.pc = launch.pc
  BY SeenMore DEF Watch, TypeInv, TypeOK, Launches

LEMMA ChangeType ==
  ASSUME TypeInv, Change
  PROVE  /\ up
         /\ changes' \in 0..MaxChanges
         /\ launch' \in Launches
<1>1. (Promises \cup Capabilities)' = Promises \cup Capabilities
  BY DEF Promises
<1>2. Facts' \subseteq Promises \cup Capabilities
  BY <1>1 DEF Facts
<1>. QED
  BY <1>2, WatchType, BoundaryAssumption DEF Change, TypeInv, TypeOK

LEMMA TypeInit == Init => TypeInv
<1>. SUFFICES ASSUME Init PROVE TypeInv
  OBVIOUS
<1>1. network \in Networks
  BY DEF Init, Networks, EGRESS_POLICIES, Environments
<1>2. challenge \in Challenges
  BY DEF Init, Challenges, PlainChallenge, Images, Volumes
<1>3. launch \in Launches
  BY IdleIsLaunch DEF Init
<1>4. changes \in 0..MaxChanges
  BY BoundaryAssumption DEF Init
<1>5. {table, settings} \subseteq Settings
  BY DEF Init
<1>6. {attached, tagSound, up, connected, reloading} \subseteq BOOLEAN
  BY DEF Init
<1>7. env \in Environments /\ controls \subseteq REQUIRED_DAEMON_CAPABILITIES
  BY DEF Init
<1>8. ~up /\ ~connected /\ ~reloading /\ At("idle")
  BY DEF Init, Idle, At
<1>. QED
  BY <1>1, <1>2, <1>3, <1>4, <1>5, <1>6, <1>7, <1>8 DEF TypeInv, TypeOK, Booted

LEMMA TypeNext == TypeInv /\ [Next]_vars => TypeInv'
<1>. SUFFICES ASSUME TypeInv, [Next]_vars PROVE TypeInv'
  OBVIOUS
<1>. USE DEF TypeInv, TypeOK, Booted
<1>1. CASE Boot
  <2>1. Effective(table) \in Settings
    BY EffectiveType
  <2>2. connected' \in BOOLEAN
    BY <1>1 DEF Boot, LiveAccepted, DaemonAccepted, NetworkAccepted, SeparationAccepted,
       Networks
  <2>3. settings' = Effective(table) /\ UNCHANGED <<env, outsideVars, dbVars, launch, changes, reloading>> /\ up' /\ Bootable
    BY <1>1 DEF Boot
  <2>4. Bootable'
    BY <2>3 DEF Bootable, Effective, dbVars
  <2>. QED
    BY <2>1, <2>2, <2>3, <2>4, BootableEnforces DEF outsideVars, dbVars, Boot
<1>2. CASE BootRefused
  BY <1>2 DEF BootRefused, vars, outsideVars, dbVars, workerVars, At, Bootable, Effective
<1>3. CASE Connect
  <2>1. connected' \in BOOLEAN
    BY <1>3 DEF Connect, LiveAccepted, DaemonAccepted, NetworkAccepted, SeparationAccepted,
       Networks
  <2>. QED
    BY <1>3, <2>1 DEF Connect, outsideVars, dbVars, At, Bootable, Effective
<1>4. CASE Begin
  <2>1. launch' \in Launches
    BY <1>4, FactsType DEF Begin, Launches, PCs
  <2>. QED
    BY <1>4, <2>1 DEF Begin, outsideVars, dbVars, workerVars, At, Bootable, Effective
<1>5. CASE CheckDaemon
  BY <1>5, CheckType DEF CheckDaemon, DaemonAccepted, PCs
<1>6. CASE CheckNetwork
  BY <1>6, CheckType DEF CheckNetwork, NetworkAccepted, Networks, PCs
<1>7. CASE CheckSeparation
  BY <1>7, CheckType DEF CheckSeparation, SeparationAccepted, PCs
<1>8. CASE CheckImage
  BY <1>8, CheckType DEF CheckImage, ReferenceAccepted, SoundNow, PCs
<1>9. CASE CheckVolumes
  BY <1>9, CheckType DEF CheckVolumes, VolumesAccepted, PCs
<1>10. CASE CheckCapabilities
  BY <1>10, CheckType DEF CheckCapabilities, CapabilitiesAccepted, PCs
<1>11. CASE Run
  <2>1. SoundNow(launch.challenge.image) \in BOOLEAN
    BY DEF SoundNow, Launches, Challenges, Images
  <2>2. launch' \in Launches
    BY <1>11, <2>1, IdleIsLaunch DEF Run, Launches, PCs
  <2>. QED
    BY <1>11, <2>2 DEF Run, outsideVars, dbVars, workerVars, At, Bootable, Effective
<1>12. CASE Return
  BY <1>12, IdleIsLaunch DEF Return, outsideVars, dbVars, workerVars, At, Idle, Bootable, Effective
<1>13. CASE ChangeControls
  BY <1>13, ChangeType DEF ChangeControls, dbVars, workerVars, Bootable, Effective,
     REQUIRED_DAEMON_CAPABILITIES
<1>14. CASE ChangeNetwork
  BY <1>14, ChangeType, BoundaryAssumption DEF ChangeNetwork, dbVars, workerVars, Bootable,
     Effective
<1>15. CASE Attach
  BY <1>15, ChangeType DEF Attach, dbVars, workerVars, Bootable, Effective
<1>16. CASE MoveTag
  BY <1>16, ChangeType DEF MoveTag, dbVars, workerVars, Bootable, Effective
<1>17. CASE LoseConnection
  BY <1>17, ChangeType DEF LoseConnection, outsideVars, dbVars, Bootable, Effective
<1>18. ASSUME NEW form \in Settings, SaveSettings(form)
       PROVE  TypeInv'
  <2>1. Bootable'
    BY <1>18, ChangeType, AcceptedStaysBootable DEF SaveSettings
  <2>. QED
    BY <1>18, <2>1, ChangeType DEF SaveSettings, outsideVars
<1>19. CASE ReloadSettings
  <2>1. Facts' \subseteq Promises \cup Capabilities
    BY DEF Facts, Promises
  <2>2. launch' \in Launches
    BY <1>19, <2>1, WatchType DEF ReloadSettings
  <2>3. Effective(table) \in Settings
    BY EffectiveType
  <2>4. connected' \in BOOLEAN
    BY <1>19 DEF ReloadSettings, LiveAccepted, DaemonAccepted, NetworkAccepted,
       SeparationAccepted, Networks
  <2>. QED
    BY <1>19, <2>2, <2>3, <2>4, BootableEnforces DEF ReloadSettings, outsideVars, dbVars,
       Bootable, Effective
<1>20. ASSUME NEW c \in Saved, SaveChallenge(c)
       PROVE  TypeInv'
  BY <1>20, ChangeType, BoundaryAssumption DEF SaveChallenge, outsideVars, workerVars, Bootable, Effective
<1>21. CASE UNCHANGED vars
  BY <1>21 DEF vars, outsideVars, dbVars, workerVars, At, Bootable, Effective
<1>. QED
  BY <1>1, <1>2, <1>3, <1>4, <1>5, <1>6, <1>7, <1>8, <1>9, <1>10, <1>11, <1>12, <1>13,
     <1>14, <1>15, <1>16, <1>17, <1>18, <1>19, <1>20, <1>21 DEF Next

\* The worker and its launch never leave their types; a worker that is up
\* enforces positive limits and, off the local target, talks to ssh only.
THEOREM TypeCorrect == Spec => []TypeOK
<1>1. TypeInv /\ [Next]_vars => TypeInv'
  BY TypeNext
<1>2. TypeInv => TypeOK
  BY DEF TypeInv
<1>. QED
  BY <1>1, <1>2, TypeInit, PTL DEF Spec

-----------------------------------------------------------------------------
(* What the checks of a launch have established.                           *)

LEMMA ChecksInit == Init => ChecksInv
  BY DEF Init, ChecksInv, Watched, ControlsSeen, NetworkSeen, ImageChecked, ExtrasSeen,
     ProductionImageIsChecked, Idle, At, AfterDaemon, AfterNetwork, AfterSeparation,
     AfterImage, AfterVolumes, AfterCapabilities

\* An idle worker has nothing to keep.
LEMMA IdleChecks ==
  ASSUME launch'.pc = "idle"
  PROVE  ChecksInv'
  BY DEF ChecksInv, Watched, ControlsSeen, NetworkSeen, ImageChecked, ExtrasSeen,
     ProductionImageIsChecked, Idle, At, AfterDaemon, AfterNetwork, AfterSeparation,
     AfterImage, AfterVolumes, AfterCapabilities

\* What a launch has seen is only added to.
LEMMA WatchChecks ==
  ASSUME TypeInv, ChecksInv, Watch, UNCHANGED env
  PROVE  ChecksInv'
<1>1. CASE At("idle")
  BY <1>1 DEF Watch, ChecksInv, Watched, ControlsSeen, NetworkSeen, ImageChecked,
     ExtrasSeen, ProductionImageIsChecked, At, AfterDaemon, AfterNetwork,
     AfterSeparation, AfterImage, AfterVolumes, AfterCapabilities
<1>2. CASE ~At("idle")
  <2>1. /\ launch'.pc = launch.pc
        /\ launch'.challenge = launch.challenge
        /\ launch'.sound = launch.sound
        /\ launch'.seen = launch.seen \cup Facts'
    BY <1>2 DEF Watch, TypeInv, TypeOK, Launches
  <2>. QED
    BY <2>1 DEF ChecksInv, Watched, ControlsSeen, NetworkSeen, ImageChecked, ExtrasSeen,
       ProductionImageIsChecked, At, AfterDaemon, AfterNetwork, AfterSeparation,
       AfterImage, AfterVolumes, AfterCapabilities
<1>. QED
  BY <1>1, <1>2

\* A check that passes takes the launch to its next step with what it has seen,
\* which is what holds now and more.
LEMMA PassedCheck ==
  ASSUME TypeInv, ChecksInv, NEW pc \in PCs \ {"idle"}, NEW next \in PCs, NEW accepted,
         Check(pc, accepted, next), accepted
  PROVE  /\ launch.pc = pc
         /\ launch' = [launch EXCEPT !.pc = next]
         /\ launch'.pc = next
         /\ launch'.challenge = launch.challenge
         /\ launch'.seen = launch.seen
         /\ launch'.sound = launch.sound
         /\ Facts \subseteq launch.seen
         /\ UNCHANGED <<env, Facts>>
<1>1. launch.pc = pc /\ launch' = [launch EXCEPT !.pc = next]
  BY DEF Check, Goto, At
<1>2. UNCHANGED <<env, outsideVars, dbVars, workerVars>>
  BY DEF Check
<1>3. UNCHANGED Facts
  BY <1>2 DEF Facts, outsideVars, dbVars, workerVars, Promises,
     REQUIRED_DAEMON_CAPABILITIES
<1>. QED
  BY <1>1, <1>2, <1>3 DEF ChecksInv, Watched, TypeInv, TypeOK, Launches, At

LEMMA RefusedCheck ==
  ASSUME NEW pc, NEW next, NEW accepted, Check(pc, accepted, next), ~accepted
  PROVE  ChecksInv'
  BY IdleChecks DEF Check, Idle

\* The facts are about the world and the settings, and no step but a launch's
\* own moves it on.
LEMMA QuietChecks ==
  ASSUME ChecksInv, UNCHANGED <<env, outsideVars, settings, launch>>
  PROVE  ChecksInv'
<1>1. UNCHANGED Facts
  BY DEF Facts, outsideVars, Promises, REQUIRED_DAEMON_CAPABILITIES
<1>. QED
  BY <1>1 DEF ChecksInv, Watched, ControlsSeen, NetworkSeen, ImageChecked, ExtrasSeen,
     ProductionImageIsChecked, At, AfterDaemon, AfterNetwork, AfterSeparation,
     AfterImage, AfterVolumes, AfterCapabilities

LEMMA ChecksNext == TypeInv /\ ChecksInv /\ [Next]_vars => ChecksInv'
<1>. SUFFICES ASSUME TypeInv, ChecksInv, [Next]_vars PROVE ChecksInv'
  OBVIOUS
<1>. USE DEF AfterDaemon, AfterNetwork, AfterSeparation, AfterImage, AfterVolumes,
             AfterCapabilities
<1>1. CASE Boot
  BY <1>1, IdleChecks DEF Boot, TypeInv, Booted, At
<1>2. CASE BootRefused \/ Connect \/ UNCHANGED vars
  BY <1>2, QuietChecks DEF BootRefused, Connect, vars, workerVars
<1>3. CASE Begin
  <2>1. launch'.pc = "daemon" /\ launch'.seen = Facts
    BY <1>3 DEF Begin
  <2>2. UNCHANGED Facts
    BY <1>3 DEF Begin, Facts, outsideVars, workerVars, Promises,
       REQUIRED_DAEMON_CAPABILITIES
  <2>. QED
    BY <2>1, <2>2 DEF ChecksInv, Watched, ControlsSeen, NetworkSeen, ImageChecked,
       ExtrasSeen, ProductionImageIsChecked, At
<1>4. CASE CheckDaemon
  <2> DEFINE accepted == connected /\ DaemonAccepted(env, controls)
  <2>1. CASE accepted
    <3>1. {"cpu", "pids"} \subseteq controls
            /\ (~env.override => REQUIRED_DAEMON_CAPABILITIES \subseteq controls)
      BY <2>1 DEF DaemonAccepted, REQUIRED_DAEMON_CAPABILITIES,
         LOCAL_RELAXABLE_DAEMON_CAPABILITIES
    <3>2. "cpu and pid controls" \in Facts /\ (~env.override => "controls" \in Facts)
      BY <3>1 DEF Facts, Promises
    <3>. QED
      BY <1>4, <2>1, <3>2, PassedCheck DEF CheckDaemon, ChecksInv, Watched, ControlsSeen,
         NetworkSeen, ImageChecked, ExtrasSeen, ProductionImageIsChecked, At, PCs
  <2>2. CASE ~accepted
    BY <1>4, <2>2, RefusedCheck DEF CheckDaemon
  <2>. QED
    BY <2>1, <2>2
<1>5. CASE CheckNetwork
  <2> DEFINE accepted == connected /\ NetworkAccepted(env, network)
  <2>1. CASE accepted
    <3>1. env.target \in TARGET_IDS /\
            (env.target # "local" => env.egress = "worker-firewall-default-deny")
      BY <1>5 DEF CheckNetwork, Check, TypeInv, Booted, Bootable, IdentityAccepted, At,
         TARGET_IDS, EGRESS_ENFORCED_TARGET_IDS
    <3>2. {"isolated", "owned"} \subseteq Facts
            /\ (env.target # "local" => "egress" \in Facts)
      BY <2>1, <3>1 DEF NetworkAccepted, Facts, Promises
    <3>. QED
      BY <1>5, <2>1, <3>2, PassedCheck DEF CheckNetwork, ChecksInv, Watched, ControlsSeen,
         NetworkSeen, ImageChecked, ExtrasSeen, ProductionImageIsChecked, At, PCs
  <2>2. CASE ~accepted
    BY <1>5, <2>2, RefusedCheck DEF CheckNetwork
  <2>. QED
    BY <2>1, <2>2
<1>6. CASE CheckSeparation
  <2> DEFINE accepted == connected /\ SeparationAccepted(env, attached)
  <2>1. CASE accepted
    <3>1. env.named => "separate" \in Facts
      BY <2>1 DEF SeparationAccepted, Facts, Promises
    <3>. QED
      BY <1>6, <2>1, <3>1, PassedCheck DEF CheckSeparation, ChecksInv, Watched,
         ControlsSeen, NetworkSeen, ImageChecked, ExtrasSeen, ProductionImageIsChecked,
         At, PCs
  <2>2. CASE ~accepted
    BY <1>6, <2>2, RefusedCheck DEF CheckSeparation
  <2>. QED
    BY <2>1, <2>2
<1>7. CASE CheckImage
  <2> DEFINE image == launch.challenge.image
             accepted == ReferenceAccepted(env, image) /\ connected /\ SoundNow(image)
  <2>1. CASE accepted
    <3>1. env.target = "production" => image.pinned /\ image.sound /\ image.inPrefix
      BY <2>1 DEF ReferenceAccepted, SoundNow
    <3>. QED
      BY <1>7, <2>1, <3>1, PassedCheck DEF CheckImage, ChecksInv, Watched, ControlsSeen,
         NetworkSeen, ImageChecked, ExtrasSeen, ProductionImageIsChecked, At, PCs
  <2>2. CASE ~accepted
    BY <1>7, <2>2, RefusedCheck DEF CheckImage
  <2>. QED
    BY <2>1, <2>2
<1>8. CASE CheckVolumes
  <2> DEFINE accepted == VolumesAccepted(settings, launch.challenge.volumes)
  <2>1. CASE accepted
    <3>1. \/ launch.challenge.volumes = "none"
          \/ launch.challenge.volumes = "read-only" /\ "volumes" \in Facts
      BY <2>1 DEF VolumesAccepted, Facts, Promises
    <3>. QED
      BY <1>8, <2>1, <3>1, PassedCheck DEF CheckVolumes, ChecksInv, Watched, ControlsSeen,
         NetworkSeen, ImageChecked, ExtrasSeen, ProductionImageIsChecked, At, PCs
  <2>2. CASE ~accepted
    BY <1>8, <2>2, RefusedCheck DEF CheckVolumes
  <2>. QED
    BY <2>1, <2>2
<1>9. CASE CheckCapabilities
  <2> DEFINE accepted == CapabilitiesAccepted(settings, launch.challenge.capabilities)
  <2>1. CASE accepted
    <3>1. launch.challenge.capabilities \subseteq Facts
      BY <2>1 DEF CapabilitiesAccepted, Facts, TypeInv, TypeOK, Launches, Challenges
    <3>. QED
      BY <1>9, <2>1, <3>1, PassedCheck DEF CheckCapabilities, ChecksInv, Watched,
         ControlsSeen, NetworkSeen, ImageChecked, ExtrasSeen, ProductionImageIsChecked,
         At, PCs
  <2>2. CASE ~accepted
    BY <1>9, <2>2, RefusedCheck DEF CheckCapabilities
  <2>. QED
    BY <2>1, <2>2
<1>10. CASE Run
  <2>1. CASE connected /\ network.exists
    <3>1. launch' = [launch EXCEPT !.pc = "started",
                                   !.sound = SoundNow(launch.challenge.image)]
      BY <1>10, <2>1 DEF Run
    <3>2. /\ launch.pc = "run"
          /\ launch'.pc = "started"
          /\ launch'.sound = SoundNow(launch.challenge.image)
          /\ launch'.challenge = launch.challenge
          /\ launch'.seen = launch.seen
      BY <1>10, <3>1 DEF Run, At, TypeInv, TypeOK, Launches
    <3>3. UNCHANGED <<env, Facts>>
      BY <1>10 DEF Run, Facts, outsideVars, workerVars, Promises,
         REQUIRED_DAEMON_CAPABILITIES
    <3>. QED
      BY <3>2, <3>3 DEF ChecksInv, Watched, ControlsSeen, NetworkSeen, ImageChecked,
         ExtrasSeen, ProductionImageIsChecked, At, SoundNow
  <2>2. CASE ~(connected /\ network.exists)
    BY <1>10, <2>2, IdleChecks DEF Run, Idle
  <2>. QED
    BY <2>1, <2>2
<1>11. CASE Return
  BY <1>11, IdleChecks DEF Return, Idle
<1>12. CASE ChangeControls \/ ChangeNetwork \/ Attach \/ MoveTag \/ LoseConnection
              \/ ReloadSettings
  BY <1>12, WatchChecks DEF ChangeControls, ChangeNetwork, Attach, MoveTag,
     LoseConnection, ReloadSettings, Change
<1>13. ASSUME NEW form \in Settings, SaveSettings(form)
       PROVE  ChecksInv'
  BY <1>13, WatchChecks DEF SaveSettings, Change
<1>14. ASSUME NEW c \in Saved, SaveChallenge(c)
       PROVE  ChecksInv'
  BY <1>14, WatchChecks DEF SaveChallenge, Change
<1>. QED
  BY <1>1, <1>2, <1>3, <1>4, <1>5, <1>6, <1>7, <1>8, <1>9, <1>10, <1>11, <1>12, <1>13,
     <1>14 DEF Next

LEMMA BoundaryInvariant == Spec => []BoundaryInv
<1>1. Init => BoundaryInv
  BY TypeInit, ChecksInit DEF BoundaryInv
<1>2. BoundaryInv /\ [Next]_vars => BoundaryInv'
  BY TypeNext, ChecksNext DEF BoundaryInv
<1>. QED
  BY <1>1, <1>2, PTL DEF Spec

\* What starts had, at some moment of its own launch, everything its target
\* promises, whatever was replaced before, between and after the checks.
THEOREM PromisesAreKept == Spec => []PromisedControls
<1>1. BoundaryInv => PromisedControls
  BY DEF BoundaryInv, ChecksInv, ControlsSeen, NetworkSeen, PromisedControls, Promised, At,
     AfterDaemon, AfterNetwork, AfterSeparation, AfterImage, AfterVolumes,
     AfterCapabilities
<1>. QED
  BY <1>1, BoundaryInvariant, PTL

\* On production the content that starts is the content that was checked,
\* however tags move.
THEOREM ProductionImages == Spec => []ProductionImageIsChecked
<1>1. BoundaryInv => ProductionImageIsChecked
  BY DEF BoundaryInv, ChecksInv
<1>. QED
  BY <1>1, BoundaryInvariant, PTL

\* No volume and no capability reaches a container unless the settings of its
\* worker allowed it during the launch.
THEOREM ExtrasWereAllowed == Spec => []ExtrasAllowed
<1>1. BoundaryInv => ExtrasAllowed
  BY DEF BoundaryInv, ChecksInv, ExtrasSeen, ExtrasAllowed, At, AfterVolumes,
     AfterCapabilities
<1>. QED
  BY <1>1, BoundaryInvariant, PTL
=============================================================================
