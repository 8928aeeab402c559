------------------------------ MODULE Boundary ------------------------------
(***************************************************************************)
(* What create_container promises of the container it starts, while the    *)
(* daemon, the network, image tags, settings and the challenge change      *)
(* under a running worker.  One worker and one launch at a time: launches  *)
(* share nothing here but what changes.                                    *)
(***************************************************************************)
EXTENDS RuntimePolicy, Integers

CONSTANTS
  Capabilities,   \* Linux capabilities a challenge may ask for
  Saved,          \* challenges an admin may save
  Recreated,      \* networks an operator may leave
  MaxChanges      \* bound on changes while the worker runs

\* A reference by digest or by tag, within the event's prefix or not; sound:
\* the content the digest names keeps the image contract.
Images == [pinned : BOOLEAN, inPrefix : BOOLEAN, sound : BOOLEAN]

Challenges == [image : Images, volumes : Volumes,
               capabilities : SUBSET Capabilities]

\* What a launch is promised, capabilities apart.
Promises == {"controls", "cpu and pid controls", "isolated", "owned", "egress",
             "separate", "volumes"}

ASSUME BoundaryAssumption ==
  /\ Capabilities \cap Promises = {}
  /\ Saved \subseteq Challenges
  /\ Recreated \subseteq Networks
  /\ MaxChanges \in Nat

Settings == [endpoint : Endpoints, limits : {"positive", "invalid"},
             volumesEnabled : BOOLEAN,
             allowedCapabilities : SUBSET Capabilities]

VARIABLES
  env,        \* the environment of the process
  controls,   \* what the daemon can enforce
  network,    \* the network that has the challenge network's name
  attached,   \* CTFd's own container is in it
  tagSound,   \* the content that tags name keeps the image contract
  table,      \* the settings in the database
  challenge,  \* the challenge in the database
  settings,   \* the worker's copy of the settings
  up,         \* load() has returned
  connected,  \* there is a client
  reloading,  \* it has saved settings that it does not use yet
  launch,     \* the launch in progress
  changes     \* changes so far

outsideVars == <<controls, network, attached, tagSound>>
dbVars == <<table, challenge>>
workerVars == <<settings, up, connected, reloading>>
vars == <<env, outsideVars, dbVars, workerVars, launch, changes>>

PCs == {"idle", "daemon", "network", "separation", "image", "volumes",
        "capabilities", "run", "started"}

\* What holds of the world and of the worker's settings now; a capability does
\* if it is allowed.
Facts ==
  {fact \in Promises \cup Capabilities :
     \/ fact = "controls" /\ REQUIRED_DAEMON_CAPABILITIES \subseteq controls
     \/ fact = "cpu and pid controls" /\ {"cpu", "pids"} \subseteq controls
     \/ fact = "isolated" /\ network.exists /\ ~network.icc
     \/ fact = "owned" /\ network.exists /\ network.owned
     \/ /\ fact = "egress" /\ network.exists
        /\ network.egress = "worker-firewall-default-deny"
     \/ fact = "separate" /\ ~attached
     \/ fact = "volumes" /\ settings.volumesEnabled
     \/ fact \in settings.allowedCapabilities}

\* seen: the facts that held at some moment of the launch; sound: the content
\* that was started keeps the image contract.
Launches == [pc : PCs, challenge : Challenges, seen : SUBSET (Promises \cup Capabilities),
             sound : BOOLEAN]

PlainChallenge ==
  [image |-> [pinned |-> TRUE, inPrefix |-> TRUE, sound |-> TRUE],
   volumes |-> "none", capabilities |-> {}]

Idle == [pc |-> "idle", challenge |-> PlainChallenge, seen |-> {}, sound |-> FALSE]

At(pc) == launch.pc = pc
Goto(pc) == launch' = [launch EXCEPT !.pc = pc]

\* settings_to_dict: the environment overrides the table.
Effective(t) ==
  IF env.endpoint = "unset" THEN t ELSE [t EXCEPT !.endpoint = env.endpoint]

LiveAccepted ==
  /\ DaemonAccepted(env, controls)
  /\ NetworkAccepted(env, network)
  /\ SeparationAccepted(env, attached)

-----------------------------------------------------------------------------
(* The worker.                                                             *)

\* ContainerManager(): identity, override, limits and endpoint.
Bootable ==
  /\ IdentityAccepted(env)
  /\ OverrideAccepted(env)
  /\ ProfileAccepted(Effective(table))
  /\ EndpointAccepted(env, Effective(table).endpoint)

\* A connection that fails does not keep the worker from starting.
Boot ==
  /\ ~up
  /\ Bootable
  /\ up' = TRUE
  /\ settings' = Effective(table)
  /\ connected' = LiveAccepted
  /\ UNCHANGED <<env, outsideVars, dbVars, reloading, launch, changes>>

\* load() raises, and so does every later attempt.
BootRefused ==
  /\ ~up
  /\ ~Bootable
  /\ UNCHANGED vars

\* run_command connects if there is no client.
Connect ==
  /\ up
  /\ ~connected
  /\ connected' = LiveAccepted
  /\ UNCHANGED <<env, outsideVars, dbVars, settings, up, reloading, launch, changes>>

-----------------------------------------------------------------------------
(* ContainerManager.create_container.                                      *)

Begin ==
  /\ At("idle")
  /\ connected
  /\ launch' = [pc |-> "daemon", challenge |-> challenge, seen |-> Facts,
                sound |-> FALSE]
  /\ UNCHANGED <<env, outsideVars, dbVars, workerVars, changes>>

\* A check passes, or the launch is refused.
Check(pc, accepted, next) ==
  /\ At(pc)
  /\ IF accepted THEN Goto(next) ELSE launch' = Idle
  /\ UNCHANGED <<env, outsideVars, dbVars, workerVars, changes>>

\* Slip: the daemon was checked when the client connected.
CheckDaemonOnce == Check("daemon", connected, "network")

CheckDaemon ==
  Check("daemon", connected /\ DaemonAccepted(env, controls), "network")

CheckNetwork ==
  Check("network", connected /\ NetworkAccepted(env, network), "separation")

CheckSeparation ==
  Check("separation", connected /\ SeparationAccepted(env, attached), "image")

\* The content a reference names now.
SoundNow(image) == IF image.pinned THEN image.sound ELSE tagSound

\* _validate_image_contract: non-root USER, HEALTHCHECK, EXPOSE.
CheckImage ==
  LET image == launch.challenge.image IN
  Check("image", ReferenceAccepted(env, image) /\ connected /\ SoundNow(image),
        "volumes")

CheckVolumes ==
  Check("volumes", VolumesAccepted(settings, launch.challenge.volumes),
        "capabilities")

\* Slip: capabilities were checked when the challenge was saved.
CheckCapabilitiesOnce == Check("capabilities", TRUE, "run")

CheckCapabilities ==
  Check("capabilities",
        CapabilitiesAccepted(settings, launch.challenge.capabilities), "run")

\* containers.run: the names are resolved again.
Run ==
  /\ At("run")
  /\ launch' = IF connected /\ network.exists
               THEN [launch EXCEPT !.pc = "started",
                                   !.sound = SoundNow(launch.challenge.image)]
               ELSE Idle
  /\ UNCHANGED <<env, outsideVars, dbVars, workerVars, changes>>

Return ==
  /\ At("started")
  /\ launch' = Idle
  /\ UNCHANGED <<env, outsideVars, dbVars, workerVars, changes>>

-----------------------------------------------------------------------------
(* Meanwhile.                                                              *)

\* A launch in progress sees what a change brings about.
Watch == launch' = IF At("idle") THEN launch
                   ELSE [launch EXCEPT !.seen = @ \cup Facts']

Change ==
  /\ up
  /\ changes < MaxChanges
  /\ changes' = changes + 1
  /\ Watch

ChangeControls ==
  /\ controls' \in {REQUIRED_DAEMON_CAPABILITIES,
                    REQUIRED_DAEMON_CAPABILITIES \ {"memory", "swap"},
                    REQUIRED_DAEMON_CAPABILITIES \ {"pids"}}
  /\ UNCHANGED <<env, network, attached, tagSound, dbVars, workerVars>>
  /\ Change

\* It is removed, created or created again.
ChangeNetwork ==
  /\ network' \in Recreated
  /\ UNCHANGED <<env, controls, attached, tagSound, dbVars, workerVars>>
  /\ Change

Attach ==
  /\ attached' = ~attached
  /\ UNCHANGED <<env, controls, network, tagSound, dbVars, workerVars>>
  /\ Change

MoveTag ==
  /\ tagSound' = ~tagSound
  /\ UNCHANGED <<env, controls, network, attached, dbVars, workerVars>>
  /\ Change

LoseConnection ==
  /\ connected
  /\ connected' = FALSE
  /\ UNCHANGED <<env, outsideVars, dbVars, settings, up, reloading>>
  /\ Change

\* Slip: the form is saved without validate_settings.
FormAcceptedAlways(form) == TRUE

\* normalize_settings_payload and validate_settings.
FormAccepted(form) ==
  /\ ProfileAccepted(form)
  /\ EndpointAccepted(env, form.endpoint)
  /\ LiveAccepted

\* route_update_settings up to its commit, here or in another worker.
SaveSettings(form) ==
  /\ FormAccepted(form)
  /\ table' = form
  /\ reloading' \in {reloading, TRUE}
  /\ UNCHANGED <<env, outsideVars, challenge, settings, up, connected>>
  /\ Change

\* Its second half.
ReloadSettings ==
  /\ reloading
  /\ reloading' = FALSE
  /\ settings' = Effective(table)
  /\ connected' = LiveAccepted
  /\ UNCHANGED <<env, outsideVars, dbVars, up, changes>>
  /\ Watch

\* _normalize_challenge_payload: only what is in the payload is checked, and
\* against the table; how volumes are mounted is left to the launch.
PayloadAccepted(c) ==
  /\ c.volumes \in {"none", challenge.volumes} \/ table.volumesEnabled
  /\ c.capabilities \in {{}, challenge.capabilities}
       \/ c.capabilities \subseteq table.allowedCapabilities

SaveChallenge(c) ==
  /\ PayloadAccepted(c)
  /\ challenge' = c
  /\ UNCHANGED <<env, outsideVars, table, workerVars>>
  /\ Change

-----------------------------------------------------------------------------
\* The world at the start is one the worker accepts, under every environment;
\* the database is new or holds what the past left.
Init ==
  /\ env \in {e \in Environments : e.placeholder => e.target = "production"}
  /\ controls = REQUIRED_DAEMON_CAPABILITIES
  /\ network = [exists |-> TRUE, direct |-> TRUE, icc |-> FALSE,
                owned |-> TRUE,
                egress |-> IF env.egress = "other" THEN "not-enforced"
                                                   ELSE env.egress]
  /\ attached = FALSE
  /\ tagSound = TRUE
  /\ table \in {t \in Settings : t.allowedCapabilities =
                  IF t.volumesEnabled THEN Capabilities ELSE {}}
  /\ challenge = PlainChallenge
  /\ settings = table
  /\ up = FALSE
  /\ connected = FALSE
  /\ reloading = FALSE
  /\ launch = Idle
  /\ changes = 0

Next ==
  \/ Boot \/ BootRefused \/ Connect
  \/ Begin \/ CheckDaemon \/ CheckNetwork \/ CheckSeparation \/ CheckImage
  \/ CheckVolumes \/ CheckCapabilities \/ Run \/ Return
  \/ ChangeControls \/ ChangeNetwork \/ Attach \/ MoveTag \/ LoseConnection
  \/ (\E form \in Settings : SaveSettings(form)) \/ ReloadSettings
  \/ (\E c \in Saved : SaveChallenge(c))

Spec == Init /\ [][Next]_vars

-----------------------------------------------------------------------------
\* Every variable keeps its shape, and a worker that has started enforces
\* positive limits and, off the local target, talks to its daemon over ssh.
TypeOK ==
  /\ env \in Environments
  /\ controls \subseteq REQUIRED_DAEMON_CAPABILITIES
  /\ network \in Networks
  /\ {attached, tagSound, up, connected, reloading} \subseteq BOOLEAN
  /\ {table, settings} \subseteq Settings
  /\ challenge \in Challenges
  /\ launch \in Launches
  /\ changes \in 0..MaxChanges
  /\ up => /\ settings.limits = "positive"
           /\ env.target # "local" => settings.endpoint = "ssh"

Promised ==
  {"cpu and pid controls", "isolated", "owned"}
    \cup (IF env.override THEN {} ELSE {"controls"})
    \cup (IF env.target = "local" THEN {} ELSE {"egress"})
    \cup (IF env.named THEN {"separate"} ELSE {})

\* A container starts only if everything the target promises held at some
\* moment of its own launch, not just when the worker connected: all controls
\* unless the local override is set, a network of the event that is isolated,
\* off the local target denies egress, and does not hold CTFd itself.
PromisedControls == At("started") => Promised \subseteq launch.seen

\* What runs on production keeps the image contract that was checked, although
\* tags move between the check and the start.
ProductionImageIsChecked ==
  At("started") /\ env.target = "production" =>
    launch.sound /\ launch.challenge.image.inPrefix

\* Volumes and capabilities reach a container only if this worker's settings
\* allowed them at some moment of its launch, under whatever settings the
\* challenge was saved; volumes are mounted read-only, never over /tmp.
ExtrasAllowed ==
  At("started") =>
    /\ launch.challenge.volumes \in {"none", "read-only"}
    /\ launch.challenge.volumes # "none" => "volumes" \in launch.seen
    /\ launch.challenge.capabilities \subseteq launch.seen
=============================================================================
