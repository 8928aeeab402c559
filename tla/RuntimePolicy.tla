--------------------------- MODULE RuntimePolicy ---------------------------
(***************************************************************************)
(* The validators of runtime_policy and the manager's use of them, over    *)
(* the facts they test: an identifier is well formed or not, a reference   *)
(* has a digest or not.  Each operator is true when the code does not      *)
(* raise.                                                                  *)
(***************************************************************************)

TARGET_IDS == {"local", "staging", "production"}
EGRESS_POLICIES == {"not-enforced", "worker-firewall-default-deny"}
EGRESS_ENFORCED_TARGET_IDS == {"staging", "production"}

\* CpuCfsPeriod and CpuCfsQuota are one.
REQUIRED_DAEMON_CAPABILITIES == {"memory", "swap", "cpu", "pids"}
LOCAL_RELAXABLE_DAEMON_CAPABILITIES == {"memory", "swap"}

\* "direct" is a socket or a tcp address; "ssh" has a user, a host and nothing
\* else but a port; "malformed" is neither, or empty.
Endpoints == {"direct", "ssh", "malformed"}

\* wellFormed: every variable is there, the identifiers, the network's name
\* and prefix, the image prefix and the bind address have their form.
\* placeholder: the release id, which only production looks at.
\* endpoint: CTF_DOCKER_BASE_URL.  named: the process knows the container it
\* runs in.
Environments ==
  [target : TARGET_IDS \cup {"other"}, egress : EGRESS_POLICIES \cup {"other"},
   placeholder : BOOLEAN, wellFormed : BOOLEAN, override : BOOLEAN,
   endpoint : Endpoints \cup {"unset"}, named : BOOLEAN]

NoNetwork == [exists |-> FALSE]

\* direct: a bridge that is not internal; icc: its containers reach each other;
\* owned: it carries this event's labels and the role of challenge network.
Networks ==
  {NoNetwork} \cup
  [exists : {TRUE}, direct : BOOLEAN, icc : BOOLEAN, owned : BOOLEAN,
   egress : EGRESS_POLICIES]

\* RuntimeIdentity.from_environment.
IdentityAccepted(env) ==
  /\ env.wellFormed
  /\ env.target \in TARGET_IDS
  /\ env.target = "production" => ~env.placeholder
  /\ env.egress \in EGRESS_POLICIES
  /\ env.target \in EGRESS_ENFORCED_TARGET_IDS =>
       env.egress = "worker-firewall-default-deny"

\* allow_limited_local_daemon.
OverrideAccepted(env) == env.override => env.target = "local"

\* validate_daemon_capabilities.
DaemonAccepted(env, controls) ==
  LET missing == REQUIRED_DAEMON_CAPABILITIES \ controls IN
  \/ missing = {}
  \/ /\ env.override
     /\ env.target = "local"
     /\ missing \subseteq LOCAL_RELAXABLE_DAEMON_CAPABILITIES

\* validate_challenge_network_attributes.
NetworkAccepted(env, network) ==
  /\ network.exists
  /\ network.direct
  /\ ~network.icc
  /\ network.owned
  /\ network.egress = env.egress

\* The network is not one of the container's that runs CTFd, as far as the
\* process knows it.
SeparationAccepted(env, attached) == env.named => ~attached

\* validate_docker_endpoint: off the local target only a well-formed ssh URL.
EndpointAccepted(env, endpoint) ==
  IF env.target = "local" THEN endpoint \in {"direct", "ssh"}
                          ELSE endpoint = "ssh"

\* Slip: a tag will do.
ReferenceAcceptedByTag(env, image) == image.inPrefix

\* validate_image_reference.
ReferenceAccepted(env, image) ==
  image.inPrefix /\ (env.target = "production" => image.pinned)

\* build_hardening_profile and get_start_timeout_seconds.
ProfileAccepted(settings) == settings.limits = "positive"

\* The volumes of a challenge, as far as the launch tells them apart: other
\* modes and mounts over the managed /tmp are refused.
Volumes == {"none", "read-only", "other"}

VolumesAccepted(settings, volumes) ==
  volumes = "none" \/ (settings.volumesEnabled /\ volumes = "read-only")

CapabilitiesAccepted(settings, capabilities) ==
  capabilities \subseteq settings.allowedCapabilities
=============================================================================
