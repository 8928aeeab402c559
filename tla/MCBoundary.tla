---------------------------- MODULE MCBoundary ----------------------------
(* Small instances of Boundary for TLC. *)
EXTENDS Boundary, TLC

Tagged == [pinned |-> FALSE, inPrefix |-> TRUE, sound |-> TRUE]
Unsound == [pinned |-> TRUE, inPrefix |-> TRUE, sound |-> FALSE]
Foreign == [pinned |-> TRUE, inPrefix |-> FALSE, sound |-> TRUE]

\* A plain challenge and its departures, one at a time.
OneDeparture ==
  {PlainChallenge}
    \cup {[PlainChallenge EXCEPT !.image = i] : i \in {Tagged, Unsound, Foreign}}
    \cup {[PlainChallenge EXCEPT !.volumes = v] : v \in Volumes}
    \cup {[PlainChallenge EXCEPT !.capabilities = Capabilities]}

EventNetworks ==
  {[exists |-> TRUE, direct |-> TRUE, icc |-> FALSE, owned |-> TRUE,
    egress |-> e] : e \in EGRESS_POLICIES}

\* None, the event's networks and the departures from them, one at a time.
OneFault ==
  {NoNetwork} \cup EventNetworks
    \cup UNION {{[n EXCEPT !.direct = FALSE], [n EXCEPT !.icc = TRUE],
                 [n EXCEPT !.owned = FALSE]} : n \in EventNetworks}
=============================================================================
