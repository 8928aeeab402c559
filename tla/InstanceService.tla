-------------------------- MODULE InstanceService --------------------------
(***************************************************************************)
(* What the plugin promises, without its steps: a set of granted           *)
(* instances, never more than the quota of an account, never two for one   *)
(* challenge of an account, and none withdrawn while its container runs.   *)
(***************************************************************************)
EXTENDS Naturals, FiniteSets

CONSTANTS Accounts, Challenges, Instances, Quota, NoSlot

VARIABLES
  granted,  \* the instances on record
  owner,    \* the account and challenge an instance was started for
  up        \* the instances whose container runs

svars == <<granted, owner, up>>

Held(a) == {i \in granted : owner[i][1] = a}

ServiceInit ==
  /\ granted \subseteq Instances
  /\ owner \in [Instances -> (Accounts \X Challenges) \cup {NoSlot}]
  /\ up = granted
  /\ \A i \in granted : owner[i] # NoSlot
  /\ \A i, j \in granted : owner[i] = owner[j] => i = j
  /\ \A a \in Accounts : Cardinality(Held(a)) <= Quota

\* A container is brought up for a slot; it is nobody's instance yet.
BringUp(i, s) ==
  /\ owner[i] = NoSlot
  /\ owner' = [owner EXCEPT ![i] = s]
  /\ up' = up \cup {i}
  /\ UNCHANGED granted

Grant(i) ==
  /\ i \notin granted
  /\ owner[i] # NoSlot
  /\ Cardinality(Held(owner[i][1])) < Quota
  /\ \A j \in granted : owner[j] # owner[i]
  /\ granted' = granted \cup {i}
  /\ UNCHANGED <<owner, up>>

GoDown(i) ==
  /\ up' = up \ {i}
  /\ UNCHANGED <<granted, owner>>

Withdraw(S) ==
  /\ S \cap up = {}
  /\ granted' = granted \ S
  /\ UNCHANGED <<owner, up>>

ServiceNext ==
  \/ \E i \in Instances :
       \/ \E s \in Accounts \X Challenges : BringUp(i, s)
       \/ Grant(i)
       \/ GoDown(i)
  \/ \E S \in SUBSET Instances : Withdraw(S)

ServiceSpec == ServiceInit /\ [][ServiceNext]_svars
=============================================================================
