------------------------------ MODULE ViewPanel ------------------------------
(***************************************************************************)
(* The instance panel of one challenge in a player's browser (view.js): it *)
(* shows the Fetch button, or Extend and Terminate, by toggling them with  *)
(* each answer.  The server's side is whether an instance is recorded, as  *)
(* Instances makes it so.  The text of the alert is left out.              *)
(***************************************************************************)
EXTENDS Naturals, FiniteSets

CONSTANTS
  Fetches,   \* names for the calls in flight
  MaxOpens   \* bound on how often the panel is rendered

ASSUME PanelAssumption == MaxOpens \in Nat \ {0}

VARIABLES
  instance,  \* an instance is recorded
  create,    \* create-chal is shown
  update,    \* extend-chal and terminate-chal are shown
  enabled,   \* the buttons are enabled
  calls,     \* each call in flight
  opens,     \* which rendering the page shows
  drift      \* what this rendering does not know of (history)

vars == <<instance, create, update, enabled, calls, opens, drift>>

Kinds == {"view", "request", "renew", "stop", "submit"}
Replies == {"waiting", "ok", "not_started", "gone", "error", "lost"}

NoCall == [kind |-> "none", reply |-> "none", page |-> 0]
Call == [kind : Kinds, reply : Replies, page : 1..MaxOpens]

InFlight == {n \in Fetches : calls[n] # NoCall}
ContainerCalls == {n \in InFlight : calls[n].kind # "submit"}

Send(n, kind, page) ==
  /\ calls[n] = NoCall
  /\ calls' = [calls EXCEPT ![n] =
                 [kind |-> kind, reply |-> "waiting", page |-> page]]

-----------------------------------------------------------------------------
(* The page.                                                               *)

\* Slip: the buttons stay clickable while loading.
ResetAlertOnly == UNCHANGED enabled

ResetAlert == enabled' = FALSE

\* The challenge is opened (again): view.html hides all buttons, and its
\* onerror hook calls view_container_info.  Earlier calls go on.
Open(n) ==
  /\ opens < MaxOpens
  /\ opens' = opens + 1
  /\ create' = FALSE
  /\ update' = FALSE
  /\ enabled' = FALSE
  /\ Send(n, "view", opens + 1)
  /\ drift' = IF ContainerCalls = {} THEN {} ELSE {"crossed"}
  /\ UNCHANGED instance

\* container_request, container_renew or container_stop.
Click(n, kind) ==
  /\ enabled
  /\ IF kind = "request" THEN create ELSE update
  /\ ResetAlert
  /\ Send(n, kind, opens)
  /\ UNCHANGED <<instance, create, update, opens, drift>>

\* Slip: the flag form is there before the panel is.
SubmitEarly(n) ==
  /\ \A m \in InFlight : calls[m].kind # "submit"
  /\ ResetAlert
  /\ Send(n, "submit", opens)
  /\ UNCHANGED <<instance, create, update, opens, drift>>

\* submit resets the alert too, and nothing enables the buttons afterwards.
Submit(n) ==
  /\ opens > 0
  /\ \A m \in InFlight : calls[m].kind # "submit"
  /\ ResetAlert
  /\ Send(n, "submit", opens)
  /\ UNCHANGED <<instance, create, update, opens, drift>>

\* Which answers call toggleChallengeCreate and toggleChallengeUpdate.
CreateToggles ==
  {<<"view", "not_started">>, <<"request", "ok">>, <<"request", "error">>,
   <<"stop", "ok">>, <<"stop", "error">>}

\* Slip: the buttons of the gone instance are left.
UpdateTogglesButStop ==
  {<<"view", "ok">>, <<"view", "error">>, <<"request", "ok">>}

UpdateToggles ==
  {<<"view", "ok">>, <<"view", "error">>, <<"request", "ok">>,
   <<"stop", "ok">>}

\* The answer of a call; the toggles find whatever rendering is there now.
Answer(n) ==
  LET c == calls[n]
      kr == <<c.kind, c.reply>>
  IN /\ n \in InFlight
     /\ c.reply # "waiting"
     /\ calls' = [calls EXCEPT ![n] = NoCall]
     /\ create' = IF kr \in CreateToggles THEN ~create ELSE create
     /\ update' = IF kr \in UpdateToggles THEN ~update ELSE update
     /\ enabled' = (c.kind # "submit" \/ enabled)
     /\ drift' = IF c.reply \in {"gone", "error", "lost"} /\ c.kind # "submit"
                 THEN drift \cup {"error"} ELSE drift
     /\ UNCHANGED <<instance, opens>>

-----------------------------------------------------------------------------
(* The server: one commit for each call, as seen from this account.        *)

Reply(n, reply) == calls' = [calls EXCEPT ![n].reply = reply]

ServeView(n) ==
  /\ calls[n].kind = "view"
  /\ Reply(n, IF instance THEN "ok" ELSE "not_started")
  /\ UNCHANGED <<instance, drift>>

\* A new instance, or the one that is there.
ServeRequest(n) ==
  /\ calls[n].kind = "request"
  /\ instance' = TRUE
  /\ Reply(n, "ok")
  /\ UNCHANGED drift

\* "Container is no longer running. Please start a new instance."
ServeRenew(n) ==
  /\ calls[n].kind = "renew"
  /\ Reply(n, IF instance THEN "ok" ELSE "gone")
  /\ UNCHANGED <<instance, drift>>

ServeStop(n) ==
  /\ calls[n].kind = "stop"
  /\ instance' = FALSE
  /\ Reply(n, IF instance THEN "ok" ELSE "error")
  /\ UNCHANGED drift

\* A correct flag kills the instance.
ServeSubmit(n) ==
  /\ calls[n].kind = "submit"
  /\ Reply(n, "ok")
  /\ \/ UNCHANGED <<instance, drift>>
     \/ instance' = FALSE /\ drift' = drift \cup {"world"}

\* A refusal, by the rate limit, the capacity or Docker.
Refuse(n) ==
  /\ Reply(n, "error")
  /\ UNCHANGED <<instance, drift>>

Serve(n) ==
  /\ calls[n].reply = "waiting"
  /\ \/ ServeView(n) \/ ServeRequest(n) \/ ServeRenew(n)
     \/ ServeStop(n) \/ ServeSubmit(n) \/ Refuse(n)
  /\ UNCHANGED <<create, update, enabled, opens>>

\* The connection fails, before or after the call is served.
Lose(n) ==
  /\ n \in InFlight
  /\ calls[n].reply # "lost"
  /\ Reply(n, "lost")
  /\ UNCHANGED <<instance, create, update, enabled, opens, drift>>

\* A teammate starts or stops the instance, or it expires.
Elsewhere ==
  /\ instance' = ~instance
  /\ drift' = drift \cup {"world"}
  /\ UNCHANGED <<create, update, enabled, calls, opens>>

-----------------------------------------------------------------------------
Init ==
  /\ instance \in BOOLEAN
  /\ create = FALSE
  /\ update = FALSE
  /\ enabled = FALSE
  /\ calls = [n \in Fetches |-> NoCall]
  /\ opens = 0
  /\ drift = {}

Next ==
  \/ \E n \in Fetches :
       \/ Open(n)
       \/ \E kind \in {"request", "renew", "stop"} : Click(n, kind)
       \/ Submit(n) \/ Serve(n) \/ Lose(n) \/ Answer(n)
  \/ Elsewhere

Spec == Init /\ [][Next]_vars

-----------------------------------------------------------------------------
\* The calls keep their shape, and come from a rendering that existed.
TypeOK ==
  /\ {instance, create, update, enabled} \subseteq BOOLEAN
  /\ calls \in [Fetches -> Call \cup {NoCall}]
  /\ \A n \in InFlight : calls[n].page <= opens
  /\ drift \subseteq {"crossed", "error", "world"}

\* The buttons are disabled so that one rendering never has two container
\* calls in flight, whose toggles would cancel out.  Errors and flags that
\* are submitted in between do not change that.
OneCallAtATime == "crossed" \notin drift => Cardinality(ContainerCalls) <= 1

\* The blind toggles add up: a panel that was opened with no call in flight,
\* whose calls all succeeded, and behind whose back nothing happened, offers
\* what the server will accept.
PanelMatchesInstance ==
  opens > 0 /\ drift = {} /\ ContainerCalls = {} =>
    create = ~instance /\ update = instance
==============================================================================
