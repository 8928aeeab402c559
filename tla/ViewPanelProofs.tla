--------------------------- MODULE ViewPanelProofs ---------------------------
(***************************************************************************)
(* The instance panel, proved for any number of calls in flight and of     *)
(* renderings.                                                             *)
(***************************************************************************)
EXTENDS ViewPanel, FiniteSetTheorems, TLAPS

\* At most one container call, and none while the buttons can be clicked;
\* unless the panel was opened over a call that was under way.
Alone ==
  "crossed" \notin drift =>
    /\ \A m, n \in ContainerCalls : m = n
    /\ enabled => ContainerCalls = {}

\* What the panel shows while n waits for its answer, and what the server has
\* made of it: the toggles of the answer will turn this into what it accepts.
Prepared(n) ==
  /\ calls[n].kind = "view" =>
       /\ ~create /\ ~update
       /\ calls[n].reply = "ok" => instance
       /\ calls[n].reply = "not_started" => ~instance
  /\ calls[n].kind = "request" =>
       /\ create /\ ~update
       /\ instance = (calls[n].reply = "ok")
  /\ calls[n].kind = "renew" => ~create /\ update /\ instance
  /\ calls[n].kind = "stop" =>
       /\ ~create /\ update
       /\ instance = (calls[n].reply # "ok")

\* An answer that is neither an error nor lost.
Sound(n) == calls[n].reply \in {"waiting", "ok", "not_started"}

PreparedInv ==
  drift = {} => \A n \in ContainerCalls : Sound(n) => Prepared(n)

\* Buttons and calls belong to a rendering; only view says "not started".
ShapeInv ==
  /\ opens \in 0..MaxOpens
  /\ enabled => opens > 0
  /\ \A n \in InFlight : calls[n].reply = "not_started" => calls[n].kind = "view"

IInv ==
  TypeOK /\ ShapeInv /\ Alone /\ PreparedInv /\ PanelMatchesInstance

-----------------------------------------------------------------------------
(* The calls.                                                              *)

LEMMA CallFacts ==
  ASSUME TypeOK, NEW n \in Fetches
  PROVE  /\ calls[n] \in Call \cup {NoCall}
         /\ n \in InFlight => calls[n] \in Call
         /\ n \in InFlight <=> calls[n] # NoCall
         /\ n \in ContainerCalls <=> n \in InFlight /\ calls[n].kind # "submit"
         /\ calls[n].kind \in Kinds => n \in InFlight
         /\ calls[n].reply = "waiting" => n \in InFlight
BY DEF TypeOK, Call, NoCall, Kinds, Replies, InFlight, ContainerCalls

LEMMA SendStep ==
  ASSUME TypeOK, NEW n \in Fetches, NEW kind \in Kinds, NEW page \in 1..MaxOpens,
         Send(n, kind, page)
  PROVE  /\ calls' \in [Fetches -> Call \cup {NoCall}]
         /\ calls'[n] = [kind |-> kind, reply |-> "waiting", page |-> page]
         /\ \A m \in Fetches : m # n => calls'[m] = calls[m]
         /\ n \notin InFlight /\ InFlight' = InFlight \cup {n}
         /\ ContainerCalls' = IF kind = "submit" THEN ContainerCalls
                              ELSE ContainerCalls \cup {n}
<1> DEFINE new == [kind |-> kind, reply |-> "waiting", page |-> page]
<1>1. new \in Call /\ new # NoCall /\ new.kind = kind
  BY DEF Call, NoCall, Replies, Kinds
<1> HIDE DEF new
<1>2. calls' = [calls EXCEPT ![n] = new] /\ calls[n] = NoCall
  BY DEF Send, new
<1>3. /\ calls' \in [Fetches -> Call \cup {NoCall}] /\ calls'[n] = new
      /\ \A m \in Fetches : m # n => calls'[m] = calls[m]
  BY <1>1, <1>2 DEF TypeOK
<1>4. n \notin InFlight /\ InFlight' = InFlight \cup {n}
  BY <1>1, <1>2, <1>3 DEF InFlight
<1>5. ContainerCalls' = IF kind = "submit" THEN ContainerCalls
                        ELSE ContainerCalls \cup {n}
  BY <1>1, <1>3, <1>4 DEF ContainerCalls, InFlight
<1> QED
  BY <1>3, <1>4, <1>5 DEF new

LEMMA ReplyStep ==
  ASSUME TypeOK, NEW n \in InFlight, NEW reply \in Replies, Reply(n, reply)
  PROVE  /\ calls' \in [Fetches -> Call \cup {NoCall}]
         /\ calls'[n] = [calls[n] EXCEPT !.reply = reply]
         /\ calls'[n].kind = calls[n].kind /\ calls'[n].page = calls[n].page
         /\ calls'[n].reply = reply
         /\ \A m \in Fetches : m # n => calls'[m] = calls[m]
         /\ InFlight' = InFlight /\ ContainerCalls' = ContainerCalls
<1>1. n \in Fetches /\ calls[n] \in Call
  BY CallFacts DEF InFlight
<1> DEFINE new == [calls[n] EXCEPT !.reply = reply]
<1>2. /\ new \in Call /\ new # NoCall /\ new.reply = reply
      /\ new.kind = calls[n].kind /\ new.page = calls[n].page
  BY <1>1 DEF Call, NoCall, Kinds
<1>3. calls' = [calls EXCEPT ![n] = new]
  BY DEF Reply
<1> HIDE DEF new
<1>4. /\ calls' \in [Fetches -> Call \cup {NoCall}] /\ calls'[n] = new
      /\ \A m \in Fetches : m # n => calls'[m] = calls[m]
  BY <1>1, <1>2, <1>3 DEF TypeOK
<1>5. InFlight' = InFlight
  BY <1>1, <1>2, <1>4 DEF InFlight
<1>6. ContainerCalls' = ContainerCalls
  BY <1>1, <1>2, <1>4, <1>5 DEF ContainerCalls, InFlight
<1> QED
  BY <1>2, <1>4, <1>5, <1>6 DEF new

\* A step that leaves every call's kind, every rendering and the buttons alone
\* cannot disturb ShapeInv or Alone.
LEMMA ServerStep ==
  ASSUME IInv, NEW n \in InFlight, NEW reply \in Replies, Reply(n, reply),
         reply = "not_started" => calls[n].kind = "view", UNCHANGED <<create, update, enabled, opens>>,
         drift \subseteq drift', drift' \subseteq {"crossed", "error", "world"},
         instance' \in BOOLEAN
  PROVE  TypeOK' /\ ShapeInv' /\ Alone'
<1>1. TypeOK
  BY DEF IInv
<1> USE <1>1, ReplyStep
<1>2. TypeOK'
  BY DEF TypeOK, InFlight
<1>3. ShapeInv'
  <2> SUFFICES ASSUME NEW m \in InFlight, calls'[m].reply = "not_started"
               PROVE  calls'[m].kind = "view"
    BY DEF IInv, ShapeInv
  <2>1. m \in Fetches
    BY DEF InFlight
  <2>2. /\ calls'[n].kind = calls[n].kind /\ calls'[n].reply = reply
        /\ m # n => calls'[m] = calls[m]
    BY <2>1
  <2>3. CASE m = n
    BY <2>2, <2>3
  <2>4. CASE m # n
    BY <2>2, <2>4 DEF IInv, ShapeInv
  <2> QED
    BY <2>3, <2>4
<1>4. Alone'
  BY DEF IInv, Alone
<1> QED
  BY <1>2, <1>3, <1>4

-----------------------------------------------------------------------------
(* The steps.                                                              *)

LEMMA Initial == Init => IInv
<1> SUFFICES ASSUME Init PROVE IInv
  OBVIOUS
<1>1. InFlight = {} /\ ContainerCalls = {}
  BY DEF Init, InFlight, ContainerCalls
<1>2. TypeOK
  BY <1>1 DEF Init, TypeOK
<1>3. ShapeInv
  BY <1>1, PanelAssumption DEF Init, ShapeInv
<1>4. Alone /\ PreparedInv /\ PanelMatchesInstance
  BY <1>1 DEF Init, Alone, PreparedInv, PanelMatchesInstance
<1> QED
  BY <1>2, <1>3, <1>4 DEF IInv

LEMMA OpenStep ==
  ASSUME IInv, NEW n \in Fetches, Open(n)
  PROVE  IInv'
<1>1. TypeOK /\ ShapeInv
  BY DEF IInv
<1>2. PICK page \in 1..MaxOpens : page = opens + 1
  BY <1>1, PanelAssumption DEF Open, ShapeInv
<1>3. Send(n, "view", page)
  BY <1>2 DEF Open
<1>4. /\ calls' \in [Fetches -> Call \cup {NoCall}]
      /\ calls'[n] = [kind |-> "view", reply |-> "waiting", page |-> page]
      /\ \A m \in Fetches : m # n => calls'[m] = calls[m]
      /\ n \notin InFlight /\ InFlight' = InFlight \cup {n}
      /\ ContainerCalls' = ContainerCalls \cup {n}
  BY <1>1, <1>3, SendStep DEF Kinds
<1>5. /\ opens' = opens + 1 /\ opens' \in 0..MaxOpens
      /\ ~create' /\ ~update' /\ ~enabled' /\ instance' = instance
      /\ drift' = IF ContainerCalls = {} THEN {} ELSE {"crossed"}
  BY <1>1, PanelAssumption DEF Open, ShapeInv
<1>6. \A m \in InFlight : m \in Fetches /\ m # n /\ calls'[m] = calls[m]
  BY <1>4 DEF InFlight
<1>7. TypeOK'
  <2>1. \A m \in InFlight' : calls'[m].page <= opens'
    <3> TAKE m \in InFlight'
    <3>1. CASE m = n
      BY <1>2, <1>4, <1>5, <3>1
    <3>2. CASE m # n
      <4>1. m \in InFlight /\ calls[m] \in Call
        BY <1>1, <1>4, <1>6, <3>2, CallFacts
      <4> QED
        BY <1>1, <1>5, <1>6, <4>1 DEF TypeOK, Call, ShapeInv
    <3> QED
      BY <3>1, <3>2
  <2>2. {instance', create', update', enabled'} \subseteq BOOLEAN
    BY <1>1 DEF TypeOK, Open
  <2> QED
    BY <1>4, <1>5, <2>1, <2>2 DEF TypeOK
<1>8. ShapeInv'
  BY <1>1, <1>4, <1>5, <1>6 DEF ShapeInv
<1>9. Alone'
  BY <1>4, <1>5 DEF Alone
<1>10. PreparedInv'
  BY <1>4, <1>5 DEF PreparedInv, Prepared
<1>11. PanelMatchesInstance'
  BY <1>4 DEF PanelMatchesInstance
<1> QED
  BY <1>7, <1>8, <1>9, <1>10, <1>11 DEF IInv

\* A call that one rendering's buttons or form send, which it disables.
LEMMA SentStep ==
  ASSUME IInv, NEW n \in Fetches, NEW kind \in Kinds, Send(n, kind, opens),
         opens > 0, enabled' = FALSE, UNCHANGED <<instance, create, update, opens, drift>>,
         kind # "submit" => enabled
  PROVE  /\ TypeOK' /\ ShapeInv' /\ Alone'
         /\ calls'[n] = [kind |-> kind, reply |-> "waiting", page |-> opens]
         /\ \A m \in InFlight : m # n /\ calls'[m] = calls[m]
         /\ ContainerCalls' = IF kind = "submit" THEN ContainerCalls
                              ELSE ContainerCalls \cup {n}
<1>1. TypeOK /\ ShapeInv
  BY DEF IInv
<1>2. PICK page \in 1..MaxOpens : page = opens
  BY <1>1, PanelAssumption DEF ShapeInv
<1>3. /\ calls' \in [Fetches -> Call \cup {NoCall}]
      /\ calls'[n] = [kind |-> kind, reply |-> "waiting", page |-> page]
      /\ \A m \in Fetches : m # n => calls'[m] = calls[m]
      /\ n \notin InFlight /\ InFlight' = InFlight \cup {n}
      /\ ContainerCalls' = IF kind = "submit" THEN ContainerCalls
                           ELSE ContainerCalls \cup {n}
  BY <1>1, <1>2, SendStep
<1>4. \A m \in InFlight : m \in Fetches /\ m # n /\ calls'[m] = calls[m]
  BY <1>3 DEF InFlight
<1>5. TypeOK'
  <2>1. \A m \in InFlight' : calls'[m].page <= opens'
    BY <1>1, <1>2, <1>3, <1>4 DEF TypeOK
  <2> QED
    BY <1>1, <1>3, <2>1 DEF TypeOK
<1>6. ShapeInv'
  BY <1>1, <1>3, <1>4 DEF ShapeInv
<1>7. Alone'
  BY <1>3 DEF IInv, Alone
<1> QED
  BY <1>2, <1>3, <1>4, <1>5, <1>6, <1>7

LEMMA ClickStep ==
  ASSUME IInv, NEW n \in Fetches, NEW kind \in {"request", "renew", "stop"},
         Click(n, kind)
  PROVE  IInv'
<1>1. TypeOK /\ ShapeInv
  BY DEF IInv
<1>2. /\ Send(n, kind, opens) /\ enabled /\ enabled' = FALSE /\ opens > 0
      /\ UNCHANGED <<instance, create, update, opens, drift>>
      /\ IF kind = "request" THEN create ELSE update
  BY <1>1 DEF Click, ResetAlert, ShapeInv
<1>3. /\ TypeOK' /\ ShapeInv' /\ Alone'
      /\ calls'[n] = [kind |-> kind, reply |-> "waiting", page |-> opens]
      /\ ContainerCalls' = ContainerCalls \cup {n}
  BY <1>2, SentStep DEF Kinds
<1>4. PreparedInv'
  <2> SUFFICES ASSUME drift = {}, NEW m \in ContainerCalls \cup {n} PROVE Prepared(m)'
    BY <1>2, <1>3 DEF PreparedInv
  <2>1. ContainerCalls = {} /\ create = ~instance /\ update = instance
    BY <1>2 DEF IInv, Alone, PanelMatchesInstance
  <2>2. m = n /\ {instance, create, update} \subseteq BOOLEAN
    BY <1>1, <2>1 DEF TypeOK
  <2>3. calls'[n].kind = kind /\ calls'[n].reply = "waiting"
    BY <1>3
  <2>4. CASE kind = "request"
    <3>1. create' = TRUE /\ update' = FALSE /\ instance' = FALSE
      BY <1>2, <2>1, <2>2, <2>4
    <3> QED
      BY <2>2, <2>3, <2>4, <3>1 DEF Prepared
  <2>5. CASE kind # "request"
    <3>1. create' = FALSE /\ update' = TRUE /\ instance' = TRUE
      BY <1>2, <2>1, <2>2, <2>5
    <3> QED
      BY <2>2, <2>3, <2>5, <3>1 DEF Prepared
  <2> QED
    BY <2>4, <2>5
<1>5. PanelMatchesInstance'
  BY <1>3 DEF PanelMatchesInstance
<1> QED
  BY <1>3, <1>4, <1>5 DEF IInv

LEMMA SubmitStep ==
  ASSUME IInv, NEW n \in Fetches, Submit(n)
  PROVE  IInv'
<1>1. /\ Send(n, "submit", opens) /\ enabled' = FALSE /\ opens > 0
      /\ UNCHANGED <<instance, create, update, opens, drift>>
  BY DEF Submit, ResetAlert
<1>2. /\ TypeOK' /\ ShapeInv' /\ Alone'
      /\ \A m \in InFlight : m # n /\ calls'[m] = calls[m]
      /\ ContainerCalls' = ContainerCalls
  BY <1>1, SentStep DEF Kinds
<1>3. PreparedInv'
  BY <1>1, <1>2 DEF IInv, PreparedInv, Prepared, Sound, ContainerCalls
<1>4. PanelMatchesInstance'
  BY <1>1, <1>2 DEF IInv, PanelMatchesInstance
<1> QED
  BY <1>2, <1>3, <1>4 DEF IInv

\* An answer with which a container call goes on or ends.
LEMMA AnswerStep ==
  ASSUME IInv, NEW n \in Fetches, Answer(n)
  PROVE  IInv'
<1>1. TypeOK /\ ShapeInv
  BY DEF IInv
<1>2. n \in InFlight /\ calls[n] \in Call
  BY <1>1, CallFacts DEF Answer
<1>3. /\ calls' \in [Fetches -> Call \cup {NoCall}]
      /\ calls'[n] = NoCall
      /\ \A m \in Fetches : m # n => calls'[m] = calls[m]
  BY <1>1 DEF Answer, TypeOK
<1>4. InFlight' = InFlight \ {n}
  BY <1>3 DEF InFlight
<1>5. ContainerCalls' = ContainerCalls \ {n}
  BY <1>3, <1>4 DEF ContainerCalls, InFlight
<1>6. \A m \in InFlight' : m \in InFlight /\ calls'[m] = calls[m]
  BY <1>3, <1>4 DEF InFlight
<1>7. calls[n].page \in Nat /\ calls[n].page > 0 /\ calls[n].page <= opens
  BY <1>1, <1>2, PanelAssumption DEF TypeOK, Call
<1> DEFINE kr == <<calls[n].kind, calls[n].reply>>
           unsound == calls[n].reply \in {"gone", "error", "lost"} /\ calls[n].kind # "submit"
<1>8. /\ opens' = opens /\ instance' = instance
      /\ create' = (IF kr \in CreateToggles THEN ~create ELSE create)
      /\ update' = (IF kr \in UpdateToggles THEN ~update ELSE update)
      /\ enabled' = (calls[n].kind # "submit" \/ enabled)
      /\ drift' = (IF unsound THEN drift \cup {"error"} ELSE drift)
      /\ calls[n].reply # "waiting"
  BY DEF Answer
<1> HIDE DEF kr, unsound
<1>9. TypeOK'
  <2>1. /\ create' \in BOOLEAN /\ update' \in BOOLEAN /\ enabled' \in BOOLEAN
        /\ instance' \in BOOLEAN
    BY <1>1, <1>8 DEF TypeOK
  <2>2. \A m \in InFlight' : calls'[m].page <= opens'
    BY <1>1, <1>6, <1>8 DEF TypeOK
  <2>3. drift' \subseteq {"crossed", "error", "world"}
    BY <1>1, <1>8 DEF TypeOK
  <2> QED
    BY <1>3, <2>1, <2>2, <2>3 DEF TypeOK
<1>10. ShapeInv'
  <2>1. opens > 0 /\ opens \in 0..MaxOpens
    BY <1>1, <1>7, PanelAssumption DEF ShapeInv
  <2> QED
    BY <1>1, <1>6, <1>8, <2>1 DEF ShapeInv
<1>11. n \in ContainerCalls <=> calls[n].kind # "submit"
  BY <1>2 DEF ContainerCalls
<1>12. Alone'
  BY <1>5, <1>8, <1>11 DEF IInv, Alone
<1>13. ASSUME drift' = {}
       PROVE  /\ drift = {} /\ ~unsound
              /\ \A m, k \in ContainerCalls : m = k
  BY <1>8, <1>13 DEF IInv, Alone
<1>14. ASSUME calls[n].kind = "submit"
       PROVE  create' = create /\ update' = update /\ ContainerCalls' = ContainerCalls
  BY <1>5, <1>8, <1>11, <1>14 DEF kr, CreateToggles, UpdateToggles
<1>15. PreparedInv'
  <2> SUFFICES ASSUME drift' = {}, NEW m \in ContainerCalls', Sound(m)'
               PROVE  Prepared(m)'
    BY DEF PreparedInv
  <2>1. m \in ContainerCalls /\ m # n /\ calls'[m] = calls[m]
    BY <1>5, <1>6 DEF ContainerCalls
  <2>2. calls[n].kind = "submit"
    BY <1>11, <1>13, <2>1
  <2>3. Sound(m) /\ Prepared(m)
    BY <1>13, <2>1 DEF IInv, PreparedInv, Sound
  <2> QED
    BY <1>8, <1>14, <2>1, <2>2, <2>3 DEF Prepared
<1>16. PanelMatchesInstance'
  <2> SUFFICES ASSUME drift' = {}, ContainerCalls' = {}, opens' > 0
               PROVE  create' = ~instance' /\ update' = instance'
    BY DEF PanelMatchesInstance
  <2>1. CASE calls[n].kind = "submit"
    BY <1>8, <1>13, <1>14, <2>1 DEF IInv, PanelMatchesInstance
  <2>2. CASE calls[n].kind # "submit"
    <3>1. /\ calls[n].reply \in {"ok", "not_started"}
          /\ calls[n].kind \in {"view", "request", "renew", "stop"}
      BY <1>2, <1>8, <1>13, <2>2 DEF unsound, Call, Replies, Kinds
    <3>2. Prepared(n)
      BY <1>11, <1>13, <2>2, <3>1 DEF IInv, PreparedInv, Sound
    <3>3. calls[n].reply = "not_started" => calls[n].kind = "view"
      BY <1>1, <1>2 DEF ShapeInv
    <3>4. /\ create \in BOOLEAN /\ update \in BOOLEAN /\ instance \in BOOLEAN
      BY <1>1 DEF TypeOK
    <3>5. CASE calls[n].kind = "view" /\ calls[n].reply = "not_started"
      <4>1. kr \in CreateToggles /\ kr \notin UpdateToggles
        BY <3>5 DEF kr, CreateToggles, UpdateToggles
      <4> QED
        BY <1>8, <3>2, <3>4, <3>5, <4>1 DEF Prepared
    <3>6. CASE calls[n].kind = "view" /\ calls[n].reply = "ok"
      <4>1. kr \notin CreateToggles /\ kr \in UpdateToggles
        BY <3>6 DEF kr, CreateToggles, UpdateToggles
      <4> QED
        BY <1>8, <3>2, <3>4, <3>6, <4>1 DEF Prepared
    <3>7. CASE calls[n].kind \in {"request", "stop"}
      <4>1. kr \in CreateToggles /\ kr \in UpdateToggles
        BY <3>1, <3>3, <3>7 DEF kr, CreateToggles, UpdateToggles
      <4>2. calls[n].reply = "ok"
        BY <3>1, <3>3, <3>7
      <4> QED
        BY <1>8, <3>2, <3>4, <3>7, <4>1, <4>2 DEF Prepared
    <3>8. CASE calls[n].kind = "renew"
      <4>1. kr \notin CreateToggles /\ kr \notin UpdateToggles
        BY <3>8 DEF kr, CreateToggles, UpdateToggles
      <4> QED
        BY <1>8, <3>2, <3>4, <3>8, <4>1 DEF Prepared
    <3> QED
      BY <3>1, <3>3, <3>5, <3>6, <3>7, <3>8
  <2> QED
    BY <2>1, <2>2
<1> QED
  BY <1>9, <1>10, <1>12, <1>15, <1>16 DEF IInv

\* What every answer of the server has in common.
LEMMA ServeFacts ==
  ASSUME IInv, NEW n \in Fetches, Serve(n)
  PROVE  /\ n \in InFlight /\ calls[n] \in Call /\ calls[n].reply = "waiting"
         /\ UNCHANGED <<create, update, enabled, opens>>
         /\ \E reply \in {"ok", "not_started", "gone", "error"} : Reply(n, reply)
         /\ instance' \in BOOLEAN
         /\ drift' = drift \/ drift' = drift \cup {"world"}
<1>1. TypeOK
  BY DEF IInv
<1>2. n \in InFlight /\ calls[n] \in Call /\ calls[n].reply = "waiting"
  BY <1>1, CallFacts DEF Serve
<1>3. \E reply \in {"ok", "not_started", "gone", "error"} : Reply(n, reply)
  BY DEF Serve, ServeView, ServeRequest, ServeRenew, ServeStop, ServeSubmit, Refuse
<1>4. instance' \in BOOLEAN
  BY <1>1 DEF Serve, ServeView, ServeRequest, ServeRenew, ServeStop, ServeSubmit,
     Refuse, TypeOK
<1>5. drift' = drift \/ drift' = drift \cup {"world"}
  BY DEF Serve, ServeView, ServeRequest, ServeRenew, ServeStop, ServeSubmit, Refuse
<1> QED
  BY <1>2, <1>3, <1>4, <1>5 DEF Serve

LEMMA ServeStep ==
  ASSUME IInv, NEW n \in Fetches, Serve(n)
  PROVE  IInv'
<1>1. TypeOK
  BY DEF IInv
<1>2. /\ n \in InFlight /\ calls[n] \in Call /\ calls[n].reply = "waiting"
      /\ UNCHANGED <<create, update, enabled, opens>>
      /\ instance' \in BOOLEAN
      /\ drift' = drift \/ drift' = drift \cup {"world"}
  BY ServeFacts
<1>3. PICK reply \in {"ok", "not_started", "gone", "error"} :
        Reply(n, reply) /\ (reply = "not_started" => calls[n].kind = "view")
  BY <1>2 DEF Serve, ServeView, ServeRequest, ServeRenew, ServeStop, ServeSubmit, Refuse
<1>4. reply \in Replies
  BY DEF Replies
<1>5. TypeOK' /\ ShapeInv' /\ Alone'
  BY <1>1, <1>2, <1>3, <1>4, ServerStep DEF TypeOK
<1>6. /\ calls'[n].kind = calls[n].kind /\ calls'[n].reply = reply
      /\ \A m \in Fetches : m # n => calls'[m] = calls[m]
      /\ InFlight' = InFlight /\ ContainerCalls' = ContainerCalls
  BY <1>1, <1>2, <1>3, <1>4, ReplyStep
<1>7. n \in ContainerCalls <=> calls[n].kind # "submit"
  BY <1>2 DEF ContainerCalls
<1>8. {instance, create, update} \subseteq BOOLEAN
  BY <1>1 DEF TypeOK
<1>9. ASSUME drift' = {}, calls[n].kind = "submit"
      PROVE  instance' = instance /\ drift = {}
  BY <1>2, <1>9 DEF Serve, ServeView, ServeRequest, ServeRenew, ServeStop, ServeSubmit,
     Refuse
<1>10. PreparedInv'
  <2> SUFFICES ASSUME drift' = {}, NEW m \in ContainerCalls, Sound(m)'
               PROVE  Prepared(m)'
    BY <1>6 DEF PreparedInv
  <2>1. drift = {} /\ m \in Fetches
    BY <1>2 DEF ContainerCalls, InFlight
  <2>2. CASE calls[n].kind = "submit"
    <3>1. m # n /\ calls'[m] = calls[m]
      BY <1>6, <1>7, <2>1, <2>2
    <3>2. Sound(m) /\ Prepared(m)
      BY <2>1, <3>1 DEF IInv, PreparedInv, Sound
    <3> QED
      BY <1>2, <1>9, <2>2, <3>1, <3>2 DEF Prepared
  <2>3. CASE calls[n].kind # "submit"
    <3>1. m = n
      BY <1>7, <2>1, <2>3 DEF IInv, Alone
    <3>2. Prepared(n) /\ reply \in {"ok", "not_started"}
      BY <1>2, <1>6, <1>7, <2>1, <2>3, <3>1 DEF IInv, PreparedInv, Sound
    <3>3. calls[n].kind \in {"view", "request", "renew", "stop"}
      BY <1>2, <2>3 DEF Call, Kinds
    <3>4. CASE calls[n].kind = "view"
      <4>1. calls'[n].reply = (IF instance THEN "ok" ELSE "not_started") /\ instance' = instance
        BY <1>1, <1>2, <1>6, <3>2, <3>4, ReplyStep DEF Serve, ServeView, ServeRequest,
           ServeRenew, ServeStop, ServeSubmit, Refuse, Replies
      <4> QED
        BY <1>2, <1>6, <1>8, <3>1, <3>2, <3>4, <4>1 DEF Prepared
    <3>5. CASE calls[n].kind = "request"
      <4>1. calls'[n].reply = "ok" /\ instance' = TRUE
        BY <1>1, <1>2, <1>6, <3>2, <3>5, ReplyStep DEF Serve, ServeView, ServeRequest,
           ServeRenew, ServeStop, ServeSubmit, Refuse, Replies
      <4> QED
        BY <1>2, <1>6, <1>8, <3>1, <3>2, <3>5, <4>1 DEF Prepared
    <3>6. CASE calls[n].kind = "renew"
      <4>1. instance' = instance
        BY <3>6 DEF Serve, ServeView, ServeRequest, ServeRenew, ServeStop, ServeSubmit,
           Refuse
      <4> QED
        BY <1>2, <1>6, <1>8, <3>1, <3>2, <3>6, <4>1 DEF Prepared
    <3>7. CASE calls[n].kind = "stop"
      <4>1. calls'[n].reply = "ok" /\ instance' = FALSE
        BY <1>1, <1>2, <1>3, <1>6, <3>2, <3>7, ReplyStep DEF Serve, ServeView, ServeRequest,
           ServeRenew, ServeStop, ServeSubmit, Refuse, Replies
      <4> QED
        BY <1>2, <1>6, <1>8, <3>1, <3>2, <3>7, <4>1 DEF Prepared
    <3> QED
      BY <3>3, <3>4, <3>5, <3>6, <3>7
  <2> QED
    BY <2>2, <2>3
<1>11. PanelMatchesInstance'
  BY <1>2, <1>6, <1>7, <1>9 DEF IInv, PanelMatchesInstance
<1> QED
  BY <1>5, <1>10, <1>11 DEF IInv

LEMMA LoseStep ==
  ASSUME IInv, NEW n \in Fetches, Lose(n)
  PROVE  IInv'
<1>1. TypeOK
  BY DEF IInv
<1>2. /\ n \in InFlight /\ Reply(n, "lost") /\ "lost" \in Replies
      /\ UNCHANGED <<instance, create, update, enabled, opens, drift>>
  BY DEF Lose, Replies
<1>3. TypeOK' /\ ShapeInv' /\ Alone'
  BY <1>1, <1>2, ServerStep DEF TypeOK
<1>4. /\ calls'[n].reply = "lost" /\ ContainerCalls' = ContainerCalls
      /\ \A m \in Fetches : m # n => calls'[m] = calls[m]
  BY <1>1, <1>2, ReplyStep
<1>5. PreparedInv'
  BY <1>2, <1>4 DEF IInv, PreparedInv, Prepared, Sound, ContainerCalls, InFlight
<1>6. PanelMatchesInstance'
  BY <1>2, <1>4 DEF IInv, PanelMatchesInstance
<1> QED
  BY <1>3, <1>5, <1>6 DEF IInv

LEMMA ElsewhereStep ==
  ASSUME IInv, Elsewhere
  PROVE  IInv'
<1>1. InFlight' = InFlight /\ ContainerCalls' = ContainerCalls
  BY DEF Elsewhere, InFlight, ContainerCalls
<1>2. TypeOK'
  BY <1>1 DEF IInv, TypeOK, Elsewhere
<1>3. ShapeInv' /\ Alone'
  BY <1>1 DEF IInv, ShapeInv, Alone, Elsewhere
<1>4. drift' # {}
  BY DEF Elsewhere
<1> QED
  BY <1>2, <1>3, <1>4 DEF IInv, PreparedInv, PanelMatchesInstance

LEMMA InvariantHolds == Spec => []IInv
<1>1. IInv /\ [Next]_vars => IInv'
  <2> SUFFICES ASSUME IInv, [Next]_vars PROVE IInv'
    OBVIOUS
  <2>1. CASE UNCHANGED vars
    <3>1. InFlight' = InFlight /\ ContainerCalls' = ContainerCalls
      BY <2>1 DEF vars, InFlight, ContainerCalls
    <3> QED
      BY <2>1, <3>1 DEF vars, IInv, TypeOK, ShapeInv, Alone, PreparedInv, Prepared,
         Sound, PanelMatchesInstance
  <2> QED
    BY <2>1, OpenStep, ClickStep, SubmitStep, ServeStep, LoseStep, AnswerStep,
       ElsewhereStep DEF Next
<1> QED
  BY <1>1, Initial, PTL DEF Spec

-----------------------------------------------------------------------------
(* Theorems.                                                               *)

\* Whatever is opened, clicked and answered, the calls keep their shape.
THEOREM TypeCorrect == Spec => []TypeOK
BY InvariantHolds, PTL DEF IInv

\* resetAlert disables the buttons until a container call is answered, so a
\* rendering opened with no call under way never has two of them in flight.
THEOREM CallsAreAlone == Spec => []OneCallAtATime
<1>1. IInv => OneCallAtATime
  <2> SUFFICES ASSUME Alone, "crossed" \notin drift
               PROVE  Cardinality(ContainerCalls) <= 1
    BY DEF IInv, OneCallAtATime
  <2>1. CASE ContainerCalls = {}
    BY <2>1, FS_EmptySet
  <2>2. CASE ContainerCalls # {}
    <3>1. PICK n : ContainerCalls = {n}
      BY <2>2 DEF Alone
    <3>2. Cardinality({n}) = 1
      BY FS_Singleton
    <3> QED
      BY <3>1, <3>2
  <2> QED
    BY <2>1, <2>2
<1> QED
  BY <1>1, InvariantHolds, PTL

\* The toggles, which never look at the instance, end where it is.
THEOREM PanelIsRight == Spec => []PanelMatchesInstance
BY InvariantHolds, PTL DEF IInv
=============================================================================
