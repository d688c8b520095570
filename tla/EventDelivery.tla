---------------------------- MODULE EventDelivery ----------------------------
(***************************************************************************)
(* At-least-once delivery, as the docstrings of reliability/outbox.py      *)
(* promise it to whoever raises an event and whoever handles it: no        *)
(* relays, leases, workers or pending lists.  An event is offered until a  *)
(* copy of it was delivered or it is given up; copies may be many and may  *)
(* come late, and none is closed that was neither handled nor lost.        *)
(***************************************************************************)

CONSTANTS Event, Copy

VARIABLES
  stage,      \* [Event -> {"none", "offered", "published", "dead", "pruned"}]
  sent,       \* copies in the stream: an event and a member of Copy
  closed,     \* copies nobody will look at again
  lost,       \* copies whose payload is gone
  handled     \* events a handler has processed

deliveryVars == <<stage, sent, closed, lost, handled>>

Copied(v) == \E x \in sent : x[1] = v

Init ==
  /\ stage = [v \in Event |-> "none"]
  /\ sent = {} /\ closed = {} /\ lost = {} /\ handled = {}

Turns(v, from, to) ==
  /\ stage[v] = from
  /\ stage' = [stage EXCEPT ![v] = to]
  /\ UNCHANGED <<sent, closed, lost, handled>>

Raise(v) == Turns(v, "none", "offered")
Deliver(v) == Copied(v) /\ Turns(v, "offered", "published")
GiveUp(v) == Turns(v, "offered", "dead")
Forget(v) == Turns(v, "published", "pruned")

(* Whoever offered the event may be late: it is sent again though it has ended. *)
Send(v) ==
  /\ stage[v] # "none"
  /\ \E n \in Copy : <<v, n>> \notin sent /\ sent' = sent \cup {<<v, n>>}
  /\ UNCHANGED <<stage, closed, lost, handled>>

Handle(v) ==
  /\ Copied(v)
  /\ handled' = handled \cup {v}
  /\ UNCHANGED <<stage, sent, closed, lost>>

Close ==
  /\ closed \subseteq closed' /\ closed' \subseteq sent
  /\ \A x \in closed' \ closed : x[1] \in handled \/ x \in lost
  /\ UNCHANGED <<stage, sent, lost, handled>>

Lose ==
  /\ \E x \in sent : lost' = lost \cup {x}
  /\ UNCHANGED <<stage, sent, closed, handled>>

Next ==
  \/ \E v \in Event : Raise(v) \/ Deliver(v) \/ GiveUp(v) \/ Forget(v) \/ Send(v) \/ Handle(v)
  \/ Close \/ Lose

Spec == Init /\ [][Next]_deliveryVars
=============================================================================
