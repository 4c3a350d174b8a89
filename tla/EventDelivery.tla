---------------------------- MODULE EventDelivery ----------------------------
(***************************************************************************)
(* What core/event_bus.py promises its publishers: the handlers of an      *)
(* event are started at most once, and no event of CRITICAL_EVENTS is      *)
(* silently dropped.  When, and in which order, is left open.              *)
(***************************************************************************)
EXTENDS Naturals, Sequences

CONSTANTS Kinds, Keys, Critical, MaxEvents

VARIABLES
  sent,     \* the events published, in order
  started,  \* per event, how often its handlers were started
  dropped   \* the events dropped

dvars == <<sent, started, dropped>>

Init ==
  /\ sent = <<>> /\ dropped = {}
  /\ started = [e \in 1..MaxEvents |-> 0]

Send(event, lose) ==
  /\ Len(sent) < MaxEvents
  /\ lose => event.kind \notin Critical
  /\ sent' = Append(sent, event)
  /\ dropped' = IF lose THEN dropped \cup {Len(sent) + 1} ELSE dropped
  /\ UNCHANGED started

Handle(e) ==
  /\ started[e] = 0 /\ e \notin dropped
  /\ started' = [started EXCEPT ![e] = 1]
  /\ UNCHANGED <<sent, dropped>>

Next == \/ \E event \in [kind : Kinds, key : Keys], lose \in BOOLEAN : Send(event, lose)
        \/ \E e \in 1..Len(sent) : Handle(e)

Spec == Init /\ [][Next]_dvars
=============================================================================
