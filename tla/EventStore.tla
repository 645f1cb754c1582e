----------------------------- MODULE EventStore -----------------------------
(***************************************************************************)
(* What an events table promises its readers: for each event identity it   *)
(* shows nothing, or what some fetched report said of the event; it only   *)
(* ever moves on to a later fetch, and it never forgets an event.          *)
(* Connector is shown to implement this.                                   *)
(***************************************************************************)
EXTENDS Naturals

CONSTANTS Event, Time, Version

VARIABLES
    served,   \* the reports fetched so far
    events    \* what the table shows of each event

vars == <<served, events>>

NoEvent == [at |-> 0, version |-> 0]
Report  == [at : Time, body : [Event -> Version]]

Init ==
    /\ served = {}
    /\ events = [e \in Event |-> NoEvent]

\* A fetch completes.
Serve ==
    /\ \E report \in Report : served' = served \union {report}
    /\ UNCHANGED events

\* What the table may show of e next, given the reports fetched so far.
Newer(e) ==
    {[at |-> s.at, version |-> s.body[e]] :
        s \in {t \in served : t.body[e] > 0 /\ t.at > events[e].at}}

\* A batch lands: some events move on, the others stay.
Apply ==
    /\ \E moved \in SUBSET Event :
        /\ \A e \in moved : events'[e] \in Newer(e)
        /\ \A e \in Event \ moved : events'[e] = events[e]
        /\ events' \in [Event -> [at : Time, version : Version]]
    /\ UNCHANGED served

Next == Serve \/ Apply

Spec == Init /\ [][Next]_vars
============================================================================
