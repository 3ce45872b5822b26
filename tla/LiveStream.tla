----------------------------- MODULE LiveStream -----------------------------
(***************************************************************************)
(* What a stream of live updates promises a tab: from the point it asks    *)
(* for on, every message in order, or a notice to fetch fresh snapshots.   *)
(* Only events of jobs the tab does not watch are left out.  EventHub      *)
(* implements it.                                                          *)
(***************************************************************************)
EXTENDS Naturals

CONSTANTS
    Tabs,
    IsEvent(_)  \* whether the message of this number is a job's event

VARIABLES
    published,  \* the number of the newest message of this engine
    upto,       \* tab -> what its stream has covered
    owed,       \* tab -> whether a notice must come before anything else
    open,       \* tab -> whether it has a stream
    watching,   \* tab -> whether it watches the job
    sent        \* tab -> what its stream sent last

streamVars == <<published, upto, owed, open, watching, sent>>

\* Steps of one tab: the others' streams are as they were.
Only(t, u, o, c, w, m) ==
    /\ upto' = [upto EXCEPT ![t] = u]
    /\ owed' = [owed EXCEPT ![t] = o]
    /\ open' = [open EXCEPT ![t] = c]
    /\ watching' = [watching EXCEPT ![t] = w]
    /\ sent' = [sent EXCEPT ![t] = m]
    /\ UNCHANGED published

Publish == published' = published + 1 /\ UNCHANGED <<upto, owed, open, watching, sent>>

\* A stream starts at the place the tab names, or owes it a notice.
Open(t) ==
    /\ ~open[t]
    /\ \/ \E n \in 0 .. published : Only(t, n, FALSE, TRUE, FALSE, <<>>)
       \/ Only(t, 0, TRUE, TRUE, FALSE, <<>>)
Close(t) == open[t] /\ Only(t, 0, FALSE, FALSE, FALSE, <<>>)
Watch(t) == open[t] /\ Only(t, upto[t], owed[t], TRUE, ~watching[t], sent[t])

\* The stream moves on to n, over events nobody asked for, and sends no
\* message or one.
Unasked(t, ms) == \A m \in ms : IsEvent(m) /\ ~watching[t]
Pass(t) ==
    /\ open[t] /\ ~owed[t]
    /\ \E n \in upto[t] + 1 .. published :
          /\ Unasked(t, upto[t] + 1 .. n)
          /\ Only(t, n, FALSE, TRUE, watching[t], sent[t])
Deliver(t) ==
    /\ open[t] /\ ~owed[t]
    /\ \E n \in upto[t] + 1 .. published : \E m \in upto[t] + 1 .. n :
          /\ Unasked(t, (upto[t] + 1 .. n) \ {m})
          /\ Only(t, n, FALSE, TRUE, watching[t], <<"message", m>>)

\* The notice: the snapshots to be fetched cover everything until its id.
Resnapshot(t) ==
    /\ open[t]
    /\ \E n \in upto[t] .. published :
          Only(t, n, FALSE, TRUE, watching[t], <<"resnapshot", n>>)

StreamInit ==
    /\ published = 0
    /\ upto = [t \in Tabs |-> 0] /\ owed = [t \in Tabs |-> FALSE]
    /\ open = [t \in Tabs |-> FALSE] /\ watching = [t \in Tabs |-> FALSE]
    /\ sent = [t \in Tabs |-> <<>>]
Restart ==
    /\ published' = 0
    /\ upto' = [t \in Tabs |-> 0] /\ owed' = [t \in Tabs |-> FALSE]
    /\ open' = [t \in Tabs |-> FALSE] /\ watching' = [t \in Tabs |-> FALSE]
    /\ sent' = [t \in Tabs |-> <<>>]
StreamNext ==
    \/ Publish \/ Restart
    \/ \E t \in Tabs : Open(t) \/ Close(t) \/ Watch(t) \/ Pass(t) \/ Deliver(t) \/ Resnapshot(t)

\* A stream that is behind moves on.
Moves(t) == (Pass(t) \/ Deliver(t) \/ Resnapshot(t)) /\ <<upto, owed>>' # <<upto, owed>>
StreamSpec ==
    /\ StreamInit /\ [][StreamNext]_streamVars
    /\ \A t \in Tabs : WF_streamVars(Moves(t))
=============================================================================
