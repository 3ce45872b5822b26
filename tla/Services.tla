------------------------------ MODULE Services ------------------------------
(***************************************************************************)
(* Four services of bmacd that share no state, side by side: the           *)
(* registry lock, the numbering of a job's events, the event hub and the   *)
(* schedules.  A behaviour is one of a single service, the `part' it       *)
(* begins with; the others stay where they start.                          *)
(***************************************************************************)
EXTENDS RegistryLock, JobEvents, EventHub, Schedules

VARIABLE part

allVars == <<part, vars, evars, hubVars, schedVars>>

ServicesInit ==
    /\ Init /\ EventsInit /\ HubInit /\ SchedInit
    /\ \/ part = "events"
       \/ part \in {"lock", "hub", "schedules"} /\ host = CHOOSE h \in Hosts : TRUE

ServicesNext ==
    \/ part = "lock" /\ Next /\ UNCHANGED <<part, evars, hubVars, schedVars>>
    \/ part = "events" /\ EventsNext /\ UNCHANGED <<part, vars, hubVars, schedVars>>
    \/ part = "hub" /\ HubSteps /\ UNCHANGED <<part, vars, evars, schedVars>>
    \/ part = "schedules" /\ SchedNext /\ UNCHANGED <<part, vars, evars, hubVars>>

\* The fairness of each service, in the behaviours that are its own.
Own(service, A) == part = service /\ A
ServicesSafe == ServicesInit /\ [][ServicesNext]_allVars
ServicesSpec ==
    /\ ServicesSafe
    /\ WF_vars(Own("lock", Tick)) /\ WF_vars(Own("lock", RegainQuorum))
    /\ \A p \in Procs : /\ WF_vars(Own("lock", Changes(p))) /\ WF_vars(Own("lock", Releases(p)))
                        /\ WF_vars(Own("lock", Acquires(p)))
    /\ WF_evars(Own("events", Write)) /\ WF_evars(Own("events", Flush))
    /\ \A t \in Tabs : /\ WF_hubVars(Own("hub", Serves(t)))
                       /\ WF_hubVars(Own("hub", TabReads(t)))
    /\ \A h \in SchedHosts : WF_schedVars(Own("schedules", Evaluates(h)))

\* The services' states are sound: typed, what is stored of a run is stored
\* in order, a job that ran once has all its events, its record's last_seq was
\* given to an event (JobEvents), and no slot is launched twice (Schedules).
ServicesInv ==
    /\ TypeOK /\ HubInv /\ SchedTypeOK
    /\ EventsInv /\ CountedIsTaken /\ OneRunIsComplete
    /\ RecordOutlasts /\ SlotOnce
\* A slot that comes is launched, refused or given up (Schedules).
EverySlotIsTried == part = "schedules" => SlotIsTried
=============================================================================
