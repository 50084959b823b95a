-------------------------- MODULE UpgradeLifecycle --------------------------
(***************************************************************************)
(* What users of the kubelet upgrade controller may rely on, whatever goes *)
(* on inside it: the life of the stored KubeletUpgrade objects.  Only the  *)
(* controller touches the status, one object at a time, and in three ways  *)
(* only.  Reconcile implements this specification.                         *)
(***************************************************************************)
EXTENDS KubeletUpgrade

CONSTANTS Upgrades, None

VARIABLES api, clock

Init ==
    /\ api = [u \in Upgrades |-> None]
    /\ clock = 1

\* The next scheduled time only moves forward.
Reschedule(u) ==
    /\ api'[u] # None /\ api'[u].next > api[u].next
    /\ api' = [api EXCEPT ![u].next = api'[u].next]
    /\ UNCHANGED clock

\* An upgrade starts when it is due and not disabled, as the stored object says
\* at that moment and not as some cached copy said.
Start(u) ==
    /\ ~api[u].skip
    /\ 0 < api[u].next /\ api[u].next <= clock
    /\ api' = [api EXCEPT ![u].cond = "started"]
    /\ UNCHANGED clock

\* The outcome that is recorded is the outcome of an upgrade that has started.
Finish(u) ==
    /\ api[u].cond = "started"
    /\ \E c \in {"completed", "failed"} : api' = [api EXCEPT ![u].cond = c]
    /\ UNCHANGED clock

Create(u) ==
    /\ api[u] = None
    /\ \E s \in Schedules \cup {BadSchedule}, b \in BOOLEAN :
        api' = [api EXCEPT ![u] = [sched |-> s, skip |-> b, next |-> 0, cond |-> "none"]]
    /\ UNCHANGED clock

Delete(u) ==
    /\ api' = [api EXCEPT ![u] = None]
    /\ UNCHANGED clock

Edit(u) ==
    /\ \E s \in Schedules \cup {BadSchedule}, b \in BOOLEAN :
        api' = [api EXCEPT ![u].sched = s, ![u].skip = b]
    /\ UNCHANGED clock

Tick == clock' = clock + 1 /\ UNCHANGED api

Next ==
    \/ \E u \in Upgrades :
        \/ Create(u)
        \/ api[u] # None /\ (Reschedule(u) \/ Start(u) \/ Finish(u) \/ Delete(u) \/ Edit(u))
    \/ Tick

Spec == Init /\ [][Next]_<<api, clock>>

=============================================================================
