--------------------------- MODULE KubeletUpgrade ---------------------------
(***************************************************************************)
(* The KubeletUpgrade object and the operations that compute a new value   *)
(* of it: the methods of pkg/apis/clusterop.isim.dev/v1alpha1/types.go and *)
(* the two decisions of the controller that depend only on the object and  *)
(* on poll's time (updateNextScheduledTime, canUpgrade).                   *)
(*                                                                         *)
(* Time is counted in minutes from 1; 0 is the zero time.  Of the list of  *)
(* conditions only the status of the last one is kept.                     *)
(***************************************************************************)
EXTENDS Naturals

CONSTANTS
    LookBack,     \* the look-back window, 5 minutes in the code
    MaxTime,      \* last instant of the clock
    Schedules,    \* cron schedules
    BadSchedule,  \* a Spec.Schedule that cron.Parse rejects
    CronNext      \* CronNext[s][t]: first activation of s after t

Times == 1 .. MaxTime

ASSUME TimeAssumption == LookBack \in Nat \ {0} /\ MaxTime \in Nat \ {0}
ASSUME ScheduleAssumption == BadSchedule \notin Schedules
ASSUME CronAssumption ==
    /\ CronNext \in [Schedules -> [Times -> Nat]]
    /\ \A s \in Schedules, t \in Times : CronNext[s][t] > t

Conditions == {"none", "started", "completed", "failed"}

\* sched is Spec.Schedule, skip the label clusterop.isim.dev/skip, next and
\* cond are Status.NextScheduledTime and the last of Status.Conditions.
Objects ==
    [sched : Schedules \cup {BadSchedule}, skip : BOOLEAN, next : Nat,
     cond : Conditions]

UpdateNextScheduledTime(k, now) ==
    IF k.sched = BadSchedule THEN k ELSE [k EXCEPT !.next = CronNext[k.sched][now]]

RecordUpgradeStarted(k) == [k EXCEPT !.skip = TRUE, !.cond = "started"]

\* Mutant of RecordUpgradeCompleted: the error's text where the status belongs.
RecordErrorText(k, failed) ==
    [k EXCEPT !.skip = FALSE, !.cond = IF failed THEN "error" ELSE "completed"]

\* Mutant of RecordUpgradeCompleted: only a failure gets a condition.
RecordFailureOnly(k, failed) ==
    [k EXCEPT !.skip = FALSE, !.cond = IF failed THEN "failed" ELSE k.cond]

RecordUpgradeCompleted(k, failed) ==
    [k EXCEPT !.skip = FALSE, !.cond = IF failed THEN "failed" ELSE "completed"]

\* Mutant of NeedsNextTime: the last instant of the window is still in it.
NeedsTimeAfterWindow(k, now, forceUpdate) ==
    k.next = 0 \/ forceUpdate \/ k.next + LookBack < now

\* The condition under which updateNextScheduledTime writes a new time.
NeedsNextTime(k, now, forceUpdate) ==
    \/ k.next = 0
    \/ forceUpdate
    \/ k.next < now /\ now - k.next >= LookBack

\* Mutant of canUpgrade: the skip label is not looked at.
UpgradeLabelled(k, now) ==
    k.next # 0 /\ now >= k.next /\ now - k.next <= LookBack

canUpgrade(k, now) ==
    /\ ~k.skip
    /\ k.next # 0
    /\ now = k.next \/ (now >= k.next /\ now - k.next <= LookBack)

=============================================================================
