------------------------------ MODULE Reminders ------------------------------
(***************************************************************************)
(* The rectification reminder: no scheduler, but a scan of all findings    *)
(* that any user's poll of the bell may set off (GET of                    *)
(* api/notifications, checkRectificationReminders of notifications.ts).    *)
(*                                                                         *)
(* Ages are in ticks of the cooldown and stop growing where no rule looks  *)
(* further.  A scan writes no audit entry, so nothing serialises two of    *)
(* them (AuditedStore): with ~calm a scan is two steps, its read and its   *)
(* commit, and what commits are whole rows as they were read.              *)
(***************************************************************************)
EXTENDS Naturals, FiniteSetsExt

CONSTANTS
    Findings,
    Pollers,
    Threshold,    \* thresholdDays, in ticks
    Cooldown      \* REMINDER_SCAN_COOLDOWN_MS, in ticks

VARIABLES
    calm,         \* no scan is caught between its read and its commit
    finding,      \* finding[f]: waits in a remindable status, age of updatedAt and lastReminderAt
    settings,     \* rectificationReminders: enabled, age of lastCheckedAt
    page,         \* the settings page an administrator has open
    staffed,      \* somebody active holds findings.rectify in the branch
    poll,         \* poll[p]: what p's request has found out
    quiet,        \* history: quiet[f]: ticks until f may be reminded of again
    early         \* history: findings reminded of before that

reminderVars == <<calm, finding, settings, page, staffed, poll, quiet, early>>

Idle == [is |-> "idle"]
Aged(age, cap) == Min({age + 1, cap})

RemindersInit ==
    /\ calm \in BOOLEAN
    /\ finding = [f \in Findings |-> [waits |-> TRUE, idle |-> 0, since |-> Threshold]]
    /\ settings = [enabled |-> TRUE, since |-> Cooldown]
    /\ page = settings
    /\ staffed \in BOOLEAN
    /\ poll = [p \in Pollers |-> Idle]
    /\ quiet = [f \in Findings |-> 0] /\ early = {}

-----------------------------------------------------------------------------
(* notifications.ts *)

ScanDue(s) == s.enabled /\ s.since >= Cooldown

\* The fault: only the age of the finding counts
DueByAge(findings) == {f \in Findings : findings[f].waits /\ findings[f].idle >= Threshold}

Due(findings) ==
    {f \in Findings : /\ findings[f].waits
                      /\ findings[f].idle >= Threshold
                      /\ findings[f].since >= Threshold}

\* What checkRectificationReminders makes of what it read: a finding counts
\* as reminded of even when there was nobody to tell.
Scan(findings, s) ==
    IF ~ScanDue(s) THEN UNCHANGED <<finding, settings, quiet, early>>
    ELSE LET due == Due(findings)
             told == IF staffed THEN due ELSE {}
         IN  /\ finding' = [f \in Findings |->
                   IF f \in due THEN [findings[f] EXCEPT !.since = 0] ELSE finding[f]]
             /\ settings' = [s EXCEPT !.since = 0]
             /\ quiet' = [f \in Findings |-> IF f \in told THEN Threshold ELSE quiet[f]]
             /\ early' = early \cup {f \in told : quiet[f] > 0}

-----------------------------------------------------------------------------
(* GET of api/notifications *)

\* The plain read that decides whether a scan is worth a write
Peek(p) ==
    /\ poll[p] = Idle /\ ScanDue(settings)
    /\ poll' = [poll EXCEPT ![p] = [is |-> "due"]]
    /\ UNCHANGED <<calm, finding, settings, page, staffed, quiet, early>>

ScanAtOnce(p) ==
    /\ calm /\ poll[p].is = "due"
    /\ Scan(finding, settings)
    /\ poll' = [poll EXCEPT ![p] = Idle]
    /\ UNCHANGED <<calm, page, staffed>>

ReadForScan(p) ==
    /\ ~calm /\ poll[p].is = "due"
    /\ poll' = [poll EXCEPT ![p] = [is |-> "scanning", findings |-> finding, settings |-> settings]]
    /\ UNCHANGED <<calm, finding, settings, page, staffed, quiet, early>>

CommitScan(p) ==
    /\ poll[p].is = "scanning"
    /\ Scan(poll[p].findings, poll[p].settings)
    /\ poll' = [poll EXCEPT ![p] = Idle]
    /\ UNCHANGED <<calm, page, staffed>>

-----------------------------------------------------------------------------
(* What else touches the rows *)

\* A step of the workflow: any update makes the finding's age start again
Work(f, waits) ==
    /\ finding' = [finding EXCEPT ![f].waits = waits, ![f].idle = 0]
    /\ UNCHANGED <<calm, settings, page, staffed, poll, quiet, early>>

OpenSettings ==
    /\ page' = settings
    /\ UNCHANGED <<calm, finding, settings, staffed, poll, quiet, early>>

\* PATCH of the settings replaces them by what the page sends, the age of the
\* last scan as it was when the page was opened included.
SaveSettings(enabled) ==
    /\ settings' = [page EXCEPT !.enabled = enabled]
    /\ page' = settings'
    /\ UNCHANGED <<calm, finding, staffed, poll, quiet, early>>

ChangeStaff ==
    /\ staffed' = ~staffed
    /\ UNCHANGED <<calm, finding, settings, page, poll, quiet, early>>

\* A tick is long beside a scan
Pass ==
    /\ \A p \in Pollers : poll[p].is # "scanning"
    /\ finding' = [f \in Findings |->
          [finding[f] EXCEPT !.idle = Aged(@, Threshold), !.since = Aged(@, Threshold)]]
    /\ settings' = [settings EXCEPT !.since = Aged(@, Cooldown)]
    /\ page' = [page EXCEPT !.since = Aged(@, Cooldown)]
    /\ quiet' = [f \in Findings |-> IF quiet[f] > 0 THEN quiet[f] - 1 ELSE 0]
    /\ UNCHANGED <<calm, staffed, poll, early>>

Poll(p) == Peek(p) \/ ScanAtOnce(p) \/ ReadForScan(p) \/ CommitScan(p)

RemindersNext ==
    \/ \E p \in Pollers : Poll(p)
    \/ \E f \in Findings, waits \in BOOLEAN : Work(f, waits)
    \/ OpenSettings
    \/ \E enabled \in BOOLEAN : SaveSettings(enabled)
    \/ ChangeStaff \/ Pass

-----------------------------------------------------------------------------
TypeOK ==
    /\ finding \in [Findings -> [waits : BOOLEAN, idle : 0..Threshold, since : 0..Threshold]]
    /\ {settings, page} \subseteq [enabled : BOOLEAN, since : 0..Cooldown]
    /\ quiet \in [Findings -> 0..Threshold] /\ early \subseteq Findings

\* "lastReminderAt stops it being re-reminded inside the same thresholdDays
\* window" (notifications.ts), however many poll, however often the settings
\* are saved over a scan.  Two scans that overlap do remind twice.
RemindersSpaced == early = {}

\* A finding that goes on waiting, untouched, is reminded of again and again
\* as long as somebody has the application open and somebody is there to tell.
WaitingIsReminded ==
    \A f \in Findings :
        <>[](/\ calm /\ finding[f].waits /\ finding[f].idle = Threshold
             /\ settings.enabled /\ page.enabled /\ staffed) => []<>(quiet[f] = Threshold)
=============================================================================
