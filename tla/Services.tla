------------------------------ MODULE Services ------------------------------
(***************************************************************************)
(* What surrounds the findings: stored files, the history of imports, the  *)
(* throttling of logins, reminders, support conversations, and the pages   *)
(* and the CSV dialog an administrator edits with, and the copy of a form  *)
(* that is being filled in.  They meet only in the storage folder and the  *)
(* server that may stop, so `part` chooses which of them moves, and one    *)
(* run checks them all.  Each has its own folder and its own requests;     *)
(* disk and request stand for those of the part that moves.  `calm` is     *)
(* said by each module to be what it leaves out.                           *)
(***************************************************************************)
EXTENDS Integers, Sequences, FiniteSets

CONSTANTS Requests,
          Findings, Imported, Files, Users, Keepers,                        \* EvidenceFiles
          Batches, MaxNumber, MaxRows,                                      \* ImportHistory, CsvImport
          Accounts, Address, MaxAttempts, RateWindow, MaxFailures, Window, MaxCount, \* LoginThrottle
          Waiting, Pollers, Threshold, Cooldown,                            \* Reminders
          MaxMessages,                                                      \* SupportThreads
          Admins,                                                           \* AdminForms
          Words, MaxSent                                                    \* DraftAutosave

VARIABLES part, calm, disk, request,
          stage, evidence,                                                  \* EvidenceFiles
          holder, batch, listed, withdrawn,                                 \* ImportHistory
          attempts, failures, locked, login,                                \* LoginThrottle
          finding, settings, page, staffed, poll, quiet, early,             \* Reminders
          thread, messages, view, sending,                                  \* SupportThreads
          form, row, list, dialog,                                          \* AdminForms
          open, rows, cancelled, run, results, created,                     \* CsvImport
          draft, window, sent, finished                                     \* DraftAutosave

Evidence == INSTANCE EvidenceFiles
Imports == INSTANCE ImportHistory
Throttle == INSTANCE LoginThrottle
Reminding == INSTANCE Reminders WITH Findings <- Waiting
Support == INSTANCE SupportThreads
Forms == INSTANCE AdminForms
Csv == INSTANCE CsvImport
Autosave == INSTANCE DraftAutosave

\* Batches do not bear the names of the other holders of a number, nor words
\* those of what is not there
ASSUME NamesAssumption ==
    /\ MaxNumber \in Nat
    /\ Imports!Free \notin Batches /\ Imports!Draft \notin Batches
    /\ Words \cap {Autosave!NoDraft, Autosave!Asked, Autosave!Loaded} = {}

\* Limits and windows are there, and a lock lasts as long as the window its
\* failures are counted in (the two constants of auth/login/route.ts)
ASSUME LimitsAssumption ==
    /\ IsFiniteSet(Requests)
    /\ MaxFailures \in [Throttle!Keys -> Nat \ {0}] /\ Window \in [Throttle!Keys -> Nat \ {0}]
    /\ MaxCount \in Nat \ {0} /\ Threshold \in Nat /\ Cooldown \in Nat

storeVars == <<disk, request>>
evidenceVars == <<stage, evidence>>
importVars == <<holder, batch, listed, withdrawn>>
loginVars == <<attempts, failures, locked, login>>
reminderVars == <<finding, settings, page, staffed, poll, quiet, early>>
supportVars == <<thread, messages, view, sending>>
formVars == <<form, row, list, dialog>>
csvVars == <<open, rows, cancelled, run, results, created>>
autosaveVars == <<draft, window, sent, finished>>
vars == <<part, calm, storeVars, evidenceVars, importVars, loginVars, reminderVars,
          supportVars, formVars, csvVars, autosaveVars>>

Init ==
    /\ part \in {"evidence", "imports", "logins", "reminders", "support", "forms", "csv", "autosave"}
    /\ Evidence!FilesInit /\ Imports!HistoryInit /\ Throttle!ThrottleInit
    /\ Reminding!RemindersInit /\ Support!SupportInit /\ Forms!FormsInit /\ Csv!CsvInit
    /\ Autosave!AutosaveInit
    \* The parts that stand still start in one way only
    /\ part \in {"support", "forms", "csv"} => calm
    /\ part # "reminders" => staffed
    /\ part # "forms" => form = Forms!DistrictsPage

\* A step of one part leaves the others' variables alone
InEvidence(A) ==
    /\ part = "evidence" /\ A
    /\ UNCHANGED <<part, importVars, loginVars, reminderVars, supportVars, formVars, csvVars, autosaveVars>>
InImports(A) ==
    /\ part = "imports" /\ A
    /\ UNCHANGED <<part, evidenceVars, loginVars, reminderVars, supportVars, formVars, csvVars, autosaveVars>>
InLogins(A) ==
    /\ part = "logins" /\ A
    /\ UNCHANGED <<part, storeVars, evidenceVars, importVars, reminderVars, supportVars, formVars, csvVars, autosaveVars>>
InReminders(A) ==
    /\ part = "reminders" /\ A
    /\ UNCHANGED <<part, storeVars, evidenceVars, importVars, loginVars, supportVars, formVars, csvVars, autosaveVars>>
InSupport(A) ==
    /\ part = "support" /\ A
    /\ UNCHANGED <<part, calm, storeVars, evidenceVars, importVars, loginVars, reminderVars, formVars, csvVars, autosaveVars>>
InForms(A) ==
    /\ part = "forms" /\ A
    /\ UNCHANGED <<part, calm, storeVars, evidenceVars, importVars, loginVars, reminderVars, supportVars, csvVars, autosaveVars>>
InCsv(A) ==
    /\ part = "csv" /\ A
    /\ UNCHANGED <<part, calm, storeVars, evidenceVars, importVars, loginVars, reminderVars, supportVars, formVars, autosaveVars>>
InAutosave(A) ==
    /\ part = "autosave" /\ A
    /\ UNCHANGED <<part, storeVars, evidenceVars, importVars, loginVars, reminderVars, supportVars, formVars, csvVars>>

Next ==
    \/ InEvidence(Evidence!FilesNext)
    \/ InImports(Imports!HistoryNext)
    \/ InLogins(Throttle!ThrottleNext)
    \/ InReminders(Reminding!RemindersNext)
    \/ InSupport(Support!SupportNext)
    \/ InForms(Forms!FormsNext)
    \/ InCsv(Csv!CsvNext)
    \/ InAutosave(Autosave!AutosaveNext)

\* Time passes whatever else goes on, a login that has counted finishes, and
\* somebody's bell polls
Fairness ==
    /\ SF_vars(InLogins(Throttle!Tick))
    /\ \A r \in Requests : WF_vars(InLogins(Throttle!FollowUp(r)))
    /\ WF_vars(InReminders(Reminding!Pass))
    /\ \A p \in Pollers : WF_vars(InReminders(Reminding!Poll(p)))

Spec == Init /\ [][Next]_vars /\ Fairness

-----------------------------------------------------------------------------
(* The properties, as their modules state them                             *)

\* Every part's tables keep their shape.
TypeOK ==
    /\ part = "evidence" => Evidence!TypeOK
    /\ part = "imports" => Imports!TypeOK
    /\ Throttle!TypeOK /\ Reminding!TypeOK /\ Support!TypeOK

\* Evidence and imports: whatever row is listed, its file is there, through
\* refused, overlapping and crashed uploads, removals, reversals and cleanups -
\* a cleanup that meets no upload and no import; and the history of imports
\* offers nothing its routes refuse.
FilesFollowRows ==
    /\ Evidence!RowsHaveFiles
    /\ Imports!BatchesHaveFiles
    /\ Imports!HistoryOffersWork

\* Imports: "removed reference numbers are never reissued", as long as no
\* registration is overtaken between its read and its commit.
NumbersStayRetired == calm => Imports!NumbersStayRetired

\* Logins and reminders: overlapping wrong passwords are counted and bounded,
\* and every counter expires; nobody is reminded of a finding twice inside one
\* window, as long as no two scans overlap.
LimitsHold ==
    /\ Throttle!GuessesBounded /\ Throttle!CountersExpire
    /\ calm => Reminding!RemindersSpaced

\* Logins and reminders: whoever is locked out is let in again, and a waiting
\* finding is reminded of again and again.
WaitingEnds == Throttle!LocksLift /\ Reminding!WaitingIsReminded

\* Conversations: a resolved one is opened by its owner's rating, or by a
\* message that had read it open.  Forms: an administrator's stale list never
\* switches a row to what nobody's page announced, nothing deleted comes back,
\* what an import of a file says was added was, once; and the copy of a
\* registration that is being typed is what was typed, and gone when it was
\* registered.
FormsKeepTheirWord ==
    /\ Support!ResolvedStands
    /\ Forms!StandingAsAnnounced /\ Forms!DeletedStaysGone
    /\ []Csv!ResultsTrue
    /\ [](calm => Autosave!CopyFollowsForm)

\* Imports: no number of a removed finding is reissued, at any overlap (one is).
NoNumberReissued == Imports!NumbersStayRetired

\* Reminders: nobody is reminded of a finding twice in one window, at any
\* overlap of two scans (they are).
NoEarlyReminder == Reminding!RemindersSpaced
=============================================================================
