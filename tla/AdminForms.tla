----------------------------- MODULE AdminForms -----------------------------
(***************************************************************************)
(* The administration's pages, in the browsers of several administrators:  *)
(* a list loaded once, an edit form filled from it, and buttons that say   *)
(* what they will do by what the list says.  Nothing tells a page that its *)
(* list is out of date; the routes take what is sent (their own rules are  *)
(* Organisation's, Scoring's and Access's) or refuse it.                   *)
(*                                                                         *)
(* One row of one list.  Its columns are its name; its content, where the  *)
(* row belongs or what it grants or counts; its standing, ACTIVE, OPEN or  *)
(* live; and a second switch, scored, the default, or drafts allowed.      *)
(***************************************************************************)
EXTENDS Naturals, FiniteSets

CONSTANT Admins

VARIABLES
    form,     \* which page's list it is
    row,      \* the row, or Gone
    list,     \* list[a]: the row as a's page shows it
    dialog    \* dialog[a]: the form or the question a has open

formVars == <<form, row, list, dialog>>

Texts == {"name", "content"}
Switches == {"standing", "flag"}
Columns == Texts \cup Switches
Gone == [is |-> "gone"]
Closed == [is |-> "closed"]
Versions == 0..1

-----------------------------------------------------------------------------
(* The pages: what Save sends, which switches a row has, after which       *)
(* clicks it asks first, and whether turning it off is a lock, whose own   *)
(* dialog sets the second switch too.                                      *)

NameOnly == {"name"}
Deactivation == {<<"standing", FALSE>>}

DistrictsPage == [sends |-> NameOnly, switches |-> {"standing"}, asks |-> Deactivation, locks |-> FALSE]
BranchesPage == [sends |-> Texts, switches |-> {"standing"}, asks |-> Deactivation, locks |-> FALSE]
DepartmentsPage == [sends |-> Texts, switches |-> {"standing"}, asks |-> Deactivation, locks |-> FALSE]
CategoriesPage ==
    [sends |-> NameOnly, switches |-> Switches,
     asks |-> Deactivation \cup {<<"flag", TRUE>>, <<"flag", FALSE>>}, locks |-> FALSE]
SourcesPage == [sends |-> NameOnly, switches |-> Switches, asks |-> Deactivation, locks |-> FALSE]
UncoveredReasonsPage == [sends |-> NameOnly, switches |-> {"standing"}, asks |-> Deactivation, locks |-> FALSE]
UsersPage == [sends |-> Texts, switches |-> {"standing"}, asks |-> Deactivation, locks |-> FALSE]
RolesPage == [sends |-> Texts, switches |-> {"standing"}, asks |-> Deactivation, locks |-> FALSE]
ScoringRulesPage ==
    [sends |-> Texts, switches |-> {"standing"}, asks |-> {<<"standing", TRUE>>, <<"standing", FALSE>>}, locks |-> FALSE]

\* A period's form is its rename, its window or its dates; the drafts flag can
\* be changed alone while the list shows the period locked.
ReportingPeriodsPage ==
    [sends |-> Texts, switches |-> Switches,
     asks |-> {<<"standing", TRUE>>, <<"standing", FALSE>>, <<"flag", TRUE>>, <<"flag", FALSE>>}, locks |-> TRUE]

\* One form for everything, the switches included
SettingsPage == [sends |-> Columns, switches |-> {}, asks |-> {}, locks |-> FALSE]

Pages == {DistrictsPage, BranchesPage, DepartmentsPage, CategoriesPage, SourcesPage,
          UncoveredReasonsPage, UsersPage, RolesPage, ScoringRulesPage,
          ReportingPeriodsPage, SettingsPage}

FormsInit ==
    /\ form \in Pages
    /\ row = [name |-> 0, content |-> 0, standing |-> TRUE, flag |-> FALSE]
    /\ list = [a \in Admins |-> row]
    /\ dialog = [a \in Admins |-> Closed]

-----------------------------------------------------------------------------
Opens(a, what) == dialog' = [dialog EXCEPT ![a] = what]

\* After a success the page loads its list again, after an error it does not
Answered(a, ok) ==
    /\ list' = IF ok THEN [list EXCEPT ![a] = row'] ELSE list
    /\ UNCHANGED form

LoadPage(a) ==
    /\ list' = [list EXCEPT ![a] = row]
    /\ Opens(a, Closed)
    /\ UNCHANGED <<form, row>>

Shows(a) == dialog[a] = Closed /\ list[a] # Gone

StartEdit(a) ==
    /\ Shows(a)
    /\ Opens(a, [is |-> "edit", draft |-> [c \in form.sends |-> list[a][c]]])
    /\ UNCHANGED <<form, row, list>>

Type(a, c, v) ==
    /\ dialog[a].is = "edit" /\ c \in form.sends
    /\ dialog' = [dialog EXCEPT ![a].draft[c] = v]
    /\ UNCHANGED <<form, row, list>>

Patched(values) == [c \in Columns |-> IF c \in DOMAIN values THEN values[c] ELSE row[c]]

\* The form stays open over an error
SaveEdit(a) ==
    /\ dialog[a].is = "edit"
    /\ \/ /\ row # Gone
          /\ row' = Patched(dialog[a].draft)
          /\ Opens(a, Closed) /\ Answered(a, TRUE)
       \/ UNCHANGED <<row, dialog>> /\ Answered(a, FALSE)

\* The fault: the route is told to switch, not what to
SwitchedBack(values) == Patched([c \in DOMAIN values |-> ~row[c]])

Switched(values) == Patched(values)

SendSwitch(a, values) ==
    /\ Opens(a, Closed)
    /\ \/ row # Gone /\ row' = Switched(values) /\ Answered(a, TRUE)
       \/ UNCHANGED row /\ Answered(a, FALSE)

Offered(a, s) ==
    /\ Shows(a) /\ s \in form.switches
    /\ form.locks /\ s = "flag" => ~list[a].standing

\* A button says, and sends, the opposite of what the list shows; the dialog
\* about a lock asks whether it allows drafts.
Values(a, s, drafts) ==
    CASE form.locks /\ s = "flag" -> [flag |-> drafts]
      [] form.locks /\ s = "standing" /\ list[a].standing -> [standing |-> FALSE, flag |-> drafts]
      [] OTHER -> [c \in {s} |-> ~list[a][s]]

ClickSwitch(a, s, drafts) ==
    /\ Offered(a, s)
    /\ IF <<s, ~list[a][s]>> \in form.asks
       THEN Opens(a, [is |-> "switch", values |-> Values(a, s, drafts)]) /\ UNCHANGED <<form, row, list>>
       ELSE SendSwitch(a, Values(a, s, drafts))

ConfirmSwitch(a) == dialog[a].is = "switch" /\ SendSwitch(a, dialog[a].values)

AskDelete(a) ==
    /\ Shows(a) /\ form # SettingsPage
    /\ Opens(a, [is |-> "delete"])
    /\ UNCHANGED <<form, row, list>>

ConfirmDelete(a) ==
    /\ dialog[a].is = "delete"
    /\ Opens(a, Closed)
    /\ \/ row # Gone /\ row' = Gone /\ Answered(a, TRUE)
       \/ UNCHANGED row /\ Answered(a, FALSE)

Cancel(a) ==
    /\ dialog[a] # Closed
    /\ Opens(a, Closed)
    /\ UNCHANGED <<form, row, list>>

FormsNext ==
    \E a \in Admins :
        \/ LoadPage(a) \/ StartEdit(a) \/ SaveEdit(a)
        \/ \E c \in Texts, v \in Versions : Type(a, c, v)
        \/ \E s \in Switches, v \in BOOLEAN : Type(a, s, v)
        \/ \E s \in Switches, drafts \in BOOLEAN : ClickSwitch(a, s, drafts)
        \/ ConfirmSwitch(a) \/ AskDelete(a) \/ ConfirmDelete(a) \/ Cancel(a)

-----------------------------------------------------------------------------
\* What a's page says a click on it, or on the open dialog, will do to a switch
Announced(a, s, to) ==
    \/ dialog[a].is = "switch" /\ s \in DOMAIN dialog[a].values /\ dialog[a].values[s] = to
    \/ dialog[a].is = "edit" /\ s \in form.sends /\ dialog[a].draft[s] = to
    \/ Offered(a, s) /\ list[a][s] = ~to

Acts(a) == list'[a] # list[a] \/ dialog'[a] # dialog[a]

\* A row is activated, locked, made live or the default only by somebody
\* whose page said so: two who both click Deactivate on lists of different
\* age leave it inactive, and no edit form carries a switch along.
StandingAsAnnounced ==
    [][(row # Gone /\ row' # Gone) =>
         \A s \in Switches : row'[s] # row[s] =>
             \E a \in Admins : Acts(a) /\ Announced(a, s, row'[s])]_formVars

\* A row that was deleted does not come back by what was still open on it.
DeletedStaysGone == [][row = Gone => row' = Gone]_formVars

\* A save changes nothing its author's list did not show otherwise: it does
\* not hold where the form sends more than was typed, and undoes what somebody
\* else has changed meanwhile.
OnlyWhatWasTyped ==
    [][(row # Gone /\ row' # Gone) =>
         \A c \in Columns : row'[c] # row[c] =>
             \E a \in Admins : Acts(a) /\ list[a] # Gone /\ list[a][c] # row'[c]]_formVars
=============================================================================
