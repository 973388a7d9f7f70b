---------------------------- MODULE DraftAutosave ----------------------------
(***************************************************************************)
(* The copy of a registration that is being typed: one tab of one user     *)
(* with the form for a new finding, and the copy Redis keeps for a day.    *)
(* What the form holds is one word: its fields are not told apart, and the *)
(* date, which never counts, is left out.  One tab of the user's has the   *)
(* form open at a time; a second would write over the same copy.           *)
(*                                                                         *)
(* While `calm`, requests arrive, in order, and the user waits: for the    *)
(* form to load before typing, for the autosave before Save, for Save's    *)
(* answer before leaving and the page it leads to, and never for a day.    *)
(***************************************************************************)
EXTENDS Naturals, SequencesExt

CONSTANTS Words,      \* what a form can hold when it is not blank
          MaxSent     \* how many autosave requests may be under way

VARIABLES
    calm,       \* whether all that holds
    draft,      \* the copy in Redis, or NoDraft
    window,     \* the form on the screen, or Shut
    sent,       \* the autosave requests under way
    finished    \* what was registered and not typed again since

autosaveVars == <<draft, window, sent, finished>>

NoDraft == [is |-> "none"]
Blank == [is |-> "blank"]
Shut == [is |-> "shut"]
Asked == [is |-> "asked"]
Loaded == [is |-> "loaded"]

Contents == Words \cup {Blank}

Keep(text) == [is |-> "PATCH", text |-> text]
Drop == [is |-> "DELETE"]
Ask == [is |-> "GET"]

AutosaveInit ==
    /\ draft = NoDraft /\ window = Shut
    /\ sent = <<>> /\ finished = {}

-----------------------------------------------------------------------------
(* The route: three operations on one key                                  *)

\* A GET that fails answers that there is no draft, as one that finds none
Handled(m, done) ==
    /\ draft' = CASE m.is = "PATCH" /\ done -> m.text
                  [] m.is = "DELETE" /\ done -> NoDraft
                  [] OTHER -> draft
    /\ window' = IF m = Ask THEN [window EXCEPT !.load = IF done THEN draft ELSE NoDraft] ELSE window

Handle(i) ==
    /\ i \in DOMAIN sent /\ (calm => i = 1)
    /\ Handled(sent[i], TRUE)
    /\ sent' = RemoveAt(sent, i)
    /\ UNCHANGED <<calm, finished>>

\* Redis or the network is down: nobody who types is told
Lose(i) ==
    /\ ~calm /\ i \in DOMAIN sent
    /\ Handled(sent[i], FALSE)
    /\ sent' = RemoveAt(sent, i)
    /\ UNCHANGED <<calm, finished>>

\* A day after the last PATCH
Expire ==
    /\ draft # NoDraft
    /\ calm => window = Shut
    /\ draft' = NoDraft
    /\ UNCHANGED <<calm, window, sent, finished>>

-----------------------------------------------------------------------------
(* The form                                                                *)

HasInput(text) == text \notin {Blank, window.pristine}

Sends(m) == Len(sent) < MaxSent /\ sent' = Append(sent, m)
OnScreen == window # Shut
Ready == OnScreen /\ (calm => window.load = Loaded)

\* The defaults an administrator has set are there from the start, and the
\* timer runs over them
Open(defaults) ==
    /\ ~OnScreen
    /\ window' = [form |-> defaults, pristine |-> defaults, load |-> Asked, banner |-> FALSE,
                  timer |-> TRUE, kept |-> FALSE, save |-> "no"]
    /\ Sends(Ask)
    /\ UNCHANGED <<calm, draft, finished>>

\* A draft replaces what the form holds, and is not saved straight back; one
\* with nothing but defaults is dropped.
Restore ==
    /\ OnScreen /\ window.load \notin {Asked, Loaded}
    /\ \/ /\ window.load = NoDraft
          /\ window' = [window EXCEPT !.load = Loaded]
          /\ UNCHANGED sent
       \/ /\ window.load # NoDraft /\ ~HasInput(window.load)
          /\ window' = [window EXCEPT !.load = Loaded]
          /\ Sends(Drop)
       \/ /\ window.load # NoDraft /\ HasInput(window.load)
          /\ window' = [window EXCEPT !.form = window.load, !.load = Loaded, !.banner = TRUE,
                                      !.timer = FALSE, !.kept = TRUE]
          /\ UNCHANGED sent
    /\ UNCHANGED <<calm, draft, finished>>

Type(text) ==
    /\ Ready /\ text # window.form
    /\ window' = [window EXCEPT !.form = text, !.timer = TRUE]
    /\ finished' = finished \ {text}
    /\ UNCHANGED <<calm, draft, sent>>

\* 0.8 seconds after the last change; the form that was left for the page of
\* the new finding is still there until that page is.
AutosaveTick ==
    /\ OnScreen /\ window.timer
    /\ LET input == HasInput(window.form)
       IN  /\ window' = [window EXCEPT !.timer = FALSE, !.kept = input]
           /\ \/ input /\ Sends(Keep(window.form))
              \/ ~input /\ window.kept /\ Sends(Drop)
              \/ ~input /\ ~window.kept /\ UNCHANGED sent
    /\ UNCHANGED <<calm, draft, finished>>

\* Discard, on the banner: the form as it first was, without a timer
Discard ==
    /\ Ready /\ window.banner
    /\ window' = [window EXCEPT !.form = window.pristine, !.banner = FALSE, !.timer = FALSE, !.kept = FALSE]
    /\ Sends(Drop)
    /\ UNCHANGED <<calm, draft, finished>>

\* The finding is registered, as a draft or submitted, or refused; a breakdown
\* that does not add up is not sent.  The buttons are back with the answer,
\* while the next page is still on its way.
Save ==
    /\ Ready /\ window.save \in {"no", "left"}
    /\ calm => window.save = "no" /\ ~window.timer
    /\ \/ /\ window' = [window EXCEPT !.save = "taken"]
          /\ finished' = finished \cup {window.form}
       \/ /\ window' = [window EXCEPT !.save = "refused"]
          /\ UNCHANGED finished
    /\ UNCHANGED <<calm, draft, sent>>

\* Registered: the copy is dropped, and the finding's page asked for
Finished ==
    /\ OnScreen /\ window.save = "taken"
    /\ window' = [window EXCEPT !.save = "left"]
    /\ Sends(Drop)
    /\ UNCHANGED <<calm, draft, finished>>

\* An error leaves the form as it is, and so does an answer that was lost
Failed ==
    /\ OnScreen
    /\ window.save = "refused" \/ (~calm /\ window.save = "taken")
    /\ window' = [window EXCEPT !.save = "no"]
    /\ UNCHANGED <<calm, draft, sent, finished>>

\* The next page, a refresh, a closed tab, a power failure: the answer to the
\* one GET that may be under way finds nobody.
Leave ==
    /\ OnScreen
    /\ calm => window.save \in {"no", "left"}
    /\ window' = Shut
    /\ \/ \E i \in DOMAIN sent : sent[i] = Ask /\ sent' = RemoveAt(sent, i)
       \/ (\A i \in DOMAIN sent : sent[i] # Ask) /\ UNCHANGED sent
    /\ UNCHANGED <<calm, draft, finished>>

AutosaveNext ==
    \/ \E i \in 1..MaxSent : Handle(i) \/ Lose(i)
    \/ \E text \in Contents : Open(text) \/ Type(text)
    \/ Expire \/ Restore \/ AutosaveTick \/ Discard
    \/ Save \/ Finished \/ Failed \/ Leave

-----------------------------------------------------------------------------
AtRest == OnScreen /\ window.load = Loaded /\ ~window.timer /\ window.save = "no"

\* The copy is what a power failure would lose, and nothing else: once the
\* form is loaded and the timer and the requests are through, it is what was
\* typed, and there is none of untouched defaults; and none is left of what
\* was registered.
CopyFollowsForm ==
    sent = <<>> =>
        /\ AtRest => draft = IF HasInput(window.form) THEN window.form ELSE NoDraft
        /\ ~OnScreen \/ window.save = "left" => draft \notin finished
=============================================================================
