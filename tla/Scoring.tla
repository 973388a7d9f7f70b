------------------------------ MODULE Scoring -------------------------------
(***************************************************************************)
(* Scoring rule versions, classified categories, finding sources and the   *)
(* per-template source filter of the settings: app/api/admin/              *)
(* {scoring-rules,categories,sources,settings} and the normalisation of    *)
(* default sources in lib/db.ts.                                           *)
(*                                                                         *)
(* A route checks against readDb() and writes inside a later updateDb().   *)
(* The audit sequence serialises the writes (AuditedStore!LogFirstIsSafe), *)
(* so what can come between is another request's whole write.  One request *)
(* at a time is followed in two steps, `waiting` between its checks and    *)
(* its write; the others run whole, before, between and after.             *)
(* The actor holds every permission of these pages.                        *)
(***************************************************************************)
EXTENDS Naturals, FiniteSets

CONSTANTS Categories,   \* ids of classified categories
          Sources,      \* ids of finding sources
          Rules,        \* ids of scoring rule versions
          UsedSources,  \* sources some finding names (Finding.sourceId is a foreign key)
          Filters       \* the source filters the settings page is asked to save

VARIABLES category,     \* [Categories -> {"gone", "ACTIVE", "INACTIVE"}]
          source,       \* [Sources -> {Nothing} or [active, isDefault]]
          rule,         \* [Rules -> {Nothing} or a version]
          template,     \* the sources one report template is limited to
          waiting       \* the request between its checks and its write

vars == <<category, source, rule, template, waiting>>

Nothing == [exists |-> FALSE]
Nobody == [kind |-> "none"]

Contents == [categories: SUBSET Categories \ {{}}, sources: SUBSET Sources \ {{}}]
Version == [active: BOOLEAN, everActivated: BOOLEAN, contents: Contents]
SourceRow == [active: BOOLEAN, isDefault: BOOLEAN]
Request == [kind: {"edit"}, of: Rules, to: Contents] \cup [kind: {"delete"}, of: Rules]
             \cup [kind: {"default", "dropSource"}, of: Sources]
             \cup [kind: {"dropCategory"}, of: Categories]

Known == [categories |-> {c \in Categories : category[c] # "gone"},
          sources    |-> {s \in Sources : source[s] # Nothing}]
Versions == {v \in Rules : rule[v] # Nothing}

Init ==
    /\ category = [c \in Categories |-> "ACTIVE"]
    /\ source = [s \in Sources |-> [active |-> TRUE, isDefault |-> FALSE]]
    /\ rule = [v \in Rules |-> Nothing]
    /\ template = {}
    /\ waiting = Nobody

-----------------------------------------------------------------------------
(* Scoring rule versions                                                   *)

\* Fault: the versions already live are left alone.
GoneLiveBeside(v, table) == [table EXCEPT ![v].active = TRUE, ![v].everActivated = TRUE]

\* activateNow and {active: true}: this version goes live and every other one stops.
GoneLive(v, table) ==
    [w \in Rules |->
        IF table[w] = Nothing THEN Nothing
        ELSE [table[w] EXCEPT !.active = (w = v), !.everActivated = @ \/ w = v]]

\* The schema asks for a category and a source but nobody asks whether they exist.
CreateVersion(v, contents, activateNow) ==
    /\ v \notin Versions
    /\ LET draft == [rule EXCEPT ![v] = [active |-> FALSE, everActivated |-> FALSE, contents |-> contents]]
       IN rule' = IF activateNow THEN GoneLive(v, draft) ELSE draft
    /\ UNCHANGED <<category, source, template, waiting>>

Activate(v) ==
    /\ v \in Versions
    /\ rule' = GoneLive(v, rule)
    /\ UNCHANGED <<category, source, template, waiting>>

Deactivate(v) ==
    /\ v \in Versions
    /\ rule' = [rule EXCEPT ![v].active = FALSE]
    /\ UNCHANGED <<category, source, template, waiting>>

\* Fault: only the version that is live now is protected.
NotLiveNow(v) == v \in Versions /\ ~rule[v].active

Editable(v) == v \in Versions /\ ~rule[v].everActivated

CanEditVersion(v, to) ==
    /\ Editable(v)
    /\ to.categories \subseteq Known.categories
    /\ to.sources \subseteq Known.sources

\* Fault: the row is replaced by what was sent instead of updated with it.
DoReplaceVersion(v, to) ==
    /\ rule' = [rule EXCEPT ![v] = [contents |-> to]]
    /\ UNCHANGED <<category, source, template>>

\* The mutator looks the row up again and fails when it has gone, changing nothing.
DoEditVersion(v, to) ==
    /\ v \in Versions
    /\ rule' = [rule EXCEPT ![v].contents = to]
    /\ UNCHANGED <<category, source, template>>

DoDeleteVersion(v) ==
    /\ rule' = [rule EXCEPT ![v] = Nothing]
    /\ UNCHANGED <<category, source, template>>

-----------------------------------------------------------------------------
(* Sources, categories, settings                                           *)

CreateSource(s) ==
    /\ source[s] = Nothing
    /\ source' = [source EXCEPT ![s] = [active |-> TRUE, isDefault |-> FALSE]]
    /\ UNCHANGED <<category, rule, template, waiting>>

\* Deactivating the default clears the flag as well.
ToggleSource(s, active) ==
    /\ source[s] # Nothing
    /\ source' = [source EXCEPT ![s] = [active |-> active, isDefault |-> active /\ @.isDefault]]
    /\ UNCHANGED <<category, rule, template, waiting>>

CanBeDefault(s) == source[s] # Nothing /\ source[s].active

\* Fault: the other rows keep their flag.
MadeDefaultToo(s) == [source EXCEPT ![s].isDefault = TRUE]

\* The write itself does not look at `active` again.
MadeDefault(s) ==
    [t \in Sources |-> IF source[t] = Nothing THEN Nothing ELSE [source[t] EXCEPT !.isDefault = (t = s)]]

DoMakeDefault(s) ==
    /\ source[s] # Nothing
    /\ source' = MadeDefault(s)
    /\ UNCHANGED <<category, rule, template>>

\* lib/db.ts: of several stored defaults, and of inactive ones, the readers see one
\* active row at most (the most recently updated: any of them here).
ReadAsDefault == {s \in Sources : CanBeDefault(s) /\ source[s].isDefault}

ClearDefault(s) ==
    /\ source[s] # Nothing
    /\ source' = [source EXCEPT ![s].isDefault = FALSE]
    /\ UNCHANGED <<category, rule, template, waiting>>

\* Fault: a version that has been superseded no longer counts.
NamingLive(unit) ==
    {v \in Versions : rule[v].active /\ unit \in rule[v].contents.categories \cup rule[v].contents.sources}

\* A unit any version names, live or not, may not be deleted.
Naming(unit) == {v \in Versions : unit \in rule[v].contents.categories \cup rule[v].contents.sources}

Unnamed(unit) == Naming(unit) = {}

CanDropSource(s) == source[s] # Nothing /\ Unnamed(s)

DoDropSource(s) ==
    /\ s \notin UsedSources
    /\ source' = [source EXCEPT ![s] = Nothing]
    /\ UNCHANGED <<category, rule, template>>

CreateCategory(c) ==
    /\ category[c] = "gone"
    /\ category' = [category EXCEPT ![c] = "ACTIVE"]
    /\ UNCHANGED <<source, rule, template, waiting>>

ToggleCategory(c, to) ==
    /\ category[c] # "gone"
    /\ category' = [category EXCEPT ![c] = to]
    /\ UNCHANGED <<source, rule, template, waiting>>

CanDropCategory(c) == category[c] # "gone" /\ Unnamed(c)

DoDropCategory(c) ==
    /\ category' = [category EXCEPT ![c] = "gone"]
    /\ UNCHANGED <<source, rule, template>>

\* The whole settings object is replaced; a source the filter names must exist.
SaveSettings(filter) ==
    /\ filter \subseteq Known.sources
    /\ template' = filter
    /\ UNCHANGED <<category, source, rule, waiting>>

-----------------------------------------------------------------------------
(* Requests                                                                *)

Passes(r) ==
    \/ r.kind = "edit" /\ CanEditVersion(r.of, r.to)
    \/ r.kind = "delete" /\ Editable(r.of)
    \/ r.kind = "default" /\ CanBeDefault(r.of)
    \/ r.kind = "dropSource" /\ CanDropSource(r.of)
    \/ r.kind = "dropCategory" /\ CanDropCategory(r.of)

Write(r) ==
    \/ r.kind = "edit" /\ DoEditVersion(r.of, r.to)
    \/ r.kind = "delete" /\ DoDeleteVersion(r.of)
    \/ r.kind = "default" /\ DoMakeDefault(r.of)
    \/ r.kind = "dropSource" /\ DoDropSource(r.of)
    \/ r.kind = "dropCategory" /\ DoDropCategory(r.of)

Whole(r) == Passes(r) /\ Write(r) /\ UNCHANGED waiting

Begin(r) ==
    /\ waiting = Nobody
    /\ Passes(r)
    /\ waiting' = r
    /\ UNCHANGED <<category, source, rule, template>>

Finish ==
    /\ waiting # Nobody
    /\ Write(waiting)
    /\ waiting' = Nobody

\* The mutator throws, or the foreign key refuses the delete: nothing is written.
Fail ==
    /\ waiting # Nobody
    /\ waiting' = Nobody
    /\ UNCHANGED <<category, source, rule, template>>

Next ==
    \/ \E v \in Rules, contents \in Contents, now \in BOOLEAN : CreateVersion(v, contents, now)
    \/ \E v \in Rules : Activate(v) \/ Deactivate(v)
    \/ \E s \in Sources : CreateSource(s) \/ ClearDefault(s) \/ \E on \in BOOLEAN : ToggleSource(s, on)
    \/ \E c \in Categories : CreateCategory(c) \/ \E to \in {"ACTIVE", "INACTIVE"} : ToggleCategory(c, to)
    \/ \E filter \in Filters : SaveSettings(filter)
    \/ \E r \in Request : Whole(r) \/ Begin(r)
    \/ Finish
    \/ Fail

Spec == Init /\ [][Next]_vars

-----------------------------------------------------------------------------
(* Properties                                                              *)

\* Every row has the shape the schema and the routes give it.
TypeOK ==
    /\ category \in [Categories -> {"gone", "ACTIVE", "INACTIVE"}]
    /\ source \in [Sources -> {Nothing} \cup SourceRow]
    /\ rule \in [Rules -> {Nothing} \cup Version]
    /\ template \in SUBSET Sources
    /\ waiting \in {Nobody} \cup Request

\* At most one version is live, whichever way versions are created, activated and
\* edited over each other, and a live version is on record as having been live:
\* scoring always has one answer (lib/findings.ts reads "the" active rule).
OneActiveRule ==
    /\ Cardinality({v \in Versions : rule[v].active}) <= 1
    /\ \A v \in Versions : rule[v].active => rule[v].everActivated

\* At most one stored source is marked as the default, even when a source is
\* deactivated or deleted between the check and the write of a request that makes
\* it the default, so readers never have to pick among several.
OneDefaultSource == Cardinality({s \in Sources : source[s] # Nothing /\ source[s].isDefault}) <= 1

\* A version that has been live keeps its contents and is never deleted: earlier
\* periods reconcile against it.  The one exception is a request about this very
\* version that passed its check while it was a draft.
LiveVersionStands ==
    [][\A v \in Versions :
        rule[v].everActivated =>
            \/ waiting # Nobody /\ waiting' = Nobody /\ waiting.kind \in {"edit", "delete"} /\ waiting.of = v
            \/ /\ rule'[v] # Nothing
               /\ rule'[v].everActivated
               /\ rule'[v].contents = rule[v].contents]_vars

\* What a version names and what exists stays: neither a category nor a source
\* disappears under a rule version, however old, except by a request that had
\* counted the versions before this one named it.
NamedUnitsStay ==
    [][\A v \in Versions :
        LET gone(unit) == waiting # Nobody /\ waiting' = Nobody
                            /\ waiting.kind \in {"dropSource", "dropCategory"} /\ waiting.of = unit
        IN  /\ \A c \in rule[v].contents.categories \cap Known.categories : category'[c] # "gone" \/ gone(c)
            /\ \A s \in rule[v].contents.sources \cap Known.sources : source'[s] # Nothing \/ gone(s)]_vars

\* scoring-rules/[id]/route.ts: "a version that ever went live can only be superseded
\* by a new one, never rewritten".  It can: a draft edit that is between its check and
\* its write when the version is activated rewrites the live version.
LiveVersionFrozen ==
    [][\A v \in Versions :
        rule[v].everActivated => rule'[v] # Nothing /\ rule'[v].contents = rule[v].contents]_vars
=============================================================================
