--------------------------- MODULE SupportThreads ---------------------------
(***************************************************************************)
(* One support conversation: its owner writes and rates, the holders of    *)
(* support.respond answer (the routes under api/support, SupportClient,    *)
(* AdminSupportClient).  The pages poll, so each side acts on what its     *)
(* page last loaded.  A message is checked on its route's first read; the   *)
(* update after it reads again, and its commit rewrites the whole row of   *)
(* the thread, its status too, from that read.  No audit entry is written  *)
(* beside it, so that nothing refuses a commit that was overtaken.  Who is *)
(* notified of a message is left out.                                      *)
(***************************************************************************)
EXTENDS Naturals, Sequences

CONSTANTS
    Requests,
    MaxMessages    \* bound: messages of the conversation

VARIABLES
    thread,    \* the row of support_threads
    messages,  \* who wrote each message
    view,      \* view[s]: what side s has on its page
    sending    \* sending[r]: the message or the rating request r has still to commit

supportVars == <<thread, messages, view, sending>>

Sides == {"owner", "support"}
NoThread == [status |-> "NONE", rating |-> 0]
NoRating == 0
Nothing == [is |-> "nothing"]
Unseen == [status |-> "NONE", last |-> "nobody"]

SupportInit ==
    /\ thread = NoThread /\ messages = <<>>
    /\ view = [s \in Sides |-> Unseen]
    /\ sending = [r \in Requests |-> Nothing]

-----------------------------------------------------------------------------
(* The routes *)

\* POST of api/support
CreateThread ==
    /\ thread = NoThread
    /\ thread' = [status |-> "OPEN", rating |-> NoRating]
    /\ messages' = <<"owner">>
    /\ UNCHANGED <<view, sending>>

CanPost == thread.status = "OPEN"

\* POST of a message, up to its update; the form is on a page that shows the
\* conversation as open
Post(r, s) ==
    /\ view[s].status = "OPEN" /\ CanPost
    /\ sending[r] = Nothing /\ Len(messages) < MaxMessages
    /\ sending' = [sending EXCEPT ![r] = [is |-> "message", by |-> s]]
    /\ UNCHANGED <<thread, messages, view>>

\* What storing a message makes of the thread; the fault opens it again
FollowedUpReopened(t, s) ==
    IF s = "owner" THEN [status |-> "OPEN", rating |-> NoRating] ELSE t

FollowedUp(t, s) == IF s = "owner" THEN [t EXCEPT !.rating = NoRating] ELSE t

\* The update's read of the thread, which is not checked again
Read(r) ==
    /\ sending[r].is = "message"
    /\ sending' = [sending EXCEPT ![r] = [is |-> "storing", by |-> sending[r].by, read |-> thread]]
    /\ UNCHANGED <<thread, messages, view>>

\* Its commit
Store(r) ==
    /\ sending[r].is = "storing" /\ Len(messages) < MaxMessages
    /\ messages' = Append(messages, sending[r].by)
    /\ thread' = FollowedUp(sending[r].read, sending[r].by)
    /\ sending' = [sending EXCEPT ![r] = Nothing]
    /\ UNCHANGED view

GiveUp(r) ==
    /\ sending[r] # Nothing
    /\ sending' = [sending EXCEPT ![r] = Nothing]
    /\ UNCHANGED <<thread, messages, view>>

\* POST of a rating: the owner alone, whatever the status
Rate(r, stars) ==
    /\ view["owner"].status = "OPEN" /\ view["owner"].last = "support"
    /\ sending[r] = Nothing
    /\ sending' = [sending EXCEPT ![r] = [is |-> "rating", stars |-> stars]]
    /\ UNCHANGED <<thread, messages, view>>

\* It writes both columns, whatever its update read
Rated(stars) == [status |-> IF stars = 5 THEN "RESOLVED" ELSE "OPEN", rating |-> stars]

StoreRating(r) ==
    /\ sending[r].is = "rating"
    /\ thread' = Rated(sending[r].stars)
    /\ sending' = [sending EXCEPT ![r] = Nothing]
    /\ UNCHANGED <<messages, view>>

-----------------------------------------------------------------------------
(* The pages *)

Load(s) ==
    /\ thread # NoThread
    /\ view' = [view EXCEPT ![s] = [status |-> thread.status, last |-> messages[Len(messages)]]]
    /\ UNCHANGED <<thread, messages, sending>>

SupportNext ==
    \/ CreateThread
    \/ \E r \in Requests :
        \/ \E s \in Sides : Post(r, s)
        \/ Read(r) \/ Store(r) \/ StoreRating(r) \/ GiveUp(r)
        \/ \E stars \in {3, 5} : Rate(r, stars)
    \/ \E s \in Sides : Load(s)

-----------------------------------------------------------------------------
TypeOK ==
    /\ thread.status \in {"NONE", "OPEN", "RESOLVED"} /\ thread.rating \in 0..5
    /\ messages \in Seq(Sides)

\* r's commit, of a rating that makes the status that, or of a message that
\* read the thread with that status
Makes(r, status) ==
    /\ sending[r] # Nothing /\ sending'[r] = Nothing
    /\ \/ sending[r].is = "rating" /\ Rated(sending[r].stars).status = status
       \/ sending[r].is = "storing" /\ sending[r].read.status = status

\* "A 5-star rating closes the thread" (rate/route.ts): a resolved thread is
\* opened by its owner's rating it again, or by a message whose update read it
\* before it was resolved and commits after; a message that was on its way and
\* read it later leaves it resolved.  Nor is it closed but by five stars, or
\* by a message that read it closed.
ResolvedStands ==
    [][\A status \in {"OPEN", "RESOLVED"} :
         thread # NoThread /\ thread.status # status /\ thread'.status = status
            => \E r \in Requests : Makes(r, status)]_supportVars
=============================================================================
