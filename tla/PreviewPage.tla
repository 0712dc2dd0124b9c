----------------------------- MODULE PreviewPage -----------------------------
(***************************************************************************)
(* The preview on the home page (src/web/src/preview.tsx): one link at a   *)
(* time is posted to /api/embed; Cloudflare may answer with a challenge,   *)
(* for which a Turnstile widget is loaded and executed and the link posted *)
(* again with its token.  Actions are the page's events: a submitted form, *)
(* an answer, a rejected fetch, the end of the script's load, the widget's *)
(* callbacks.                                                              *)
(*                                                                         *)
(* An abort rejects a fetch in a microtask, before any other event.        *)
(* (While the answer's text is being read it does so in a networking task; *)
(* a newer verification comes of a later answer, whose task is behind that *)
(* one, so that what a cleanup could disturb is not there yet.)  The       *)
(* loading sign stands as long as previewAbort holds a call; texts, the    *)
(* message's animation and the unmounted page are left out.                *)
(***************************************************************************)
EXTENDS Integers, FiniteSets

CONSTANT MaxSubmits   \* bound on submitted forms

ASSUME PageAssumption == MaxSubmits \in Nat

VARIABLES
    submitted,  \* forms submitted, and lastPostId: each is a link of its own
    pending,    \* pendingPath, 0 for null
    verifying,
    attempt,    \* verificationAttempt
    owner,      \* history: the attempt that set pending
    loads,      \* attempts still waiting for Turnstile to load
    widget,     \* the widget, "none" before its first render
    calls,      \* runPreview calls under way
    current     \* previewAbort: the call it would abort

pageVars == <<submitted, pending, verifying, attempt, owner, loads, widget, calls, current>>

NoCall == [path |-> 0, token |-> FALSE, by |-> 0, aborted |-> FALSE]
MaxAttempt == 3 * MaxSubmits
Calls == [path : 1 .. MaxSubmits, token : BOOLEAN, by : 1 .. MaxAttempt, aborted : BOOLEAN]

PageTypeOK ==
    /\ submitted \in 0 .. MaxSubmits /\ pending \in 0 .. MaxSubmits
    /\ verifying \in BOOLEAN
    /\ {attempt, owner} \subseteq 0 .. MaxAttempt /\ loads \subseteq 1 .. MaxAttempt
    /\ widget \in {"none", "idle", "executing", "solved"}
    /\ calls \subseteq Calls /\ current \in Calls \cup {NoCall}

PageInit ==
    /\ submitted = 0 /\ pending = 0 /\ verifying = FALSE
    /\ attempt = 0 /\ owner = 0 /\ loads = {}
    /\ widget = "none" /\ calls = {} /\ current = NoCall

Rejecting == \E c \in calls : c.aborted

-----------------------------------------------------------------------------
(* Mutants *)

\* cancelPreviewWork drops the controller without aborting.
Unaborted(S) == S

\* The token's call is not followed by the cleanup when it is answered.
CleanupUnlessAnswered(c) ==
    IF c.token /\ c.aborted
    THEN pending' = 0 /\ verifying' = FALSE
         /\ widget' = IF widget = "none" THEN widget ELSE "idle"
    ELSE UNCHANGED <<pending, verifying, widget>>

-----------------------------------------------------------------------------
\* previewAbort.current?.abort().
Aborted(S) == {IF c = current THEN [c EXCEPT !.aborted = TRUE] ELSE c : c \in S}

\* cancelPreviewWork.
Cancel ==
    /\ attempt' = attempt + 1
    /\ pending' = 0
    /\ verifying' = (verifying /\ pending = 0)
    /\ widget' = IF pending # 0 /\ widget # "none" THEN "idle" ELSE widget

\* failVerification.
FailVerification ==
    IF pending = 0 THEN UNCHANGED <<attempt, pending, verifying, widget, calls, current>>
    ELSE Cancel /\ calls' = Aborted(calls) /\ current' = NoCall

\* The finally of the widget's callback, for a call made with a token.
Cleanup(c) ==
    IF c.token
    THEN pending' = 0 /\ verifying' = FALSE
         /\ widget' = IF widget = "none" THEN widget ELSE "idle"
    ELSE UNCHANGED <<pending, verifying, widget>>

Released(c) == IF current = c THEN NoCall ELSE current

\* submitLink: the form is deaf while a verification is pending; a link that
\* is none only cancels.
Submit ==
    /\ ~ Rejecting /\ pending = 0 /\ submitted < MaxSubmits
    /\ submitted' = submitted + 1
    /\ Cancel
    /\ \/ LET call == [path |-> submitted', token |-> FALSE, by |-> attempt', aborted |-> FALSE]
          IN  calls' = Aborted(calls) \cup {call} /\ current' = call
       \/ calls' = Aborted(calls) /\ current' = NoCall
    /\ UNCHANGED <<owner, loads>>

\* A post, or an error to show.
Answered(c) ==
    /\ ~ Rejecting /\ c \in calls
    /\ calls' = calls \ {c} /\ current' = Released(c)
    /\ Cleanup(c)
    /\ UNCHANGED <<submitted, attempt, owner, loads>>

\* A challenge; after a token it is an error like any other.
Challenged(c) ==
    /\ ~ Rejecting /\ c \in calls /\ ~ c.token
    /\ calls' = calls \ {c} /\ current' = Released(c)
    /\ attempt' = attempt + 1 /\ owner' = attempt'
    /\ pending' = c.path /\ verifying' = TRUE
    /\ loads' = loads \cup {attempt'}
    /\ UNCHANGED <<submitted, widget>>

\* The aborted call's AbortError: its catch and its finally.
Rejected(c) ==
    /\ c \in calls /\ c.aborted
    /\ calls' = calls \ {c} /\ current' = Released(c)
    /\ Cleanup(c)
    /\ UNCHANGED <<submitted, attempt, owner, loads>>

\* loadTurnstile, raced by fifteen seconds: the widget is executed, or the
\* verification fails; both only for the attempt that still stands.
Loaded(a) ==
    /\ ~ Rejecting /\ a \in loads /\ loads' = loads \ {a}
    /\ IF attempt = a /\ pending # 0
       THEN \/ widget' = "executing" /\ UNCHANGED <<attempt, pending, verifying, calls, current>>
            \/ FailVerification
       ELSE UNCHANGED <<attempt, pending, verifying, widget, calls, current>>
    /\ UNCHANGED <<submitted, owner>>

\* callback: the pending link is posted again with the token.
Token ==
    /\ ~ Rejecting /\ widget = "executing" /\ widget' = "solved"
    /\ IF pending = 0 THEN UNCHANGED <<calls, current>>
       ELSE LET call == [path |-> pending, token |-> TRUE, by |-> attempt, aborted |-> FALSE]
            IN  calls' = Aborted(calls) \cup {call} /\ current' = call
    /\ UNCHANGED <<submitted, pending, verifying, attempt, owner, loads>>

\* error-callback, expired-callback, timeout-callback.
WidgetFails ==
    /\ ~ Rejecting /\ widget \in {"executing", "solved"} /\ pending # 0
    /\ FailVerification
    /\ UNCHANGED <<submitted, owner, loads>>

Answers == \E c \in calls : Answered(c) \/ Challenged(c)
Rejects == \E c \in calls : Rejected(c)
LoadEnds == \E a \in loads : Loaded(a)

PageNext == Submit \/ Answers \/ Rejects \/ LoadEnds \/ Token \/ WidgetFails

PageSpec == PageInit /\ [][PageNext]_pageVars

-----------------------------------------------------------------------------
(* Properties *)

\* The finally of a token's call clears pendingPath, resets the widget and
\* takes the verifying sign down whoever it finds there: while such a call is
\* under way, what is pending is the verification it was made for.
OldCleanupHarmless ==
    \A c \in calls : c.token /\ pending # 0 => c.by = owner

\* A verification never leaves the form locked: it ends, whether the load
\* fails, the widget gives up or the call with its token is challenged again.
VerificationUnlocks == (verifying \/ pending # 0) ~> (~ verifying /\ pending = 0)
=============================================================================
