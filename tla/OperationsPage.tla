--------------------------- MODULE OperationsPage ---------------------------
(***************************************************************************)
(* The page web/src/pages/OperationsPage.tsx, which loads two resources    *)
(* and keeps loading them: a timer, the return to the page and a button    *)
(* call refreshAll, a failed resource can be tried again, and a            *)
(* cancellation loads both when it is answered.  Every new load of a       *)
(* resource supersedes the pending one (ResourceHook).                     *)
(*                                                                         *)
(* refreshAll sees the loading flags and cancelingId of the last render,   *)
(* which may be behind; refreshInFlight is a reference and never is.       *)
(* What a click sets is rendered before anything else runs.                *)
(***************************************************************************)
EXTENDS Integers

VARIABLES
    current,    \* current[h]: who started the pending load of resource h, or "none"
    turn,       \* turn[h]: tells a load of h from the one before it
    old,        \* old[h]: who awaits a superseded load of h that has yet to settle
    has,        \* has[h]: h has data, which stays when a later load fails
    erred,      \* erred[h]: the last load of h failed and none was started since
    inFlight,   \* refreshInFlight.current
    canceling,  \* where cancelOperation is: "no", "post" or "refresh"
    seen        \* what was rendered last

pollVars == <<current, turn, old, has, erred, inFlight, canceling, seen>>

Resources == {"operations", "capacity"}
Awaited == {"poll", "cancel"}   \* whose loads somebody awaits; the other loads are "lone"

Loading(h) == current[h] # "none"
View == [loading |-> \E h \in Resources : Loading(h), has |-> has, erred |-> erred,
         canceling |-> canceling # "no"]

PollInit ==
    /\ current = [h \in Resources |-> "lone"]
    /\ turn = [h \in Resources |-> 0]
    /\ old = [h \in Resources |-> {}]
    /\ has = [h \in Resources |-> FALSE]
    /\ erred = [h \in Resources |-> FALSE]
    /\ inFlight = FALSE
    /\ canceling = "no"
    /\ seen = View

\* refresh of every resource in hs.
Load(hs, who) ==
    /\ current' = [h \in Resources |-> IF h \in hs THEN who ELSE current[h]]
    /\ turn' = [h \in Resources |-> IF h \in hs THEN 1 - turn[h] ELSE turn[h]]
    /\ old' = [h \in Resources |-> IF h \in hs THEN old[h] \cup ({current[h]} \cap Awaited) ELSE old[h]]
    /\ erred' = [h \in Resources |-> erred[h] /\ h \notin hs]
    /\ UNCHANGED has

\* The promises that who awaits have settled.
Settled(who) == \A h \in Resources : who # current[h] /\ who \notin old[h]

RenderPage ==
    /\ seen' = View
    /\ UNCHANGED <<current, turn, old, has, erred, inFlight, canceling>>

-----------------------------------------------------------------------------
refreshAllAlways ==
    /\ ~inFlight
    /\ Load(Resources, "poll")
    /\ inFlight' = TRUE
    /\ UNCHANGED <<canceling, seen>>

\* Up to its await.
refreshAll ==
    /\ ~inFlight /\ ~seen.loading /\ ~seen.canceling
    /\ Load(Resources, "poll")
    /\ inFlight' = TRUE
    /\ UNCHANGED <<canceling, seen>>

refreshAllEnds ==
    /\ inFlight /\ Settled("poll")
    /\ inFlight' = FALSE
    /\ UNCHANGED <<current, turn, old, has, erred, canceling, seen>>

\* The button of an error.
onRetry(h) ==
    /\ seen.erred[h] /\ (h = "capacity" => ~seen.has[h])
    /\ Load({h}, "lone")
    /\ UNCHANGED <<inFlight, canceling>>
    /\ seen' = View'

\* The button of a queued operation.
cancelOperation ==
    /\ ~seen.canceling /\ seen.has["operations"] /\ ~seen.erred["operations"]
    /\ canceling' = "post"
    /\ UNCHANGED <<current, turn, old, has, erred, inFlight>>
    /\ seen' = View'

cancelAnswered ==
    /\ canceling = "post"
    /\ \/ Load(Resources, "cancel") /\ canceling' = "refresh"
       \/ canceling' = "no" /\ UNCHANGED <<current, turn, old, has, erred>>
    /\ UNCHANGED <<inFlight, seen>>

cancelEnds ==
    /\ canceling = "refresh" /\ Settled("cancel")
    /\ canceling' = "no"
    /\ UNCHANGED <<current, turn, old, has, erred, inFlight, seen>>

\* A load is answered or fails; a superseded one changes nothing.
SettleLoad(h) ==
    /\ Loading(h)
    /\ current' = [current EXCEPT ![h] = "none"]
    /\ \/ has' = [has EXCEPT ![h] = TRUE] /\ UNCHANGED erred
       \/ erred' = [erred EXCEPT ![h] = TRUE] /\ UNCHANGED has
    /\ UNCHANGED <<turn, old, inFlight, canceling, seen>>

SettleOld(h, who) ==
    /\ who \in old[h]
    /\ old' = [old EXCEPT ![h] = @ \ {who}]
    /\ UNCHANGED <<current, turn, has, erred, inFlight, canceling, seen>>

PollNext ==
    \/ RenderPage \/ refreshAll \/ refreshAllEnds
    \/ cancelOperation \/ cancelAnswered \/ cancelEnds
    \/ \E h \in Resources : onRetry(h) \/ SettleLoad(h) \/ \E who \in Awaited : SettleOld(h, who)

\* Requests end if they are not superseded, and promises run on; a load that is
\* superseded again and again need not end.
PollFairness ==
    /\ WF_pollVars(refreshAllEnds) /\ WF_pollVars(cancelEnds) /\ WF_pollVars(cancelAnswered)
    /\ \A h \in Resources :
          /\ \A who \in Awaited : WF_pollVars(SettleOld(h, who))
          /\ \A t \in {0, 1} : WF_pollVars(turn[h] = t /\ SettleLoad(h))

PollSpec == PollInit /\ [][PollNext]_pollVars /\ PollFairness

-----------------------------------------------------------------------------
\* Properties.

\* However slow the server is, polling starves nothing: every load ends in data or in
\* an error, a poll lets the next one follow, and a cancellation ends.
PollingStarvesNothing ==
    /\ \A h \in Resources : Loading(h) ~> ~Loading(h)
    /\ inFlight ~> ~inFlight
    /\ canceling # "no" ~> canceling = "no"
=============================================================================
