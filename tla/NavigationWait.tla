--------------------------- MODULE NavigationWait ---------------------------
(***************************************************************************)
(* The navigation tools of packages/mcp/src/index.ts: navigate, reload,    *)
(* back and forward, and wait_for_navigation.                              *)
(*                                                                         *)
(* A navigation replaces the document of the tab, and the provider then    *)
(* revokes the target and publishes it under a new generation: the lease   *)
(* and the subscriptions of the call that navigates end under it, and      *)
(* events of the new document reach the old generation, the new one, or    *)
(* nobody.  The call watches for the renewed target, for the milestone it  *)
(* waits for and for dialogs at once, each with a timeout, and has to tell *)
(* which document an event is of.                                          *)
(***************************************************************************)
EXTENDS Naturals

CONSTANTS
    Waits,              \* the calls
    WaitKinds,          \* what they may be calls of
    MaxShown,           \* how many documents the tab shows
    MaxRepublished      \* how often the target is renewed without a navigation

(* "document" stands for Page.navigate that leaves the document, and       *)
(* reload: what they answer tells that a document is to come.  "other"     *)
(* stands for navigate within the document, back and forward.              *)
NavigationAssumption ==
    /\ WaitKinds \subseteq {"document", "other", "wait"}
    /\ MaxShown \in Nat /\ MaxRepublished \in Nat

VARIABLES
    tab,            \* the document shown, how far it is, the one the target was
                    \* last published for, and whether the target is to be renewed
    listed,         \* the generation in the directory, 0 when there is none
    highest,        \* the last generation published
    republished,    \* how often it was renewed without a navigation
    wait            \* the calls

navigationVars == <<tab, listed, highest, republished, wait>>

MaxListed == MaxShown + MaxRepublished
Nothing == [reached |-> 0, within |-> FALSE, dialog |-> FALSE]

(* A call watches for the target's renewal from its beginning to its end.  *)
(* Its subscriptions are "open" on one generation; "seen" is what they     *)
(* have buffered, with the document a milestone is of.                     *)
NavigationTypeOK ==
    /\ tab \in [shown : 1..MaxShown, phase : {"committed", "loaded"},
                served : 1..MaxShown, due : BOOLEAN]
    /\ listed \in 0..MaxListed /\ highest \in 1..MaxListed
    /\ republished \in 0..MaxRepublished
    /\ wait \in [Waits ->
         [kind : WaitKinds, until : {"commit", "load"},
          at : {"idle", "leasing", "subscribing", "commanding", "racing", "awaiting",
                "rejoining", "rewaiting", "listing", "confirming", "over"},
          generation : 0..MaxListed, started : 0..MaxShown, settled : BOOLEAN,
          renewal : {"pending", "known", "failed"}, renewed : 0..MaxListed,
          on : 0..MaxListed, seen : [reached : 0..MaxShown, within : BOOLEAN, dialog : BOOLEAN],
          milestone : {"none", "event", "within", "renewed"}, outcome : {"none", "done", "failed"}]]

NavigationInit ==
    /\ tab = [shown |-> 1, phase |-> "committed", served |-> 1, due |-> FALSE]
    /\ listed = 1 /\ highest = 1 /\ republished = 0
    /\ wait \in [Waits ->
         [kind : WaitKinds, until : {"commit", "load"}, at : {"idle"}, generation : {0},
          started : {0}, settled : {FALSE}, renewal : {"pending"}, renewed : {0}, on : {0},
          seen : {Nothing}, milestone : {"none"}, outcome : {"none"}]]

-----------------------------------------------------------------------------
(* The tab and the provider.                                               *)

(* An event reaches the subscriptions on the generation in the directory;  *)
(* after a renewal only the milestone's is subscribed to.                  *)
Hearing(w, event) ==
    /\ wait[w].on # 0 /\ wait[w].on = listed
    /\ wait[w].at = "rewaiting" => event = "load"
    /\ event \in {"commit", "load"} => event = wait[w].until

Emit(event, document) ==
    wait' = [w \in Waits |->
        IF ~Hearing(w, event) THEN wait[w]
        ELSE [wait[w] EXCEPT !.seen =
                CASE event = "within" -> [@ EXCEPT !.within = TRUE]
                  [] event = "dialog" -> [@ EXCEPT !.dialog = TRUE]
                  [] OTHER -> [@ EXCEPT !.reached = document]]]

Navigates ==
    /\ tab.shown < MaxShown
    /\ tab' = [tab EXCEPT !.shown = @ + 1, !.phase = "committed", !.due = TRUE]
    /\ Emit("commit", tab.shown + 1)
    /\ UNCHANGED <<listed, highest, republished>>

Loads ==
    /\ tab.phase = "committed"
    /\ tab' = [tab EXCEPT !.phase = "loaded"]
    /\ Emit("load", tab.shown)
    /\ UNCHANGED <<listed, highest, republished>>

NavigatesWithin ==
    /\ Emit("within", tab.shown)
    /\ UNCHANGED <<tab, listed, highest, republished>>

DialogOpens ==
    /\ Emit("dialog", tab.shown)
    /\ UNCHANGED <<tab, listed, highest, republished>>

(* The target is revoked for the document to come, or because the provider *)
(* has to publish it anew.                                                 *)
Withdraw ==
    /\ listed # 0
    /\ \/ tab.due /\ UNCHANGED republished
       \/ ~tab.due /\ republished < MaxRepublished /\ republished' = republished + 1
    /\ listed' = 0
    /\ UNCHANGED <<tab, highest, wait>>

Publish ==
    /\ listed = 0 /\ highest < MaxListed
    /\ listed' = highest + 1 /\ highest' = highest + 1
    /\ tab' = [tab EXCEPT !.served = tab.shown, !.due = FALSE]
    /\ UNCHANGED <<republished, wait>>

-----------------------------------------------------------------------------
(* A call.                                                                 *)
environment == <<tab, listed, highest, republished>>

Becomes(w, new) == wait' = [wait EXCEPT ![w] = new] /\ UNCHANGED environment

(* resolveSemanticTarget                                                   *)
Begin(w) ==
    /\ wait[w].at = "idle" /\ listed # 0
    /\ Becomes(w, [wait[w] EXCEPT !.at = "leasing", !.generation = listed, !.started = tab.served,
                     !.settled = tab.due \/ tab.phase = "loaded"])

(* waitForRenewedTarget, which goes on beside what follows                 *)
Watching(w) == wait[w].at \notin {"idle", "over"} /\ wait[w].renewal = "pending"

RenewalSeen(w) ==
    /\ Watching(w)
    /\ \E generation \in wait[w].generation + 1 .. highest :
         Becomes(w, [wait[w] EXCEPT !.renewal = "known", !.renewed = generation])

RenewalEnds(w) ==
    /\ Watching(w)
    /\ Becomes(w, [wait[w] EXCEPT !.renewal = "failed"])

(* A lease, the subscriptions under it and the command.                    *)
Over(call, outcome) == [call EXCEPT !.at = "over", !.outcome = outcome, !.on = 0, !.seen = Nothing]

Served(w) == wait[w].generation = listed

Leased(w) ==
    /\ wait[w].at = "leasing" /\ Served(w)
    /\ Becomes(w, [wait[w] EXCEPT !.at = "subscribing"])

Subscribed(w) ==
    /\ wait[w].at = "subscribing" /\ Served(w)
    /\ Becomes(w, [wait[w] EXCEPT !.on = listed,
                     !.at = IF wait[w].kind = "wait" THEN "racing" ELSE "commanding"])

AwaitsMilestone(w) == "racing"
AfterCommand(w) == IF wait[w].kind = "document" THEN "awaiting" ELSE "racing"

Commanded(w) ==
    /\ wait[w].at = "commanding" /\ Served(w)
    /\ Becomes(w, [wait[w] EXCEPT !.at = AfterCommand(w)])

(* The lease is refused, a subscription or the command fails or is         *)
(* cancelled, or the call is aborted.                                      *)
Refused(w) ==
    /\ wait[w].at \in {"leasing", "subscribing", "commanding", "rejoining"}
    /\ Becomes(w, Over(wait[w], "failed"))

(* waitForSubscriptions: a milestone, a dialog, or the end of them.        *)
Told(w, milestone) == [wait[w] EXCEPT !.at = "listing", !.milestone = milestone, !.on = 0]

MilestoneReached(w) ==
    /\ wait[w].at \in {"racing", "rewaiting"}
    /\ \/ wait[w].seen.reached # 0 /\ Becomes(w, Told(w, "event"))
       \/ /\ wait[w].seen.within /\ wait[w].at = "racing"
          /\ Becomes(w, Told(w, "within"))

Interrupted(w) ==
    /\ wait[w].at = "racing" /\ wait[w].seen.dialog
    /\ Becomes(w, Over(wait[w], "failed"))

SubscriptionsEnded(w) ==
    /\ wait[w].at \in {"racing", "rewaiting"} /\ wait[w].on # listed
    /\ Becomes(w, IF wait[w].at = "racing" /\ wait[w].kind # "wait"
                  THEN [wait[w] EXCEPT !.at = "awaiting", !.on = 0]
                  ELSE Over(wait[w], "failed"))

TimesOut(w) ==
    /\ wait[w].at \in {"racing", "rewaiting"}
    /\ Becomes(w, Over(wait[w], "failed"))

(* waitAfterAuthorityRenewal: the milestone is awaited anew on the renewed *)
(* target, under another lease and subscription.                           *)
Renewed(w) ==
    /\ wait[w].renewal = "known"
    /\ \/ wait[w].at = "awaiting"
       \/ wait[w].at = "racing" /\ wait[w].kind # "wait"
    /\ Becomes(w, IF wait[w].until = "commit" THEN Told(w, "renewed")
                  ELSE [wait[w] EXCEPT !.at = "rejoining", !.on = 0, !.seen = Nothing])

Rejoined(w) ==
    /\ wait[w].at = "rejoining" /\ wait[w].renewed = listed
    /\ Becomes(w, [wait[w] EXCEPT !.at = "rewaiting", !.on = listed])

(* The target to tell of: a navigation that left the document is not       *)
(* answered before the target has been renewed.                            *)
Listed(w) ==
    /\ wait[w].at = "listing"
    /\ Becomes(w, IF listed = 0 THEN Over(wait[w], "failed")
                  ELSE IF wait[w].milestone # "within" /\ listed <= wait[w].generation
                  THEN [wait[w] EXCEPT !.at = "confirming"]
                  ELSE [Over(wait[w], "done") EXCEPT !.seen = wait[w].seen])

Confirmed(w) ==
    /\ wait[w].at = "confirming" /\ wait[w].renewal = "known"
    /\ Becomes(w, [Over(wait[w], "done") EXCEPT !.seen = wait[w].seen])

RenewalMissed(w) ==
    /\ wait[w].at \in {"awaiting", "confirming"} /\ wait[w].renewal = "failed"
    /\ Becomes(w, Over(wait[w], "failed"))

Continues(w) ==
    \/ RenewalEnds(w) \/ Leased(w) \/ Subscribed(w) \/ Commanded(w) \/ Refused(w)
    \/ MilestoneReached(w) \/ Interrupted(w) \/ SubscriptionsEnded(w) \/ TimesOut(w)
    \/ Renewed(w) \/ Rejoined(w) \/ Listed(w) \/ Confirmed(w) \/ RenewalMissed(w)

NavigationNext ==
    \/ Navigates \/ Loads \/ NavigatesWithin \/ DialogOpens \/ Withdraw \/ Publish
    \/ \E w \in Waits : Begin(w) \/ RenewalSeen(w) \/ Continues(w)

(* Requests are answered and timers fire.                                  *)
NavigationSpec ==
    /\ NavigationInit /\ [][NavigationNext]_navigationVars
    /\ \A w \in Waits : WF_navigationVars(Continues(w))
-----------------------------------------------------------------------------
(* A call that says the milestone was reached has seen it of a newer       *)
(* document than the one its target was published for, whatever events of  *)
(* the old document came late and however often the target was renewed.    *)
(* For back and forward, and for waiting, this takes that the old document *)
(* had loaded; a target renewed without a navigation deceives every call.  *)
MilestoneIsOfANewDocument ==
    \A w \in Waits :
        ( /\ wait[w].outcome = "done" /\ wait[w].milestone = "event" /\ wait[w].until = "load"
          /\ wait[w].kind = "document" \/ wait[w].settled
          /\ republished = 0 )
        => wait[w].seen.reached > wait[w].started

(* Every call is answered.                                                 *)
NavigationEnds == \A w \in Waits : wait[w].at # "idle" ~> wait[w].at = "over"

(* A navigation is reported as failed only when the document stayed.       *)
FailureMeansNotNavigated ==
    \A w \in Waits :
        wait[w].outcome = "failed" /\ wait[w].kind # "wait" => tab.shown = wait[w].started
=============================================================================
