---------------------------- MODULE MCAutomation ----------------------------
(* Small instances, for TLC, of what works on one target: the demand for a *)
(* domain, the operations of an automation provider and the navigation     *)
(* tools.  A behaviour is one of DomainDemand, of AutomationOperations or  *)
(* of NavigationWait: the others stay as they began.                       *)
EXTENDS DomainDemand

CONSTANTS l1, l2, l3, s1, s2, u1, u2, k1, k2, o1, o2, w1,
    Operations, Demanding, MaxGenerations, MaxProviders,
    Waits, WaitKinds, MaxShown, MaxRepublished

VARIABLES machine,
    generation, newest, provider, instances, op, handles, listeners, demand, counted,
    tab, listed, highest, republished, wait

A == INSTANCE AutomationOperations
N == INSTANCE NavigationWait

ASSUME MachinesAssumption == A!AutomationAssumption /\ N!NavigationAssumption

automationVars ==
    <<generation, newest, provider, instances, op, handles, listeners, demand, counted>>
navigationVars == <<tab, listed, highest, republished, wait>>

(* One operation is of any kind, the other takes a snapshot.               *)
MCInit ==
    /\ machine \in {"demand", "automation", "navigation"}
    /\ Init /\ A!AutomationInit /\ N!NavigationInit
    /\ op[o2].kind = "snapshot"
    /\ machine # "automation" => op[o1].kind = "find"
    /\ machine # "navigation" => wait[w1].kind = "wait" /\ wait[w1].until = "load"

DemandRuns ==
    machine = "demand" /\ Next
        /\ UNCHANGED <<machine, automationVars, navigationVars>>
AutomationRuns ==
    machine = "automation" /\ A!AutomationNext
        /\ UNCHANGED <<machine, vars, navigationVars>>
NavigationRuns ==
    machine = "navigation" /\ N!NavigationNext
        /\ UNCHANGED <<machine, vars, automationVars>>

everything == <<machine, vars, automationVars, navigationVars>>

MCSpec ==
    /\ MCInit /\ [][DemandRuns \/ AutomationRuns \/ NavigationRuns]_everything
    /\ \A o \in Operations : WF_automationVars(machine = "automation" /\ A!Ends(o))
    /\ \A w \in Waits : WF_navigationVars(machine = "navigation" /\ N!Continues(w))

(* The properties of the instances, as their modules state them: element   *)
(* handles follow the published target,                                    *)
HandlesFollowTarget == A!HandlesFollowTarget
(* an operation that was aborted ends,                                     *)
AbortedOperationEnds == A!AbortedOperationEnds
(* the load a navigation reports is not that of the document it left,      *)
MilestoneIsOfANewDocument == N!MilestoneIsOfANewDocument
(* and every navigation is answered.                                       *)
NavigationEnds == N!NavigationEnds

(* Properties the code does not have: nothing is left at the broker when   *)
(* no operation runs,                                                      *)
NothingLeft == A!NothingLeft
(* a provider's replacement invalidates its handles,                       *)
ReplacementInvalidates == A!ReplacementInvalidates
(* and a navigation reported as failed did not take place.                 *)
FailureMeansNotNavigated == N!FailureMeansNotNavigated
=============================================================================
