----------------------------- MODULE MCBilling -----------------------------
EXTENDS Billing

Q(op, arg) == [op |-> op, arg |-> arg]
Workload(begun, max, until, requests) ==
    [begun |-> begun, max |-> max, until |-> until, requests |-> requests]
MCHandlers == 1..2
MCPrompts == 1..2
MCWorkloads ==
    {Workload(None, 1, 2, {Q("checkout", "starter"), Q("checkout", Report)}),
     Workload("starter", 2, 2, {Q("change", "managed"), Q("cancel", None), Q("poll", 1)}),
     Workload("managed", 2, 2, {Q("change", "starter"), Q("onboard", "starter")}),
     Workload("starter", 1, 0, {Q("checkout", "managed")})}
=============================================================================
