------------------------------- MODULE MCATS -------------------------------
EXTENDS ATS, TLC

CONSTANTS h1, h2, r1, r2

MCHandlers == {h1, h2}
MCResources == {r1, r2}
MCApps == 1..3

Q(op, id, arg) == [op |-> op, id |-> id, arg |-> arg]
Open(cap) == [r \in Resources |-> [present |-> TRUE, cap |-> cap, rules |-> {<<0, Horizon>>}]]
Apart == [r \in Resources |-> NoConn]
Linked == [Apart EXCEPT ![r1] = [imports |-> TRUE, exports |-> TRUE]]
OneApp(stage) == [a \in Apps |-> IF a = 1 THEN [job |-> "j", profile |-> "p", stage |-> stage,
                                                status |-> "active"] ELSE NoApp]
Proposed == [i \in Interviews |-> [NoInterview EXCEPT !.app = 1, !.panel = Resources, !.dur = 2,
                                                      !.status = "proposed"]]
NoneProposed == [i \in Interviews |-> NoInterview]

Scenario(res, con, a, i, max, qs) ==
    [resource |-> res, conn |-> con, app |-> a, iv |-> i, max |-> max, requests |-> qs]
On(r, n) == [q \in Resources |-> IF q = r THEN n ELSE 0]
Book(status, start, n) == Q("create", None, [key |-> None, status |-> status,
                                             slot |-> <<start, start + 2>>, qty |-> On(r1, n)])

MCScenarios ==
    {Scenario(Open(1), Apart, OneApp("applied"), NoneProposed, 4,
        {Q("update", "j", "closed"), Q("publish", "j", None), Q("unpublish", "j", None)}),
     Scenario(Open(1), Apart, OneApp("offer"), NoneProposed, 4,
        {Q("apply", "j", "p"), Q("advance", 1, "rejected"), Q("hire", 1, None), Q("advance", 2, "rejected")}),
     Scenario(Open(1), Apart, OneApp("interview"), NoneProposed, 4,
        {Q("hire", 1, None), Q("advance", 1, "offer"), Q("advance", 1, "hired")}),
     Scenario(Open(2), Apart, OneApp("interview"), NoneProposed, 4,
        {Book("hold", 0, 1), Book("confirmed", 1, 2)}
        \cup {Q("confirm", b, None) : b \in 1..2} \cup {Q("cancel", 1, None)}),
     Scenario(Open(1), Linked, OneApp("interview"), NoneProposed, 4,
        {Book("confirmed", 0, 1), Q("cancel", 1, None), Q("sync", None, r1)}),
     Scenario(Open(1), [Linked EXCEPT ![r1].imports = FALSE], OneApp("interview"), NoneProposed, 5,
        {Book("hold", 0, 1), Q("confirm", 1, None), Q("cancel", 1, None), Q("sync", None, r1)}),
     Scenario(Open(2), Apart, OneApp("interview"), NoneProposed, 3,
        {Q("propose", "i", [app |-> 1, panel |-> {r1}, dur |-> 2]), Q("book", "i", 0),
         Q("ensure", r1, 2), Q("availability", r1, {<<0, 2>>}), Book("hold", 0, 2)}),
     Scenario(Open(2), Apart, OneApp("interview"), NoneProposed, 4,
        {Q("connect", r1, TRUE), Q("appointment", r1, <<0, 1>>), Q("sync", None, r1),
         Book("confirmed", 0, 1)}),
     Scenario(Open(1), Apart, OneApp("interview"), Proposed, 3,
        {Q("book", "i", 0), Q("book", "i", 1), Q("book", "k", 1)})}

Symmetry == Permutations(MCHandlers)
=============================================================================
