--------------------------- MODULE MCApplications ---------------------------
EXTENDS Applications, TLC

CONSTANTS h1, h2, i1, i2

MCApps == 1..3
MCHandlers == {h1, h2}
MCItems == {i1, i2}
MCAsked == {"applying", "submitted", "rejected", "unheard of"}

\* One application is written by many handlers, or three are created while
\* they are listed, or one kind of item is worked on.  Keys matter where work could be doubled.
Of(ops) == UNION {{j \in Jobs(op) : j.app = 1 /\ j.key = NoKey} : op \in ops}
Keyed(op) == {j \in Jobs(op) : j.app = 1 /\ j.key # NoKey}
MCWorkloads ==
    {Of({"create", "patch"}), Of({"start", "patch"}),
     {j \in Jobs("create") : j.arg = "new" /\ j.key = NoKey} \cup Of({"list"}),
     Keyed("createNote") \cup Of({"updateNote", "deleteNote"}),
     Of({"createReminder", "updateReminder", "deleteReminder"}),
     Of({"upload", "deleteAttachment"})}

Symmetry == Permutations(MCHandlers) \cup Permutations(MCItems)
=============================================================================
