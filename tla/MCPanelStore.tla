---------------------------- MODULE MCPanelStore ----------------------------
\* A small panel, and who calls it: the values PanelStore's runs share.
EXTENDS PanelStore, TLC

CONSTANTS c1, c2, c3, p1, p2, d1, a1, j1, s1, s2, l1, l2

\* c1 and c2 race each other from two processes; c3 opens the invite from behind c1's mutex.
TwoProcesses == (c1 :> "x") @@ (c2 :> "y") @@ (c3 :> "x")

Anything  == {"addPerson", "look", "removePerson", "invite", "enroll", "removeDevice",
              "contribute", "withdraw", "removeAccount", "share", "revoke"}
TwoAsk    == (c1 :> Anything) @@ (c2 :> Anything) @@ (c3 :> {"enroll"})

\* The first person's machine added login l1, which the second may use for a
\* while; an invite for the second is out.
Lent ==
    [people   |-> {p1, p2},
     devices  |-> {[id |-> d1, person |-> p1]},
     accounts |-> {[id |-> a1, login |-> l1, addedBy |-> p1, end |-> 1]},
     codes    |-> {[id |-> j1, person |-> p2, expires |-> 1, used |-> FALSE]},
     shares   |-> {[id |-> s1, account |-> a1, person |-> p1, until |-> 0],
                   [id |-> s2, account |-> a1, person |-> p2, until |-> 1]}]
=============================================================================
