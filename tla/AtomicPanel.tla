---------------------------- MODULE AtomicPanel ----------------------------
(***************************************************************************)
(* What the panel's store promises its callers: every change is decided    *)
(* and made in one step, against the panel as it is then.                  *)
(*                                                                         *)
(* A call answered with success changed the panel exactly once, one that   *)
(* was refused changed nothing, and one answered with a failure of the     *)
(* store changed it at most once.                                          *)
(***************************************************************************)
EXTENDS Panel

CONSTANTS MaxNow, None    \* bound of the clock; no operation

VARIABLES
    panel,     \* the panel
    now,       \* the clock
    status,    \* [Calls -> "new", "asked", and how it ended]
    op,        \* [Calls -> what it asked for]
    since      \* [Calls -> when it came in]

vars == <<panel, now, status, op, since>>

Init ==
    /\ panel = Opening /\ now = 0
    /\ status = [c \in Calls |-> "new"]
    /\ op = [c \in Calls |-> None]
    /\ since = [c \in Calls |-> 0]

Ask(c) ==
    /\ status[c] = "new"
    /\ \E o \in Asks(panel, now) : op' = [op EXCEPT ![c] = o]
    /\ status' = [status EXCEPT ![c] = "asked"]
    /\ since' = [since EXCEPT ![c] = now]
    /\ UNCHANGED <<panel, now>>

\* The change is made as of a moment since the call came in; the caller may
\* never hear that it was.
Apply(c) ==
    /\ status[c] = "asked"
    /\ \E t \in since[c]..now :
        LET d == ExpireShares(panel, t) IN
        /\ ~Refused(op[c], d, t)
        /\ panel' = Result(c, op[c], d, t)
    /\ \E s \in {"done", "failed"} : status' = [status EXCEPT ![c] = s]
    /\ UNCHANGED <<now, op, since>>

Refuse(c) ==
    /\ status[c] = "asked"
    /\ \E t \in since[c]..now : Refused(op[c], ExpireShares(panel, t), t)
    /\ status' = [status EXCEPT ![c] = "refused"]
    /\ UNCHANGED <<panel, now, op, since>>

\* Calls fail without changing anything, one alone or many together.
Fail ==
    /\ \E C \in SUBSET {c \in Calls : status[c] = "asked"} :
        status' = [c \in Calls |-> IF c \in C THEN "failed" ELSE status[c]]
    /\ UNCHANGED <<panel, now, op, since>>

Tick ==
    /\ now < MaxNow
    /\ now' = now + 1
    /\ UNCHANGED <<panel, status, op, since>>

Next == \/ \E c \in Calls : Ask(c) \/ Apply(c) \/ Refuse(c)
        \/ Fail \/ Tick

Spec == Init /\ [][Next]_vars
=============================================================================
