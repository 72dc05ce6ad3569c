----------------------------- MODULE PanelStore -----------------------------
(***************************************************************************)
(* The panel's store: one row of state behind several processes.           *)
(*                                                                         *)
(* Mutate takes its process's mutex, reads the row and its version, drops  *)
(* the shares whose time ran out, decides, and saves on condition that the *)
(* version has not moved; a lost race runs the whole decision again.  The  *)
(* read and the decision are one step: the decision uses nothing that      *)
(* other calls can reach.  A panel kept in a file has one process, and its *)
(* saves always win.                                                       *)
(***************************************************************************)
EXTENDS Panel

CONSTANTS
    Process,       \* [Calls -> the process that serves it]
    Kinds,         \* bound: [Calls -> the kinds of thing it asks for]
    Versioned,     \* Postgres, whose saves are conditional, or a file
    MaxCASRetries, \* how often a lost race is run again
    MaxNow,        \* bound: the clock stops here
    None           \* no call, no operation, no panel

Processes == {Process[c] : c \in Calls}

ASSUME StoreAssumption ==
    /\ Versioned \in BOOLEAN
    /\ ~Versioned => \A c, e \in Calls : Process[c] = Process[e]
    /\ MaxCASRetries \in Nat /\ MaxNow \in Nat
    /\ None \notin Calls \cup Data

\* Ids are drawn at random: none the panel has is drawn again, and no two codes
\* have the same.
ASSUME FreshIds ==
    /\ Opening.people \cap Calls = {}
    /\ \A x \in UNION {Opening.devices, Opening.codes, Opening.accounts, Opening.shares} :
          x.id \notin Calls
    /\ \A x, y \in Opening.codes : x.id = y.id => x = y

VARIABLES
    row,       \* panel_state, [version, data]
    now,       \* the clock
    holder,    \* [Processes -> the call that holds Store.mu]
    pc,        \* [Calls -> "new", "asked", "draft", "again", and how it ended]
    op,        \* [Calls -> what it asked for]
    since,     \* [Calls -> when it came in]
    base,      \* [Calls -> the version its decision was made against]
    draft,     \* [Calls -> the panel it is about to save]
    tries      \* [Calls -> races lost]

call == <<op, since>>
vars == <<row, now, holder, pc, call, base, draft, tries>>

Ended == {"done", "refused", "failed"}

\* The row save makes of draft[c], and whether it may.
Fresh(c) == Versioned => row.version = base[c]
Written(c) ==
    row' = [version |-> row.version + (IF Versioned THEN 1 ELSE 0), data |-> draft[c]]

\* Mutant: a return that leaves the mutex locked.
ReturnLocked(c, how) ==
    /\ pc' = [pc EXCEPT ![c] = how]
    /\ base' = [base EXCEPT ![c] = 0]
    /\ draft' = [draft EXCEPT ![c] = None]
    /\ tries' = [tries EXCEPT ![c] = 0]
    /\ UNCHANGED holder

\* Mutate returns, and its mutex is released.
Return(c, how) ==
    /\ pc' = [pc EXCEPT ![c] = how]
    /\ holder' = [holder EXCEPT ![Process[c]] = None]
    /\ base' = [base EXCEPT ![c] = 0]
    /\ draft' = [draft EXCEPT ![c] = None]
    /\ tries' = [tries EXCEPT ![c] = 0]

\* The caller asks for something it saw on the panel a moment ago.
Ask(c) ==
    /\ pc[c] = "new"
    /\ \E o \in Asks(row.data, now) :
        o.kind \in Kinds[c] /\ op' = [op EXCEPT ![c] = o]
    /\ pc' = [pc EXCEPT ![c] = "asked"]
    /\ since' = [since EXCEPT ![c] = now]
    /\ UNCHANGED <<row, now, holder, base, draft, tries>>

\* Mutate's turn of the loop up to the save: read, expire, decide.
Decide(c) ==
    /\ \/ pc[c] = "asked" /\ holder[Process[c]] = None
       \/ pc[c] = "again"
    /\ LET d == ExpireShares(row.data, now) IN
       IF Refused(op[c], d, now)
       THEN Return(c, "refused")
       ELSE /\ pc' = [pc EXCEPT ![c] = "draft"]
            /\ holder' = [holder EXCEPT ![Process[c]] = c]
            /\ base' = [base EXCEPT ![c] = row.version]
            /\ draft' = [draft EXCEPT ![c] = Result(c, op[c], d, now)]
            /\ UNCHANGED tries
    /\ UNCHANGED <<row, now, call>>

\* Mutant: every save wins, as on a file.
SaveAlways(c) ==
    /\ pc[c] = "draft"
    /\ Written(c)
    /\ Return(c, "done")
    /\ UNCHANGED <<now, call>>

\* Mutant: a lost race saves the old decision against the new version.
SaveAnyway(c) ==
    /\ pc[c] = "draft"
    /\ IF Fresh(c)
       THEN Written(c) /\ Return(c, "done")
       ELSE /\ base' = [base EXCEPT ![c] = row.version]
            /\ UNCHANGED <<row, holder, pc, draft, tries>>
    /\ UNCHANGED <<now, call>>

\* Mutant: a lost race tries the same save again.
SaveAgain(c) ==
    /\ pc[c] = "draft"
    /\ IF Fresh(c)
       THEN Written(c) /\ Return(c, "done")
       ELSE IF tries[c] >= MaxCASRetries
       THEN Return(c, "failed") /\ UNCHANGED row
       ELSE /\ tries' = [tries EXCEPT ![c] = @ + 1]
            /\ UNCHANGED <<row, holder, pc, base, draft>>
    /\ UNCHANGED <<now, call>>

\* Save wins, or another save came between: then decide again, up to a limit.
Save(c) ==
    /\ pc[c] = "draft"
    /\ IF Fresh(c)
       THEN Written(c) /\ Return(c, "done")
       ELSE IF tries[c] >= MaxCASRetries
       THEN Return(c, "failed") /\ UNCHANGED row
       ELSE /\ pc' = [pc EXCEPT ![c] = "again"]
            /\ base' = [base EXCEPT ![c] = 0]
            /\ draft' = [draft EXCEPT ![c] = None]
            /\ tries' = [tries EXCEPT ![c] = @ + 1]
            /\ UNCHANGED <<row, holder>>
    /\ UNCHANGED <<now, call>>

\* Mutant: a save whose answer is lost counts as a lost race.
SaveUnheardAgain(c) ==
    /\ Versioned
    /\ pc[c] = "draft" /\ Fresh(c)
    /\ Written(c)
    /\ pc' = [pc EXCEPT ![c] = "again"]
    /\ base' = [base EXCEPT ![c] = 0]
    /\ draft' = [draft EXCEPT ![c] = None]
    /\ UNCHANGED <<now, call, holder, tries>>

\* The row is changed, and the answer that says so is lost (15s timeout).
SaveUnheard(c) ==
    /\ Versioned
    /\ pc[c] = "draft" /\ Fresh(c)
    /\ Written(c)
    /\ Return(c, "failed")
    /\ UNCHANGED <<now, call>>

\* The read, or the save, fails.
BackendFails(c) ==
    /\ \/ pc[c] = "asked" /\ holder[Process[c]] = None
       \/ pc[c] \in {"draft", "again"}
    /\ Return(c, "failed")
    /\ UNCHANGED <<row, now, call>>

\* A process dies with the calls it was serving; another one takes its place.
Crash(p) ==
    LET dead == {c \in Calls : Process[c] = p /\ pc[c] \notin {"new"} \cup Ended} IN
    /\ dead # {}
    /\ pc' = [c \in Calls |-> IF c \in dead THEN "failed" ELSE pc[c]]
    /\ holder' = [holder EXCEPT ![p] = None]
    /\ base' = [c \in Calls |-> IF c \in dead THEN 0 ELSE base[c]]
    /\ draft' = [c \in Calls |-> IF c \in dead THEN None ELSE draft[c]]
    /\ tries' = [c \in Calls |-> IF c \in dead THEN 0 ELSE tries[c]]
    /\ UNCHANGED <<row, now, call>>

Tick ==
    /\ now < MaxNow
    /\ now' = now + 1
    /\ UNCHANGED <<row, holder, pc, call, base, draft, tries>>

Init ==
    /\ row = [version |-> 0, data |-> Opening]
    /\ now = 0
    /\ holder = [p \in Processes |-> None]
    /\ pc = [c \in Calls |-> "new"]
    /\ op = [c \in Calls |-> None]
    /\ since = [c \in Calls |-> 0]
    /\ base = [c \in Calls |-> 0]
    /\ draft = [c \in Calls |-> None]
    /\ tries = [c \in Calls |-> 0]

Next ==
    \/ \E c \in Calls : Ask(c) \/ Decide(c) \/ Save(c) \/ SaveUnheard(c) \/ BackendFails(c)
    \/ \E p \in Processes : Crash(p)
    \/ Tick

Spec == Init /\ [][Next]_vars

-----------------------------------------------------------------------------
TypeOK ==
    /\ row \in [version : Nat, data : Data]
    /\ now \in Nat
    /\ holder \in [Processes -> Calls \cup {None}]
    /\ pc \in [Calls -> {"new", "asked", "draft", "again"} \cup Ended]
    /\ since \in [Calls -> Nat] /\ base \in [Calls -> Nat] /\ tries \in [Calls -> Nat]
    /\ draft \in [Calls -> Data \cup {None}]
    /\ \A c \in Calls :
        /\ pc[c] \in {"draft", "again"} <=> holder[Process[c]] = c
        /\ pc[c] = "draft" => draft[c] # None

\* The store keeps what AtomicPanel promises: a caller sees one panel that
\* changes a whole decision at a time, whichever process serves it, whatever
\* races it lost and however its call was cut (Mutate).
Atomic == INSTANCE AtomicPanel WITH
    panel  <- row.data,
    status <- [c \in Calls |-> IF pc[c] \in {"draft", "again"} THEN "asked" ELSE pc[c]]
Linearizable == Atomic!Spec

\* "The invariants a database would enforce with a unique index" (Data): one
\* account for a login, and one key for a person on an account.
UniqueIndexes == UniquelyIndexed(row.data)

\* An invite link enrols one machine, however many open it at once and whatever
\* became of the answers (handleEnroll).
InviteUsedOnce ==
    \A c, e \in Calls :
        /\ op[c] # None /\ op[e] # None
        /\ op[c].kind = "enroll" /\ op[e].kind = "enroll" /\ op[c].code = op[e].code
        /\ pc[c] = "done" /\ (pc[e] = "done" \/ e \in Named(row.data.devices))
        => c = e

\* What a call was told it took away is gone and stays gone: no later save,
\* decided before it, brings it back.
TakenAwayStaysAway ==
    \A c \in {x \in Calls : pc[x] = "done"} :
        LET o == op[c]  d == row.data IN
        /\ o.kind = "removePerson" => o.person \notin d.people
        /\ o.kind = "removeDevice" => o.device \notin Named(d.devices)
        /\ o.kind \in {"withdraw", "removeAccount"} =>
              /\ o.account \notin Named(d.accounts)
              /\ \A sh \in d.shares : sh.account # o.account
        /\ o.kind = "revoke" => o.share \notin Named(d.shares)

\* Nobody loses a race but to a save that won: a decision has seen as many saves
\* as its call lost races, so a retry never decides on what it lost with and the
\* limit on retries cannot turn everyone away at once.
LostRaceMeansProgress == \A c \in Calls : pc[c] = "draft" => tries[c] <= base[c]

\* A person who was removed has no access: "Their shares go too, so their access
\* ends everywhere at once" (handleRemovePerson).
RemovedPersonHasNoAccess ==
    \A c \in {x \in Calls : pc[x] = "done"} :
        op[c].kind = "removePerson" => \A sh \in row.data.shares : sh.person # op[c].person
=============================================================================
