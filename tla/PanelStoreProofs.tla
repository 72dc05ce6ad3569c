-------------------------- MODULE PanelStoreProofs --------------------------
(***************************************************************************)
(* Proofs about PanelStore, for any calls, processes and panel, kept in a  *)
(* database or in a file.                                                  *)
(*                                                                         *)
(* What a save writes was decided on the panel it replaces: Decided says   *)
(* so of every call that is about to save and would win.  With a version   *)
(* that is because each save moves it; with a file, because the one        *)
(* process's mutex is held from the read to the write.                     *)
(***************************************************************************)
EXTENDS PanelStore, TLAPS

\* The shapes of the store's own variables, and who holds which mutex.
StoreInv ==
    /\ row.version \in Nat /\ now \in Nat
    /\ holder \in [Processes -> Calls \cup {None}]
    /\ pc \in [Calls -> {"new", "asked", "draft", "again"} \cup Ended]
    /\ since \in [Calls -> Nat] /\ base \in [Calls -> Nat] /\ tries \in [Calls -> Nat]
    /\ op = [c \in Calls |-> op[c]] /\ draft = [c \in Calls |-> draft[c]]
    /\ \A c \in Calls : pc[c] \in {"draft", "again"} <=> holder[Process[c]] = c

\* Calls came in before now, and decisions were made on no later version.
Past ==
    \A c \in Calls :
        /\ pc[c] # "new" => since[c] <= now
        /\ pc[c] = "draft" => base[c] <= row.version

\* draft[c] is what a decision of call c made of the panel as it is now.
DecidedOn(c, d) ==
    \E t \in since[c]..now :
        /\ ~Refused(op[c], ExpireShares(d, t), t)
        /\ draft[c] = Result(c, op[c], ExpireShares(d, t), t)

Decided == \A c \in Calls : pc[c] = "draft" /\ Fresh(c) => DecidedOn(c, row.data)

IInv == StoreInv /\ Past /\ Decided

-----------------------------------------------------------------------------
LEMMA InitInv == Init => IInv
<1> SUFFICES ASSUME Init PROVE IInv
  OBVIOUS
<1> USE DEF Init
<1>1. StoreInv
  BY StoreAssumption DEF StoreInv, Processes, Ended
<1>2. Past /\ Decided
  BY DEF Past, Decided
<1> QED BY <1>1, <1>2 DEF IInv

\* One call's turn ends: its mutex is free, and no other call is touched.
LEMMA ReturnInv ==
  ASSUME StoreInv, NEW c \in Calls, NEW how \in Ended, Return(c, how),
         holder[Process[c]] \in {None, c}, pc[c] # "new",
         row'.version \in Nat, now' = now, UNCHANGED call
  PROVE  /\ StoreInv'
         /\ pc'[c] = how
         /\ \A e \in Calls \ {c} :
              /\ pc'[e] = pc[e] /\ base'[e] = base[e]
              /\ draft'[e] = draft[e] /\ tries'[e] = tries[e]
<1>1. Process[c] \in Processes
  BY DEF Processes
<1>2. \A e \in Calls : pc'[e] \in {"draft", "again"} <=> holder'[Process[e]] = e
  <2> TAKE e \in Calls
  <2>1. CASE e = c
    BY <2>1, <1>1, StoreAssumption DEF StoreInv, Return, Ended
  <2>2. CASE e # c
    BY <2>2, <1>1, StoreAssumption DEF StoreInv, Return, Processes
  <2> QED BY <2>1, <2>2
<1>3. /\ holder' \in [Processes -> Calls \cup {None}]
      /\ pc' \in [Calls -> {"new", "asked", "draft", "again"} \cup Ended]
      /\ since' \in [Calls -> Nat] /\ base' \in [Calls -> Nat] /\ tries' \in [Calls -> Nat]
      /\ op' = [e \in Calls |-> op'[e]] /\ draft' = [e \in Calls |-> draft'[e]]
  BY <1>1 DEF StoreInv, Return, call
<1> QED BY <1>2, <1>3 DEF StoreInv, Return

\* A call's decision still stands when neither the row nor the call has changed.
LEMMA DecisionStands ==
  ASSUME StoreInv, NEW c \in Calls, DecidedOn(c, row.data), row'.data = row.data,
         now' \in Nat, now <= now', since'[c] = since[c], op'[c] = op[c],
         draft'[c] = draft[c]
  PROVE  DecidedOn(c, row.data)'
<1>1. PICK t \in since[c]..now :
        /\ ~Refused(op[c], ExpireShares(row.data, t), t)
        /\ draft[c] = Result(c, op[c], ExpireShares(row.data, t), t)
  BY DEF DecidedOn
<1>2. t \in since'[c]..now'
  BY <1>1 DEF StoreInv
<1> QED BY <1>1, <1>2 DEF DecidedOn

\* After a winning save, no other call in the middle of its own would win.
LEMMA OnlyOneWins ==
  ASSUME StoreInv, Past, NEW c \in Calls, pc[c] = "draft", Written(c),
         NEW e \in Calls \ {c}, pc[e] = "draft", base'[e] = base[e]
  PROVE  ~Fresh(e)'
<1>1. CASE Versioned
  BY <1>1 DEF StoreInv, Past, Written, Fresh
<1>2. CASE ~Versioned
  BY <1>2, StoreAssumption DEF StoreInv
<1> QED BY <1>1, <1>2, StoreAssumption

LEMMA SaveInv ==
  ASSUME IInv, NEW c \in Calls, pc[c] = "draft", Fresh(c), Written(c),
         NEW how \in Ended, Return(c, how), UNCHANGED <<now, call>>
  PROVE  IInv'
<1> USE DEF IInv
<1>1. row'.version \in Nat /\ row'.version >= row.version
  BY DEF Written, StoreInv
<1>2. holder[Process[c]] = c
  BY DEF StoreInv
<1>3. /\ StoreInv'
      /\ pc'[c] = how
      /\ \A e \in Calls \ {c} : pc'[e] = pc[e] /\ base'[e] = base[e]
  BY <1>1, <1>2, ReturnInv
<1>4. Past'
  BY <1>1, <1>3 DEF Past, StoreInv, call, Ended
<1>5. \A e \in Calls : ~(pc'[e] = "draft" /\ Fresh(e)')
  BY <1>3, OnlyOneWins DEF Ended
<1>6. Decided'
  BY <1>5 DEF Decided
<1> QED BY <1>3, <1>4, <1>6

\* A call gives up, is refused, or dies, and nothing is written.
LEMMA LeaveInv ==
  ASSUME IInv, NEW c \in Calls, NEW how \in Ended, Return(c, how), pc[c] # "new",
         holder[Process[c]] \in {None, c}, UNCHANGED <<row, now, call>>
  PROVE  IInv'
<1> USE DEF IInv
<1>1. /\ StoreInv'
      /\ pc'[c] = how
      /\ \A e \in Calls \ {c} : /\ pc'[e] = pc[e] /\ base'[e] = base[e]
                                /\ draft'[e] = draft[e]
  BY ReturnInv DEF StoreInv
<1>2. Past'
  BY <1>1 DEF Past, StoreInv, call, Ended
<1>3. Decided'
  <2> SUFFICES ASSUME NEW e \in Calls, pc'[e] = "draft", Fresh(e)'
               PROVE  DecidedOn(e, row.data)'
    BY DEF Decided
  <2>1. e # c
    BY <1>1 DEF Ended
  <2>2. DecidedOn(e, row.data)
    BY <1>1, <2>1 DEF Decided, Fresh
  <2> QED BY <1>1, <2>1, <2>2, DecisionStands DEF call, StoreInv
<1> QED BY <1>1, <1>2, <1>3

LEMMA AskInv == ASSUME IInv, NEW c \in Calls, Ask(c) PROVE IInv'
<1> USE DEF IInv, Ask
<1>1. StoreInv'
  <2>1. \A e \in Calls : pc'[e] \in {"draft", "again"} <=> holder'[Process[e]] = e
    BY DEF StoreInv
  <2>2. op' = [e \in Calls |-> op'[e]]
    BY DEF StoreInv
  <2> QED BY <2>1, <2>2 DEF StoreInv
<1>2. Past'
  BY DEF Past, StoreInv
<1>3. Decided'
  <2> SUFFICES ASSUME NEW e \in Calls, pc'[e] = "draft", Fresh(e)'
               PROVE  DecidedOn(e, row.data)'
    BY DEF Decided
  <2>1. e # c
    BY DEF StoreInv
  <2>2. DecidedOn(e, row.data)
    BY <2>1 DEF Decided, Fresh, StoreInv
  <2>3. op'[e] = op[e] /\ since'[e] = since[e]
    BY <2>1 DEF StoreInv
  <2> QED BY <2>2, <2>3, DecisionStands DEF StoreInv
<1> QED BY <1>1, <1>2, <1>3

\* A decision that is not refused is about to be saved.
LEMMA DraftInv ==
  ASSUME IInv, NEW c \in Calls,
         \/ pc[c] = "asked" /\ holder[Process[c]] = None
         \/ pc[c] = "again",
         ~Refused(op[c], ExpireShares(row.data, now), now),
         pc' = [pc EXCEPT ![c] = "draft"],
         holder' = [holder EXCEPT ![Process[c]] = c],
         base' = [base EXCEPT ![c] = row.version],
         draft' = [draft EXCEPT ![c] = Result(c, op[c], ExpireShares(row.data, now), now)],
         UNCHANGED <<row, now, call, tries>>
  PROVE  IInv'
<1> USE DEF IInv
<1>1. Process[c] \in Processes
  BY DEF Processes
<1>2. StoreInv'
  <2>1. \A e \in Calls : pc'[e] \in {"draft", "again"} <=> holder'[Process[e]] = e
    <3> TAKE e \in Calls
    <3>1. CASE e = c
      BY <3>1, <1>1 DEF StoreInv
    <3>2. CASE e # c
      BY <3>2, <1>1, StoreAssumption DEF StoreInv, Processes
    <3> QED BY <3>1, <3>2
  <2>2. draft' = [e \in Calls |-> draft'[e]]
    BY DEF StoreInv
  <2>3. /\ holder' \in [Processes -> Calls \cup {None}]
        /\ pc' \in [Calls -> {"new", "asked", "draft", "again"} \cup Ended]
        /\ base' \in [Calls -> Nat]
    BY <1>1 DEF StoreInv
  <2> QED BY <2>1, <2>2, <2>3 DEF StoreInv, call
<1>3. Past'
  BY DEF Past, StoreInv, call
<1>4. Decided'
  <2> SUFFICES ASSUME NEW e \in Calls, pc'[e] = "draft", Fresh(e)'
               PROVE  DecidedOn(e, row.data)'
    BY DEF Decided
  <2>1. CASE e = c
    <3>1. draft'[c] = Result(c, op[c], ExpireShares(row.data, now), now)
      BY DEF StoreInv
    <3>2. now \in since[c]..now
      BY DEF Past, StoreInv
    <3> QED BY <2>1, <3>1, <3>2 DEF DecidedOn, call
  <2>2. CASE e # c
    <3>1. pc[e] = "draft" /\ Fresh(e) /\ draft'[e] = draft[e]
      BY <2>2 DEF StoreInv, Fresh
    <3> QED BY <3>1, DecisionStands DEF Decided, call, StoreInv
  <2> QED BY <2>1, <2>2
<1> QED BY <1>2, <1>3, <1>4

LEMMA DecideInv == ASSUME IInv, NEW c \in Calls, Decide(c) PROVE IInv'
<1>1. holder[Process[c]] \in {None, c} /\ pc[c] # "new"
  BY DEF IInv, StoreInv, Decide
<1>2. CASE Refused(op[c], ExpireShares(row.data, now), now)
  BY <1>1, <1>2, LeaveInv DEF Decide, Ended
<1>3. CASE ~Refused(op[c], ExpireShares(row.data, now), now)
  BY <1>3, DraftInv DEF Decide
<1> QED BY <1>2, <1>3

\* A race is lost, and the call will decide again.
LEMMA RetryInv ==
  ASSUME IInv, NEW c \in Calls, pc[c] = "draft",
         pc' = [pc EXCEPT ![c] = "again"],
         base' = [base EXCEPT ![c] = 0],
         draft' = [draft EXCEPT ![c] = None],
         tries' = [tries EXCEPT ![c] = @ + 1],
         UNCHANGED <<row, holder, now, call>>
  PROVE  IInv'
<1> USE DEF IInv
<1>1. StoreInv'
  <2>1. draft' = [e \in Calls |-> draft'[e]]
    BY DEF StoreInv
  <2> QED BY <2>1 DEF StoreInv, call
<1>2. Past'
  BY DEF Past, StoreInv, call
<1>3. Decided'
  <2> SUFFICES ASSUME NEW e \in Calls, pc'[e] = "draft", Fresh(e)'
               PROVE  DecidedOn(e, row.data)'
    BY DEF Decided
  <2>1. e # c /\ pc[e] = "draft" /\ Fresh(e) /\ draft'[e] = draft[e]
    BY DEF StoreInv, Fresh
  <2> QED BY <2>1, DecisionStands DEF Decided, call, StoreInv
<1> QED BY <1>1, <1>2, <1>3

LEMMA SaveStepInv == ASSUME IInv, NEW c \in Calls, Save(c) PROVE IInv'
<1>1. holder[Process[c]] = c
  BY DEF IInv, StoreInv, Save
<1>2. CASE Fresh(c)
  BY <1>2, SaveInv DEF Save, Ended
<1>3. CASE ~Fresh(c) /\ tries[c] >= MaxCASRetries
  BY <1>1, <1>3, LeaveInv DEF Save, Ended
<1>4. CASE ~Fresh(c) /\ ~(tries[c] >= MaxCASRetries)
  BY <1>4, RetryInv DEF Save
<1> QED BY <1>2, <1>3, <1>4

LEMMA CrashInv == ASSUME IInv, NEW p \in Processes, Crash(p) PROVE IInv'
<1> DEFINE dead == {c \in Calls : Process[c] = p /\ pc[c] \notin {"new"} \cup Ended}
<1> USE DEF IInv
<1>1. /\ pc' = [c \in Calls |-> IF c \in dead THEN "failed" ELSE pc[c]]
      /\ holder' = [holder EXCEPT ![p] = None]
      /\ base' = [c \in Calls |-> IF c \in dead THEN 0 ELSE base[c]]
      /\ draft' = [c \in Calls |-> IF c \in dead THEN None ELSE draft[c]]
      /\ tries' = [c \in Calls |-> IF c \in dead THEN 0 ELSE tries[c]]
      /\ UNCHANGED <<row, now, call>>
  BY DEF Crash
<1>2. StoreInv'
  <2>1. /\ holder' \in [Processes -> Calls \cup {None}]
        /\ pc' \in [Calls -> {"new", "asked", "draft", "again"} \cup Ended]
        /\ base' \in [Calls -> Nat] /\ tries' \in [Calls -> Nat]
        /\ draft' = [c \in Calls |-> draft'[c]]
    BY <1>1 DEF StoreInv, Ended
  <2>2. \A e \in Calls : pc'[e] \in {"draft", "again"} <=> holder'[Process[e]] = e
    <3> TAKE e \in Calls
    <3>1. CASE Process[e] = p
      <4>1. holder'[Process[e]] = None
        BY <1>1, <3>1 DEF StoreInv
      <4>2. pc'[e] \notin {"draft", "again"}
        BY <1>1, <3>1 DEF Ended
      <4> QED BY <4>1, <4>2, StoreAssumption
    <3>2. CASE Process[e] # p
      <4>1. holder'[Process[e]] = holder[Process[e]] /\ pc'[e] = pc[e]
        BY <1>1, <3>2 DEF StoreInv, Processes
      <4> QED BY <4>1 DEF StoreInv
    <3> QED BY <3>1, <3>2
  <2> QED BY <1>1, <2>1, <2>2 DEF StoreInv, call
<1>3. Past'
  BY <1>1 DEF Past, StoreInv, call, Ended
<1>4. Decided'
  <2> SUFFICES ASSUME NEW e \in Calls, pc'[e] = "draft", Fresh(e)'
               PROVE  DecidedOn(e, row.data)'
    BY DEF Decided
  <2>1. e \notin dead
    BY <1>1
  <2>2. pc[e] = "draft" /\ Fresh(e) /\ draft'[e] = draft[e]
    BY <1>1, <2>1 DEF Fresh
  <2> QED BY <1>1, <2>2, DecisionStands DEF Decided, call, StoreInv
<1> QED BY <1>2, <1>3, <1>4

LEMMA TickInv == ASSUME IInv, Tick PROVE IInv'
<1> USE DEF IInv, Tick
<1>1. StoreInv'
  BY DEF StoreInv, call
<1>2. Past'
  BY DEF Past, StoreInv, call
<1>3. Decided'
  <2> SUFFICES ASSUME NEW e \in Calls, pc'[e] = "draft", Fresh(e)'
               PROVE  DecidedOn(e, row.data)'
    BY DEF Decided
  <2>1. pc[e] = "draft" /\ Fresh(e)
    BY DEF Fresh
  <2> QED BY <2>1, DecisionStands DEF Decided, call, StoreInv
<1> QED BY <1>1, <1>2, <1>3

\* The store's invariant holds in every reachable state.
THEOREM Invariance == Spec => []IInv
<1>1. ASSUME IInv, [Next]_vars PROVE IInv'
  <2>1. ASSUME NEW c \in Calls, Ask(c) PROVE IInv'
    BY <1>1, <2>1, AskInv
  <2>2. ASSUME NEW c \in Calls, Decide(c) PROVE IInv'
    BY <1>1, <2>2, DecideInv
  <2>3. ASSUME NEW c \in Calls, Save(c) PROVE IInv'
    BY <1>1, <2>3, SaveStepInv
  <2>4. ASSUME NEW c \in Calls, SaveUnheard(c) PROVE IInv'
    BY <1>1, <2>4, SaveInv DEF SaveUnheard, Ended
  <2>5. ASSUME NEW c \in Calls, BackendFails(c) PROVE IInv'
    <3>1. holder[Process[c]] \in {None, c} /\ pc[c] # "new"
      BY <1>1, <2>5 DEF IInv, StoreInv, BackendFails
    <3> QED BY <1>1, <2>5, <3>1, LeaveInv DEF BackendFails, Ended
  <2>6. ASSUME NEW p \in Processes, Crash(p) PROVE IInv'
    BY <1>1, <2>6, CrashInv
  <2>7. CASE Tick
    BY <1>1, <2>7, TickInv
  <2>8. CASE UNCHANGED vars
    BY <1>1, <2>8 DEF vars, call, IInv, StoreInv, Past, Decided, DecidedOn, Fresh
  <2> QED BY <1>1, <2>1, <2>2, <2>3, <2>4, <2>5, <2>6, <2>7, <2>8 DEF Next
<1> QED BY InitInv, <1>1, PTL DEF Spec

-----------------------------------------------------------------------------
(* Every step of the store is a step of AtomicPanel, or none of its.       *)

\* What the callers see of a call, as Linearizable maps it.
Status == [c \in Calls |-> IF pc[c] \in {"draft", "again"} THEN "asked" ELSE pc[c]]

\* The decisions are those of Panel on both sides.
LEMMA SameDecisions ==
  /\ \A d, t : Atomic!Asks(d, t) = Asks(d, t)
  /\ \A d, t : Atomic!ExpireShares(d, t) = ExpireShares(d, t)
  /\ \A o, d, t : Atomic!Refused(o, d, t) <=> Refused(o, d, t)
  /\ \A c, o, d, t : Atomic!Result(c, o, d, t) = Result(c, o, d, t)
<1>1. \A S : Atomic!Named(S) = Named(S)
  BY DEF Atomic!Named, Named
<1>2. \A d, t : Atomic!Asks(d, t) = Asks(d, t)
  BY <1>1, Zenon DEF Atomic!Asks, Asks
<1>3. \A d, t : Atomic!ExpireShares(d, t) = ExpireShares(d, t)
  BY Zenon DEF Atomic!ExpireShares, ExpireShares, Atomic!Live, Live
<1>4. \A o, d, t : Atomic!Refused(o, d, t) <=> Refused(o, d, t)
  BY <1>1 DEF Atomic!Refused, Refused
<1>5. /\ \A p, d : Atomic!RemovePerson(p, d) = RemovePerson(p, d)
      /\ \A c, code, d : Atomic!Enroll(c, code, d) = Enroll(c, code, d)
      /\ \A a, d : Atomic!RemoveAccount(a, d) = RemoveAccount(a, d)
      /\ \A sh, d : Atomic!PutShare(sh, d) = PutShare(sh, d)
  BY Zenon DEF Atomic!RemovePerson, RemovePerson, Atomic!Enroll, Enroll,
     Atomic!RemoveAccount, RemoveAccount, Atomic!PutShare, PutShare
<1>6. \A c, o, d : Atomic!Contribute(c, o, d) = Contribute(c, o, d)
  BY <1>5 DEF Atomic!Contribute, Contribute
<1>7. \A c, o, d, t : Atomic!Result(c, o, d, t) = Result(c, o, d, t)
  BY <1>5, <1>6 DEF Atomic!Result, Result
<1> QED BY <1>2, <1>3, <1>4, <1>7

\* A call's turn ends: what is seen of it changes, and of no other call.
LEMMA ReturnSeen ==
  ASSUME StoreInv, NEW c \in Calls, NEW how \in Ended, Return(c, how)
  PROVE  Status' = [Status EXCEPT ![c] = how]
BY DEF StoreInv, Return, Status, Ended

LEMMA InitAtomic == Init => Atomic!Init
BY DEF Init, Atomic!Init

\* A winning save makes the change its call asked for.
LEMMA SaveAtomic ==
  ASSUME IInv, NEW c \in Calls, pc[c] = "draft", Fresh(c), Written(c),
         NEW how \in {"done", "failed"}, Return(c, how), UNCHANGED <<now, call>>
  PROVE  Atomic!Apply(c)
<1>1. Status[c] = "asked"
  BY DEF Status
<1>2. Status' = [Status EXCEPT ![c] = how]
  BY ReturnSeen DEF IInv, Ended
<1>3. row'.data = draft[c] /\ DecidedOn(c, row.data)
  BY DEF Written, IInv, Decided
<1> QED BY <1>1, <1>2, <1>3, SameDecisions DEF Atomic!Apply, DecidedOn, Status, call

\* A call that leaves with nothing written failed, for all its caller can tell.
LEMMA LeaveAtomic ==
  ASSUME IInv, NEW c \in Calls, pc[c] \in {"asked", "draft", "again"},
         Return(c, "failed"), UNCHANGED <<row, now, call>>
  PROVE  Atomic!Fail
<1>1. Status' = [Status EXCEPT ![c] = "failed"]
  BY ReturnSeen DEF IInv, Ended
<1>2. c \in {e \in Calls : Status[e] = "asked"}
  BY DEF Status
<1>3. {c} \in SUBSET {e \in Calls : Status[e] = "asked"}
  BY <1>2
<1>4. Status' = [e \in Calls |-> IF e \in {c} THEN "failed" ELSE Status[e]]
  BY <1>1 DEF Status
<1> QED BY <1>3, <1>4 DEF Atomic!Fail, Status, call

LEMMA DecideAtomic ==
  ASSUME IInv, NEW c \in Calls, Decide(c)
  PROVE  Atomic!Refuse(c) \/ UNCHANGED Atomic!vars
<1>1. Status[c] = "asked" /\ since[c] <= now /\ since[c] \in Nat /\ now \in Nat
  BY DEF IInv, StoreInv, Past, Decide, Status
<1>2. CASE Refused(op[c], ExpireShares(row.data, now), now)
  <2>1. Status' = [Status EXCEPT ![c] = "refused"]
    BY <1>2, ReturnSeen DEF Decide, IInv, Ended
  <2>2. now \in since[c]..now
    BY <1>1
  <2> QED BY <1>1, <1>2, <2>1, <2>2, SameDecisions DEF Atomic!Refuse, Decide, Status, call
<1>3. CASE ~Refused(op[c], ExpireShares(row.data, now), now)
  <2>1. Status' = Status
    BY <1>3 DEF Decide, Status, IInv, StoreInv
  <2> QED BY <1>3, <2>1 DEF Decide, Atomic!vars, Status, call
<1> QED BY <1>2, <1>3

LEMMA SaveStepAtomic ==
  ASSUME IInv, NEW c \in Calls, Save(c)
  PROVE  Atomic!Apply(c) \/ Atomic!Fail \/ UNCHANGED Atomic!vars
<1>1. CASE Fresh(c)
  BY <1>1, SaveAtomic DEF Save
<1>2. CASE ~Fresh(c) /\ tries[c] >= MaxCASRetries
  BY <1>2, LeaveAtomic DEF Save
<1>3. CASE ~Fresh(c) /\ ~(tries[c] >= MaxCASRetries)
  <2>1. Status' = Status
    BY <1>3 DEF Save, Status, IInv, StoreInv
  <2> QED BY <1>3, <2>1 DEF Save, Atomic!vars, Status, call
<1> QED BY <1>1, <1>2, <1>3

\* The calls a process dies with fail together.
LEMMA CrashAtomic == ASSUME IInv, NEW p \in Processes, Crash(p) PROVE Atomic!Fail
<1> DEFINE dead == {c \in Calls : Process[c] = p /\ pc[c] \notin {"new"} \cup Ended}
<1>1. dead \in SUBSET {e \in Calls : Status[e] = "asked"}
  BY DEF Status, IInv, StoreInv
<1>2. Status' = [e \in Calls |-> IF e \in dead THEN "failed" ELSE Status[e]]
  BY DEF Crash, Status
<1> QED BY <1>1, <1>2 DEF Atomic!Fail, Crash, Status, call

LEMMA AskAtomic == ASSUME IInv, NEW c \in Calls, Ask(c) PROVE Atomic!Ask(c)
<1>1. Status[c] = "new" /\ Status' = [Status EXCEPT ![c] = "asked"]
  BY DEF Ask, Status, IInv, StoreInv
<1> QED BY <1>1, SameDecisions DEF Ask, Atomic!Ask, Status

\* The store implements the panel that changes one whole decision at a time: a
\* call answered with success took effect once, a refused one never, and one
\* that failed at most once (Mutate).
THEOREM Implements == Spec => Linearizable
<1>1. ASSUME IInv, [Next]_vars PROVE [Atomic!Next]_(Atomic!vars)
  <2>1. ASSUME NEW c \in Calls, Ask(c) PROVE Atomic!Next
    BY <1>1, <2>1, AskAtomic DEF Atomic!Next
  <2>2. ASSUME NEW c \in Calls, Decide(c) PROVE [Atomic!Next]_(Atomic!vars)
    BY <1>1, <2>2, DecideAtomic DEF Atomic!Next
  <2>3. ASSUME NEW c \in Calls, Save(c) PROVE [Atomic!Next]_(Atomic!vars)
    BY <1>1, <2>3, SaveStepAtomic DEF Atomic!Next
  <2>4. ASSUME NEW c \in Calls, SaveUnheard(c) PROVE Atomic!Next
    BY <1>1, <2>4, SaveAtomic DEF SaveUnheard, Atomic!Next
  <2>5. ASSUME NEW c \in Calls, BackendFails(c) PROVE Atomic!Next
    BY <1>1, <2>5, LeaveAtomic DEF BackendFails, Atomic!Next
  <2>6. ASSUME NEW p \in Processes, Crash(p) PROVE Atomic!Next
    BY <1>1, <2>6, CrashAtomic DEF Atomic!Next
  <2>7. CASE Tick
    BY <2>7 DEF Tick, Atomic!Next, Atomic!Tick, Status, call
  <2>8. CASE UNCHANGED vars
    BY <2>8 DEF vars, Atomic!vars, Status, call
  <2> QED BY <1>1, <2>1, <2>2, <2>3, <2>4, <2>5, <2>6, <2>7, <2>8 DEF Next
<1> QED BY InitAtomic, Invariance, <1>1, PTL DEF Spec, Linearizable, Atomic!Spec

-----------------------------------------------------------------------------
(* What the decisions keep of the panel they are made about.               *)

\* Everything a call can ask for, whatever panel it saw.
Op == UNION {[kind : {"addPerson", "look"}],
             [kind : {"removePerson"}, person : Ids],
             [kind : {"invite"}, person : Ids, expires : Nat],
             [kind : {"enroll"}, code : Ids],
             [kind : {"removeDevice"}, device : Ids],
             [kind : {"contribute"}, by : Ids, login : Logins, end : Nat],
             [kind : {"withdraw"}, by : Ids, account : Ids],
             [kind : {"removeAccount"}, account : Ids],
             [kind : {"share"}, account : Ids, person : Ids, hours : Nat],
             [kind : {"revoke"}, share : Ids]}

\* A panel of the right shape that a unique index would accept.
Good(d) == d \in Data /\ UniquelyIndexed(d)

LEMMA AsksTyped == ASSUME NEW d \in Data, NEW t \in Nat, NEW o \in Asks(d, t) PROVE o \in Op
<1>1. /\ d.people \subseteq Ids /\ Named(d.codes) \subseteq Ids
      /\ Named(d.devices) \subseteq Ids /\ {x.person : x \in d.devices} \subseteq Ids
      /\ Named(d.accounts) \subseteq Ids /\ Named(d.shares) \subseteq Ids
  BY DEF Data, Named, Device, Account, JoinCode, Share
<1>2. t + InviteLife \in Nat /\ 1..LastEnd \subseteq Nat /\ Hours \subseteq Nat
  BY PanelAssumption
<1> DEFINE ids == {x.person : x \in d.devices}
<1> HIDE DEF ids
<1>3. /\ [kind : {"removePerson"}, person : d.people] \subseteq Op
      /\ [kind : {"invite"}, person : d.people, expires : {t + InviteLife}] \subseteq Op
      /\ [kind : {"enroll"}, code : Named(d.codes)] \subseteq Op
      /\ [kind : {"removeDevice"}, device : Named(d.devices)] \subseteq Op
      /\ [kind : {"removeAccount"}, account : Named(d.accounts)] \subseteq Op
      /\ [kind : {"revoke"}, share : Named(d.shares)] \subseteq Op
      /\ [kind : {"addPerson", "look"}] \subseteq Op
  BY <1>1, <1>2 DEF Op
<1>4. [kind : {"contribute"}, by : ids, login : Logins, end : 1..LastEnd] \subseteq Op
  BY <1>1, <1>2 DEF Op, ids
<1>5. [kind : {"withdraw"}, by : ids, account : Named(d.accounts)] \subseteq Op
  BY <1>1, <1>2 DEF Op, ids
<1>6. [kind : {"share"}, account : Named(d.accounts), person : d.people, hours : Hours]
        \subseteq Op
  BY <1>1, <1>2 DEF Op
<1> QED BY <1>3, <1>4, <1>5, <1>6 DEF Asks, ids

LEMMA ExpireGood == ASSUME NEW d, Good(d), NEW t PROVE Good(ExpireShares(d, t))
BY DEF Good, ExpireShares, Data, UniquelyIndexed

LEMMA RemovePersonGood == ASSUME NEW d, Good(d), NEW p PROVE Good(RemovePerson(p, d))
BY DEF Good, RemovePerson, Data, UniquelyIndexed

LEMMA RemoveAccountGood == ASSUME NEW d, Good(d), NEW a PROVE Good(RemoveAccount(a, d))
BY DEF Good, RemoveAccount, Data, UniquelyIndexed

LEMMA PutShareGood ==
  ASSUME NEW d, Good(d), NEW sh \in Share PROVE Good(PutShare(sh, d))
BY DEF Good, PutShare, Data, UniquelyIndexed, Share

LEMMA EnrollGood ==
  ASSUME NEW d, Good(d), NEW c \in Ids, NEW code, \E x \in d.codes : x.id = code
  PROVE  Good(Enroll(c, code, d))
<1> DEFINE found == CHOOSE x \in d.codes : x.id = code
<1>1. found \in d.codes
  OBVIOUS
<1>2. found \in JoinCode
  BY <1>1 DEF Good, Data
<1>3. /\ [found EXCEPT !.used = TRUE] \in JoinCode
      /\ [id |-> c, person |-> found.person] \in Device
  BY <1>2 DEF JoinCode, Device
<1> HIDE DEF found
<1>4. Good([d EXCEPT !.codes   = (@ \ {found}) \cup {[found EXCEPT !.used = TRUE]},
                     !.devices = @ \cup {[id |-> c, person |-> found.person]}])
  BY <1>3 DEF Good, Data, UniquelyIndexed
<1> QED BY <1>4 DEF Enroll, found

LEMMA ContributeGood ==
  ASSUME NEW d, Good(d), NEW c \in Ids,
         NEW o \in [kind : {"contribute"}, by : Ids, login : Logins, end : Nat]
  PROVE  Good(Contribute(c, o, d))
<1> DEFINE held == {a \in d.accounts : a.login = o.login}
           new  == [id |-> c, login |-> o.login, addedBy |-> o.by, end |-> o.end]
           old  == CHOOSE a \in held : TRUE
           acct == IF held = {} THEN new ELSE [old EXCEPT !.end = o.end]
           rest == IF held = {} THEN d.accounts ELSE d.accounts \ {old}
           kept == [d EXCEPT !.accounts = rest \cup {acct}]
           sh   == [id |-> c, account |-> acct.id, person |-> o.by, until |-> 0]
<1>1. acct \in Account /\ acct.login = o.login
  <2>1. CASE held = {}
    BY <2>1 DEF Account
  <2>2. CASE held # {}
    <3>1. old \in held
      BY <2>2
    <3>2. old \in Account /\ old.login = o.login
      BY <3>1 DEF Good, Data
    <3> QED BY <2>2, <3>2 DEF Account
  <2> QED BY <2>1, <2>2
<1>2. rest \subseteq d.accounts /\ \A a \in rest : a.login # o.login
  <2>1. CASE held = {}
    BY <2>1
  <2>2. CASE held # {}
    <3>1. old \in held
      BY <2>2
    <3> QED BY <2>2, <3>1 DEF Good, UniquelyIndexed
  <2> QED BY <2>1, <2>2
<1> HIDE DEF held, old, acct, rest
<1>3. Good(kept)
  BY <1>1, <1>2 DEF Good, Data, UniquelyIndexed
<1>4. sh \in Share
  BY <1>1 DEF Share, Account
<1> HIDE DEF sh, kept
<1>5. Good(PutShare(sh, kept))
  BY <1>3, <1>4, PutShareGood
<1>6. Contribute(c, o, d) = kept \/ Contribute(c, o, d) = PutShare(sh, kept)
  BY DEF Contribute, held, old, acct, rest, kept, sh
<1> QED BY <1>3, <1>5, <1>6

\* No decision makes a second account for a login, or gives a person a second key
\* to an account.
LEMMA ResultGood ==
  ASSUME NEW d, Good(d), NEW c \in Calls, NEW o \in Op, NEW t \in Nat, ~Refused(o, d, t)
  PROVE  Good(Result(c, o, d, t))
<1> USE PanelAssumption
<1>1. CASE o.kind = "addPerson"
  BY <1>1 DEF Result, Good, Data, UniquelyIndexed
<1>2. CASE o.kind = "removePerson"
  BY <1>2, RemovePersonGood DEF Result
<1>3. CASE o.kind = "invite"
  <2>1. [id |-> c, person |-> o.person, expires |-> o.expires, used |-> FALSE] \in JoinCode
    BY <1>3 DEF Op, JoinCode
  <2> QED BY <1>3, <2>1 DEF Result, Good, Data, UniquelyIndexed
<1>4. CASE o.kind = "enroll"
  BY <1>4, EnrollGood DEF Result, Refused
<1>5. CASE o.kind = "removeDevice"
  BY <1>5 DEF Result, Good, Data, UniquelyIndexed
<1>6. CASE o.kind = "contribute"
  BY <1>6, ContributeGood DEF Result, Op
<1>7. CASE o.kind \in {"withdraw", "removeAccount"}
  BY <1>7, RemoveAccountGood DEF Result
<1>8. CASE o.kind = "share"
  <2>1. [id |-> c, account |-> o.account, person |-> o.person,
         until |-> IF o.hours = 0 THEN 0 ELSE t + o.hours] \in Share
    BY <1>8 DEF Op, Share
  <2> QED BY <1>8, <2>1, PutShareGood DEF Result
<1>9. CASE o.kind = "revoke"
  BY <1>9 DEF Result, Good, Data, UniquelyIndexed
<1>10. CASE o.kind = "look"
  BY <1>10 DEF Result
<1> QED BY <1>1, <1>2, <1>3, <1>4, <1>5, <1>6, <1>7, <1>8, <1>9, <1>10 DEF Op

\* What the store holds, is about to write, and was asked for.
DataInv ==
    /\ row \in [version : Nat, data : Data] /\ UniqueIndexes
    /\ op \in [Calls -> Op \cup {None}]
    /\ \A c \in Calls : pc[c] # "new" => op[c] \in Op
    /\ draft \in [Calls -> Data \cup {None}]
    /\ \A c \in Calls : pc[c] = "draft" => Good(draft[c])

\* A decision's panel is as good as the row it was read from.
LEMMA DecideData ==
  ASSUME StoreInv, DataInv, NEW c \in Calls, Decide(c) PROVE DataInv'
<1> DEFINE d == ExpireShares(row.data, now)
<1>1. op[c] \in Op /\ Good(d)
  BY ExpireGood DEF DataInv, Decide, Good, UniqueIndexes
<1>2. CASE Refused(op[c], d, now)
  <2>1. Return(c, "refused") /\ UNCHANGED <<row, op>>
    BY <1>2 DEF Decide, call
  <2> HIDE DEF d
  <2>2. draft' \in [Calls -> Data \cup {None}]
    BY <2>1 DEF Return, DataInv
  <2>3. \A e \in Calls : pc'[e] = "draft" => pc[e] = "draft" /\ draft'[e] = draft[e]
    BY <2>1 DEF Return, DataInv, StoreInv
  <2>4. \A e \in Calls : pc'[e] # "new" => pc[e] # "new"
    BY <2>1 DEF Decide, Return, StoreInv
  <2> QED BY <2>1, <2>2, <2>3, <2>4 DEF DataInv, UniqueIndexes
<1>3. CASE ~Refused(op[c], d, now)
  <2>1. Good(Result(c, op[c], d, now))
    BY <1>1, <1>3, ResultGood DEF StoreInv
  <2>2. draft' = [draft EXCEPT ![c] = Result(c, op[c], d, now)]
    BY <1>3 DEF Decide
  <2> HIDE DEF d
  <2>3. draft' \in [Calls -> Data \cup {None}]
    BY <2>1, <2>2 DEF DataInv, Good
  <2>4. \A e \in Calls : pc'[e] = "draft" => Good(draft'[e])
    BY <1>3, <2>1, <2>2 DEF Decide, DataInv, StoreInv, d
  <2>5. /\ UNCHANGED <<row, op>>
        /\ \A e \in Calls : pc'[e] # "new" => pc[e] # "new"
    BY <1>1, <1>3 DEF Decide, StoreInv, call, d
  <2> QED BY <2>3, <2>4, <2>5 DEF DataInv, UniqueIndexes
<1> QED BY <1>2, <1>3

\* A save writes a good panel.
LEMMA WriteData ==
  ASSUME StoreInv, DataInv, NEW c \in Calls, pc[c] = "draft", Written(c),
         NEW how \in Ended, Return(c, how), UNCHANGED <<now, call>>
  PROVE  DataInv'
<1>1. Good(draft[c])
  BY DEF DataInv
<1>2. row' \in [version : Nat, data : Data] /\ UniqueIndexes'
  BY <1>1 DEF Written, Good, StoreInv, UniqueIndexes
<1>3. /\ draft' \in [Calls -> Data \cup {None}]
      /\ \A e \in Calls : pc'[e] = "draft" => pc[e] = "draft" /\ draft'[e] = draft[e]
      /\ \A e \in Calls : pc'[e] # "new" => pc[e] # "new"
  BY DEF DataInv, Return, StoreInv, Ended
<1> QED BY <1>2, <1>3 DEF DataInv, call

\* A step that writes nothing and decides nothing.
LEMMA KeepData ==
  ASSUME DataInv, UNCHANGED <<row, op>>, draft' \in [Calls -> Data \cup {None}],
         \A e \in Calls : /\ pc'[e] = "draft" => pc[e] = "draft" /\ draft'[e] = draft[e]
                          /\ pc'[e] # "new" => pc[e] # "new"
  PROVE  DataInv'
BY DEF DataInv, UniqueIndexes

LEMMA DataInvariance == Spec => []DataInv
<1>1. Init => DataInv
  BY OpeningAssumption DEF Init, DataInv, UniqueIndexes
<1>2. ASSUME StoreInv, DataInv, [Next]_vars PROVE DataInv'
  <2>1. ASSUME NEW c \in Calls, Ask(c) PROVE DataInv'
    <3>1. PICK o \in Asks(row.data, now) : op' = [op EXCEPT ![c] = o]
      BY <2>1 DEF Ask
    <3>2. o \in Op
      BY <1>2, AsksTyped DEF DataInv, StoreInv
    <3> QED BY <1>2, <2>1, <3>1, <3>2 DEF Ask, DataInv, StoreInv, UniqueIndexes
  <2>2. ASSUME NEW c \in Calls, Decide(c) PROVE DataInv'
    BY <1>2, <2>2, DecideData
  <2>3. ASSUME NEW c \in Calls, Save(c) PROVE DataInv'
    <3>1. CASE Fresh(c)
      BY <1>2, <2>3, <3>1, WriteData DEF Save, Ended
    <3>2. CASE ~Fresh(c)
      <4>1. /\ UNCHANGED <<row, op>>
            /\ draft' = [draft EXCEPT ![c] = None]
            /\ \E s \in {"failed", "again"} : pc' = [pc EXCEPT ![c] = s]
        BY <2>3, <3>2 DEF Save, Return, call
      <4>2. /\ draft' \in [Calls -> Data \cup {None}]
            /\ \A e \in Calls : /\ pc'[e] = "draft" => pc[e] = "draft" /\ draft'[e] = draft[e]
                                /\ pc'[e] # "new" => pc[e] # "new"
        BY <1>2, <2>3, <4>1 DEF DataInv, StoreInv, Save
      <4> QED BY <1>2, <4>1, <4>2, KeepData
    <3> QED BY <3>1, <3>2
  <2>4. ASSUME NEW c \in Calls, SaveUnheard(c) PROVE DataInv'
    BY <1>2, <2>4, WriteData DEF SaveUnheard, Ended
  <2>5. ASSUME NEW c \in Calls, BackendFails(c) PROVE DataInv'
    <3>1. /\ draft' \in [Calls -> Data \cup {None}]
          /\ \A e \in Calls : /\ pc'[e] = "draft" => pc[e] = "draft" /\ draft'[e] = draft[e]
                              /\ pc'[e] # "new" => pc[e] # "new"
      BY <1>2, <2>5 DEF BackendFails, Return, DataInv, StoreInv
    <3> QED BY <1>2, <2>5, <3>1, KeepData DEF BackendFails, call
  <2>6. ASSUME NEW p \in Processes, Crash(p) PROVE DataInv'
    <3>1. /\ draft' \in [Calls -> Data \cup {None}]
          /\ \A e \in Calls : /\ pc'[e] = "draft" => pc[e] = "draft" /\ draft'[e] = draft[e]
                              /\ pc'[e] # "new" => pc[e] # "new"
      BY <1>2, <2>6 DEF Crash, DataInv, StoreInv, Ended
    <3> QED BY <1>2, <2>6, <3>1, KeepData DEF Crash, call
  <2>7. CASE Tick
    BY <1>2, <2>7 DEF Tick, call, DataInv, UniqueIndexes
  <2>8. CASE UNCHANGED vars
    BY <1>2, <2>8 DEF vars, call, DataInv, UniqueIndexes
  <2> QED BY <1>2, <2>1, <2>2, <2>3, <2>4, <2>5, <2>6, <2>7, <2>8 DEF Next
<1>3. Spec => []StoreInv
  BY Invariance, PTL DEF IInv
<1> QED BY <1>1, <1>2, <1>3, PTL DEF Spec

\* Every variable keeps its type, a mutex is held by exactly the call that is
\* between its read and its save, and nothing unread is ever saved.
THEOREM TypeCorrect == Spec => []TypeOK
<1>1. StoreInv /\ DataInv => TypeOK
  BY StoreAssumption DEF StoreInv, DataInv, TypeOK, Good
<1> QED BY <1>1, Invariance, DataInvariance, PTL DEF IInv

\* One account for a login and one key for a person on an account, whatever is
\* asked of the panel and however the calls interleave and fail.
THEOREM UniquelyIndexedAlways == Spec => []UniqueIndexes
<1>1. DataInv => UniqueIndexes
  BY DEF DataInv
<1> QED BY <1>1, DataInvariance, PTL

-----------------------------------------------------------------------------
(* A race is lost only to a save.                                          *)

RaceInv ==
    \A c \in Calls :
        /\ pc[c] \in {"new", "asked"} => tries[c] = 0
        /\ pc[c] = "draft" => tries[c] <= base[c]
        /\ pc[c] = "again" => tries[c] <= row.version

\* One call leaves; the row may have moved on.
LEMMA ReturnRace ==
  ASSUME StoreInv, RaceInv, NEW c \in Calls, NEW how \in Ended, Return(c, how),
         row'.version \in Nat, row.version <= row'.version
  PROVE  RaceInv'
BY DEF StoreInv, RaceInv, Return, Ended

LEMMA RaceInvariance == Spec => []RaceInv
<1>1. Init => RaceInv
  BY DEF Init, RaceInv
<1>2. ASSUME IInv, RaceInv, [Next]_vars PROVE RaceInv'
  <2>1. ASSUME NEW c \in Calls, Ask(c) PROVE RaceInv'
    BY <1>2, <2>1 DEF Ask, IInv, StoreInv, RaceInv
  <2>2. ASSUME NEW c \in Calls, Decide(c) PROVE RaceInv'
    <3>1. CASE Refused(op[c], ExpireShares(row.data, now), now)
      BY <1>2, <2>2, <3>1, ReturnRace DEF Decide, IInv, StoreInv, Ended
    <3>2. CASE ~Refused(op[c], ExpireShares(row.data, now), now)
      BY <1>2, <2>2, <3>2 DEF Decide, IInv, StoreInv, RaceInv
    <3> QED BY <3>1, <3>2
  <2>3. ASSUME NEW c \in Calls, Save(c) PROVE RaceInv'
    <3>1. CASE Fresh(c)
      BY <1>2, <2>3, <3>1, ReturnRace DEF Save, Written, IInv, StoreInv, Ended
    <3>2. CASE ~Fresh(c) /\ tries[c] >= MaxCASRetries
      BY <1>2, <2>3, <3>2, ReturnRace DEF Save, IInv, StoreInv, Ended
    <3>3. CASE ~Fresh(c) /\ ~(tries[c] >= MaxCASRetries)
      <4>1. base[c] < row.version
        BY <1>2, <2>3, <3>3 DEF Save, Fresh, IInv, StoreInv, Past
      <4> QED BY <1>2, <2>3, <3>3, <4>1 DEF Save, IInv, StoreInv, RaceInv
    <3> QED BY <3>1, <3>2, <3>3
  <2>4. ASSUME NEW c \in Calls, SaveUnheard(c) PROVE RaceInv'
    BY <1>2, <2>4, ReturnRace DEF SaveUnheard, Written, IInv, StoreInv, Ended
  <2>5. ASSUME NEW c \in Calls, BackendFails(c) PROVE RaceInv'
    BY <1>2, <2>5, ReturnRace DEF BackendFails, IInv, StoreInv, Ended
  <2>6. ASSUME NEW p \in Processes, Crash(p) PROVE RaceInv'
    BY <1>2, <2>6 DEF Crash, IInv, StoreInv, RaceInv, Ended
  <2>7. CASE Tick \/ UNCHANGED vars
    BY <1>2, <2>7 DEF Tick, vars, call, RaceInv
  <2> QED BY <1>2, <2>1, <2>2, <2>3, <2>4, <2>5, <2>6, <2>7 DEF Next
<1> QED BY <1>1, <1>2, Invariance, PTL DEF Spec

\* A call's decision has seen at least as many saves as the races it lost: the
\* retries are bounded without everyone giving up at once (maxCASRetries).
THEOREM LosersMeanWinners == Spec => []LostRaceMeansProgress
<1>1. RaceInv => LostRaceMeansProgress
  BY DEF RaceInv, LostRaceMeansProgress
<1> QED BY <1>1, RaceInvariance, PTL
-----------------------------------------------------------------------------
(* What is taken away stays away, and an invite is used once.               *)

\* An id that no call will mint any more.
Old(x) == x \in Calls => pc[x] \in Ended

\* What a call asked about was on the panel.
NamesOld(o) ==
    /\ o.kind = "removePerson" => Old(o.person)
    /\ o.kind = "removeDevice" => Old(o.device)
    /\ o.kind \in {"withdraw", "removeAccount"} => Old(o.account)
    /\ o.kind = "revoke" => Old(o.share)
    /\ o.kind = "enroll" => Old(o.code)

AllOld ==
    /\ \A p \in row.data.people : Old(p)
    /\ \A x \in row.data.devices : Old(x.id)
    /\ \A x \in row.data.codes : Old(x.id)
    /\ \A x \in row.data.accounts : Old(x.id)
    /\ \A x \in row.data.shares : Old(x.id)
    /\ \A c \in Calls : pc[c] # "new" => NamesOld(op[c])

\* Panel d has nothing left of what o takes away.
Gone(o, d) ==
    /\ o.kind = "removePerson" => o.person \notin d.people
    /\ o.kind = "removeDevice" => \A x \in d.devices : x.id # o.device
    /\ o.kind \in {"withdraw", "removeAccount"} =>
          /\ \A x \in d.accounts : x.id # o.account
          /\ \A sh \in d.shares : sh.account # o.account
    /\ o.kind = "revoke" => \A sh \in d.shares : sh.id # o.share

AllGone == \A c \in Calls : pc[c] = "done" => Gone(op[c], row.data)

\* A call that enrolled a machine, whatever it was told.
Enrolled(e) ==
    /\ op[e] # None /\ op[e].kind = "enroll"
    /\ pc[e] = "done" \/ \E x \in row.data.devices : x.id = e

Spent ==
    /\ \A x, y \in row.data.codes : x.id = y.id => x = y
    /\ \A e \in Calls : Enrolled(e) => \A x \in row.data.codes : x.id = op[e].code => x.used
    /\ \A c, e \in Calls : Enrolled(c) /\ Enrolled(e) /\ op[c].code = op[e].code => c = e

KeptInv == AllOld /\ AllGone /\ Spent

\* What a decision adds to the panel has the id of its call, but for a newer sign-in
\* of an account and a code that is now used; a new key is to an account there is.
Grown(c, d, r) ==
    /\ \A p \in r.people : p \in d.people \/ p = c
    /\ \A x \in r.devices : x \in d.devices \/ x.id = c
    /\ \A x \in r.codes : x.id = c \/ \E y \in d.codes : y.id = x.id /\ (y.used => x.used)
    /\ \A x \in r.accounts : x.id = c \/ \E y \in d.accounts : y.id = x.id
    /\ \A x \in r.shares :
          \/ x \in d.shares
          \/ x.id = c /\ (x.account = c \/ \E y \in d.accounts : y.id = x.account)

LEMMA ExpireGrows == ASSUME NEW d \in Data, NEW t, NEW c, NEW r, Grown(c, ExpireShares(d, t), r)
                     PROVE  Grown(c, d, r)
BY DEF Grown, ExpireShares, Data

LEMMA PutShareGrows ==
  ASSUME NEW d \in Data, NEW c, NEW k, Grown(c, d, k), NEW sh \in Share, sh.id = c,
         k \in Data, sh.account = c \/ \E y \in d.accounts : y.id = sh.account
  PROVE  Grown(c, d, PutShare(sh, k))
BY DEF Grown, PutShare, Data

LEMMA ContributeGrows ==
  ASSUME NEW d, Good(d), NEW c \in Ids,
         NEW o \in [kind : {"contribute"}, by : Ids, login : Logins, end : Nat]
  PROVE  Grown(c, d, Contribute(c, o, d))
<1> DEFINE held == {a \in d.accounts : a.login = o.login}
           new  == [id |-> c, login |-> o.login, addedBy |-> o.by, end |-> o.end]
           old  == CHOOSE a \in held : TRUE
           acct == IF held = {} THEN new ELSE [old EXCEPT !.end = o.end]
           rest == IF held = {} THEN d.accounts ELSE d.accounts \ {old}
           kept == [d EXCEPT !.accounts = rest \cup {acct}]
           sh   == [id |-> c, account |-> acct.id, person |-> o.by, until |-> 0]
<1>1. acct \in Account /\ (acct.id = c \/ \E y \in d.accounts : y.id = acct.id)
  <2>1. CASE held = {}
    BY <2>1 DEF Account
  <2>2. CASE held # {}
    <3>1. old \in held
      BY <2>2
    <3>2. old \in Account /\ old \in d.accounts
      BY <3>1 DEF Good, Data
    <3> QED BY <2>2, <3>2 DEF Account
  <2> QED BY <2>1, <2>2
<1>2. rest \subseteq d.accounts
  OBVIOUS
<1> HIDE DEF held, old, acct, rest
<1>3. kept \in Data /\ Grown(c, d, kept)
  BY <1>1, <1>2 DEF Good, Data, Grown
<1>4. sh \in Share /\ sh.id = c /\ sh.account = acct.id
  BY <1>1 DEF Share, Account
<1> HIDE DEF sh, kept
<1>5. Grown(c, d, PutShare(sh, kept))
  BY <1>1, <1>3, <1>4, PutShareGrows DEF Good
<1>6. Contribute(c, o, d) = kept \/ Contribute(c, o, d) = PutShare(sh, kept)
  BY DEF Contribute, held, old, acct, rest, kept, sh
<1> QED BY <1>3, <1>5, <1>6

LEMMA EnrollGrows ==
  ASSUME NEW d, Good(d), NEW c \in Ids, NEW code, \E x \in d.codes : x.id = code
  PROVE  /\ Grown(c, d, Enroll(c, code, d))
         /\ Enroll(c, code, d).codes \subseteq JoinCode
         /\ (\A x, y \in d.codes : x.id = y.id => x = y) =>
              \A x \in Enroll(c, code, d).codes :
                 /\ x.id = code => x.used
                 /\ \A y \in Enroll(c, code, d).codes : x.id = y.id => x = y
<1> DEFINE found == CHOOSE x \in d.codes : x.id = code
           used  == [found EXCEPT !.used = TRUE]
           made  == [id |-> c, person |-> found.person]
           r     == [d EXCEPT !.codes = (@ \ {found}) \cup {used}, !.devices = @ \cup {made}]
<1>1. found \in d.codes /\ found.id = code
  OBVIOUS
<1>2. found \in JoinCode
  BY <1>1 DEF Good, Data
<1>3. used \in JoinCode /\ used.id = code /\ used.used /\ made \in Device /\ made.id = c
  BY <1>1, <1>2 DEF JoinCode, Device
<1>4. Enroll(c, code, d) = r
  BY DEF Enroll
<1> HIDE DEF found, used, made
<1>5. /\ r.codes = (d.codes \ {found}) \cup {used} /\ r.devices = d.devices \cup {made}
      /\ r.people = d.people /\ r.accounts = d.accounts /\ r.shares = d.shares
      /\ d.codes \subseteq JoinCode
  BY DEF Good, Data
<1> HIDE DEF r
<1>6. Grown(c, d, r)
  BY <1>1, <1>3, <1>5 DEF Grown
<1>7. ASSUME \A x, y \in d.codes : x.id = y.id => x = y
      PROVE  \A x \in r.codes : /\ x.id = code => x.used
                                /\ \A y \in r.codes : x.id = y.id => x = y
  BY <1>1, <1>3, <1>5, <1>7
<1> QED BY <1>3, <1>4, <1>5, <1>6, <1>7

LEMMA ResultGrows ==
  ASSUME NEW d, Good(d), NEW c \in Calls, NEW o \in Op, NEW t \in Nat, ~Refused(o, d, t)
  PROVE  Grown(c, d, Result(c, o, d, t))
<1> USE PanelAssumption
<1>1. CASE o.kind = "addPerson"
  BY <1>1 DEF Result, Good, Data, Grown
<1>2. CASE o.kind = "removePerson"
  BY <1>2 DEF Result, RemovePerson, Good, Data, Grown
<1>3. CASE o.kind = "invite"
  <2>1. [id |-> c, person |-> o.person, expires |-> o.expires, used |-> FALSE] \in JoinCode
    BY <1>3 DEF Op, JoinCode
  <2> QED BY <1>3, <2>1 DEF Result, Good, Data, Grown
<1>4. CASE o.kind = "enroll"
  BY <1>4, EnrollGrows DEF Result, Refused
<1>5. CASE o.kind = "removeDevice"
  BY <1>5 DEF Result, Good, Data, Grown
<1>6. CASE o.kind = "contribute"
  BY <1>6, ContributeGrows DEF Result, Op
<1>7. CASE o.kind \in {"withdraw", "removeAccount"}
  BY <1>7 DEF Result, RemoveAccount, Good, Data, Grown
<1>8. CASE o.kind = "share"
  <2> DEFINE sh == [id |-> c, account |-> o.account, person |-> o.person,
                    until |-> IF o.hours = 0 THEN 0 ELSE t + o.hours]
  <2>1. sh \in Share /\ sh.id = c /\ sh.account = o.account
    BY <1>8 DEF Op, Share
  <2>2. \E y \in d.accounts : y.id = o.account
    BY <1>8 DEF Refused, Named
  <2>3. Grown(c, d, d)
    BY DEF Grown
  <2>4. Result(c, o, d, t) = PutShare(sh, d)
    BY <1>8 DEF Result
  <2> HIDE DEF sh
  <2> QED BY <2>1, <2>2, <2>3, <2>4, PutShareGrows DEF Good
<1>9. CASE o.kind = "revoke"
  BY <1>9 DEF Result, Good, Data, Grown
<1>10. CASE o.kind = "look"
  BY <1>10 DEF Result, Grown
<1> QED BY <1>1, <1>2, <1>3, <1>4, <1>5, <1>6, <1>7, <1>8, <1>9, <1>10 DEF Op

\* A decision to take something away does.
LEMMA ResultGone ==
  ASSUME NEW d \in Data, NEW c, NEW o, NEW t
  PROVE  Gone(o, Result(c, o, d, t))
BY DEF Gone, Result, RemovePerson, RemoveAccount, Data

\* Something gone does not come with an id of its own.
LEMMA GrownGone ==
  ASSUME NEW d, NEW c, NEW r, Grown(c, d, r), NEW o, Gone(o, d),
         /\ o.kind = "removePerson" => o.person # c
         /\ o.kind = "removeDevice" => o.device # c
         /\ o.kind \in {"withdraw", "removeAccount"} => o.account # c
         /\ o.kind = "revoke" => o.share # c
  PROVE  Gone(o, r)
BY DEF Grown, Gone

\* But for enrolling, no decision changes a code there is; a new one is the call's.
LEMMA CodesKept ==
  ASSUME NEW d, Good(d), NEW c \in Calls, NEW o \in Op, NEW t \in Nat, ~Refused(o, d, t),
         o.kind # "enroll"
  PROVE  LET r == Result(c, o, d, t) IN
         /\ \A x \in r.codes : x \in d.codes \/ x.id = c
         /\ \A x, y \in r.codes : x.id = c /\ y.id = c => x \in d.codes \/ y \in d.codes \/ x = y
         /\ r.devices \subseteq d.devices
<1>1. CASE o.kind = "contribute"
  BY <1>1 DEF Result, Contribute, PutShare, Good, Data
<1>2. CASE o.kind \in {"removePerson", "withdraw", "removeAccount", "share"}
  BY <1>2 DEF Result, RemovePerson, RemoveAccount, PutShare, Good, Data
<1>3. CASE o.kind \in {"addPerson", "removeDevice", "revoke", "look"}
  BY <1>3 DEF Result, Good, Data
<1>4. CASE o.kind = "invite"
  <2> DEFINE made == [id |-> c, person |-> o.person, expires |-> o.expires, used |-> FALSE]
             r    == [d EXCEPT !.codes = @ \cup {made}]
  <2>1. r.codes = d.codes \cup {made} /\ r.devices = d.devices /\ made.id = c
    BY DEF Good, Data
  <2>2. Result(c, o, d, t) = r
    BY <1>4 DEF Result
  <2> HIDE DEF made, r
  <2> QED BY <2>1, <2>2
<1>5. o.kind \in {"contribute", "addPerson", "look", "removePerson", "invite", "removeDevice",
                  "withdraw", "removeAccount", "share", "revoke"}
  BY DEF Op
<1> QED BY <1>1, <1>2, <1>3, <1>4, <1>5

\* A step that leaves the panel and what was asked as they are; calls that ended stay
\* so, and none is told it was done.
LEMMA KeepKept ==
  ASSUME KeptInv, UNCHANGED <<row, op>>,
         \A e \in Calls : /\ pc[e] \in Ended => pc'[e] \in Ended
                          /\ pc'[e] = "done" => pc[e] = "done"
                          /\ pc'[e] # "new" => pc[e] # "new"
  PROVE  KeptInv'
<1>1. \A x : Old(x) => Old(x)'
  BY DEF Old
<1>2. \A e \in Calls : Enrolled(e)' => Enrolled(e)
  BY DEF Enrolled
<1>3. AllOld'
  BY <1>1 DEF KeptInv, AllOld, NamesOld
<1>4. AllGone'
  BY DEF KeptInv, AllGone
<1>5. Spent'
  BY <1>2 DEF KeptInv, Spent
<1> QED BY <1>3, <1>4, <1>5 DEF KeptInv

LEMMA AskKept == ASSUME StoreInv, DataInv, KeptInv, NEW c \in Calls, Ask(c) PROVE KeptInv'
<1>1. PICK o \in Asks(row.data, now) : op' = [op EXCEPT ![c] = o]
  BY DEF Ask
<1>2. /\ UNCHANGED row /\ pc[c] = "new" /\ pc' = [pc EXCEPT ![c] = "asked"]
      /\ op'[c] = o /\ \A e \in Calls \ {c} : op'[e] = op[e] /\ pc'[e] = pc[e]
      /\ pc'[c] = "asked"
  BY <1>1 DEF Ask, StoreInv
<1>3. \A x : Old(x) => Old(x)'
  BY <1>2 DEF Old, Ended
<1>4. NamesOld(o)
  BY DEF KeptInv, AllOld, NamesOld, Asks, Named
<1>5. AllOld'
  BY <1>2, <1>3, <1>4 DEF KeptInv, AllOld, NamesOld
<1>6. AllGone'
  BY <1>2 DEF KeptInv, AllGone
<1>7. \A e \in Calls : Enrolled(e)' => e # c /\ Enrolled(e)
  BY <1>2 DEF Enrolled, KeptInv, AllOld, Old, Ended
<1>8. Spent'
  BY <1>2, <1>7 DEF KeptInv, Spent
<1> QED BY <1>5, <1>6, <1>8 DEF KeptInv

LEMMA SaveKept ==
  ASSUME IInv, DataInv, KeptInv, NEW c \in Calls, pc[c] = "draft", Fresh(c), Written(c),
         NEW how \in Ended, Return(c, how), UNCHANGED <<now, call>>
  PROVE  KeptInv'
<1>1. PICK t \in since[c]..now :
        /\ ~Refused(op[c], ExpireShares(row.data, t), t)
        /\ draft[c] = Result(c, op[c], ExpireShares(row.data, t), t)
  BY DEF IInv, Decided, DecidedOn
<1> DEFINE d == ExpireShares(row.data, t)
           r == Result(c, op[c], d, t)
<1>2. /\ row'.data = r /\ op' = op /\ pc'[c] = how
      /\ \A e \in Calls \ {c} : pc'[e] = pc[e]
  BY <1>1 DEF Written, call, Return, IInv, StoreInv
<1>3. t \in Nat /\ op[c] \in Op /\ Good(d) /\ Good(row.data)
  BY <1>1, ExpireGood DEF IInv, StoreInv, DataInv, Good, UniqueIndexes
<1>4. Grown(c, d, r)
  BY <1>1, <1>3, ResultGrows
<1>5. Grown(c, row.data, r)
  BY <1>3, <1>4, ExpireGrows DEF Good
<1>6. \A x : Old(x) => Old(x)' /\ x # c
  BY <1>2 DEF Old, Ended
<1>7. Old(c)'
  BY <1>2 DEF Old
<1>8. Gone(op[c], r)
  BY <1>3, ResultGone DEF Good
<1>9. d.codes = row.data.codes /\ d.devices = row.data.devices
  BY <1>3 DEF ExpireShares, Good, Data
<1>10. op[c].kind # "enroll" =>
         /\ \A x \in r.codes : x \in d.codes \/ x.id = c
         /\ \A x, y \in r.codes : x.id = c /\ y.id = c => x \in d.codes \/ y \in d.codes \/ x = y
         /\ r.devices \subseteq d.devices
  BY <1>1, <1>3, CodesKept
<1>11. op[c].kind = "enroll" =>
         /\ \E x \in d.codes : x.id = op[c].code /\ ~x.used
         /\ \A x \in r.codes : /\ x.id = op[c].code => x.used
                               /\ \A y \in r.codes : x.id = y.id => x = y
  <2>1. ASSUME op[c].kind = "enroll"
        PROVE  (\E x \in d.codes : x.id = op[c].code /\ ~x.used) /\ r = Enroll(c, op[c].code, d)
    BY <1>1, <2>1 DEF Refused, Result
  <2> QED BY <1>3, <1>9, <2>1, EnrollGrows, PanelAssumption DEF KeptInv, Spent
<1> HIDE DEF d, r
<1>12. AllOld'
  BY <1>2, <1>5, <1>6, <1>7 DEF KeptInv, AllOld, NamesOld, Grown
<1>13. AllGone'
  <2> SUFFICES ASSUME NEW e \in Calls, pc'[e] = "done" PROVE Gone(op[e], r)
    BY <1>2 DEF AllGone
  <2>1. CASE e = c
    BY <1>8, <2>1
  <2>2. CASE e # c
    <3>1. Gone(op[e], row.data) /\ NamesOld(op[e])
      BY <1>2, <2>2 DEF KeptInv, AllGone, AllOld, DataInv
    <3> QED BY <1>5, <1>6, <3>1, GrownGone DEF NamesOld
  <2> QED BY <2>1, <2>2
<1>14. \A e \in Calls \ {c} : Enrolled(e)' => Enrolled(e)
  BY <1>2, <1>5 DEF Enrolled, Grown
<1>15. Spent'
  <2>1. ASSUME NEW x \in r.codes, NEW y \in r.codes, x.id = y.id PROVE x = y
    BY <1>6, <1>9, <1>10, <1>11, <2>1 DEF KeptInv, Spent, AllOld
  <2>2. ASSUME NEW e \in Calls, Enrolled(e)', NEW x \in r.codes, x.id = op[e].code PROVE x.used
    <3>1. CASE e = c
      BY <1>2, <1>11, <2>2, <3>1 DEF Enrolled
    <3>2. CASE e # c
      <4>1. Enrolled(e) /\ x.id # c
        <5>1. Enrolled(e) /\ op[e].kind = "enroll"
          BY <1>14, <2>2, <3>2 DEF Enrolled
        <5>2. pc[e] # "new"
          BY <5>1 DEF Enrolled, KeptInv, AllOld, Old, Ended
        <5>3. Old(op[e].code)
          BY <5>1, <5>2 DEF KeptInv, AllOld, NamesOld
        <5> QED BY <1>6, <2>2, <5>1, <5>3
      <4> QED BY <1>5, <2>2, <4>1 DEF Grown, KeptInv, Spent
    <3> QED BY <3>1, <3>2
  <2>3. ASSUME NEW e \in Calls \ {c}, Enrolled(c)', Enrolled(e)', op[c].code = op[e].code
        PROVE  FALSE
    BY <1>2, <1>9, <1>11, <1>14, <2>3 DEF Enrolled, KeptInv, Spent
  <2>4. ASSUME NEW b \in Calls, NEW e \in Calls, Enrolled(b)', Enrolled(e)',
               op[b].code = op[e].code
        PROVE  b = e
    BY <1>14, <2>3, <2>4 DEF KeptInv, Spent
  <2> QED BY <1>2, <2>1, <2>2, <2>4 DEF Spent
<1> QED BY <1>12, <1>13, <1>15 DEF KeptInv

LEMMA KeptInvariance == Spec => []KeptInv
<1>1. Init => KeptInv
  BY FreshIds DEF Init, KeptInv, AllOld, AllGone, Spent, Old, Enrolled
<1>2. ASSUME IInv, DataInv, KeptInv, [Next]_vars PROVE KeptInv'
  <2>1. ASSUME NEW c \in Calls, Ask(c) PROVE KeptInv'
    BY <1>2, <2>1, AskKept DEF IInv
  <2>2. ASSUME NEW c \in Calls, Decide(c) \/ BackendFails(c) PROVE KeptInv'
    BY <1>2, <2>2, KeepKept DEF Decide, BackendFails, Return, call, IInv, StoreInv, Ended
  <2>3. ASSUME NEW c \in Calls, Save(c) \/ SaveUnheard(c) PROVE KeptInv'
    <3>1. CASE Fresh(c)
      BY <1>2, <2>3, <3>1, SaveKept DEF Save, SaveUnheard, Ended
    <3>2. CASE ~Fresh(c)
      BY <1>2, <2>3, <3>2, KeepKept DEF Save, SaveUnheard, Return, call, IInv, StoreInv, Ended
    <3> QED BY <3>1, <3>2
  <2>4. ASSUME NEW p \in Processes, Crash(p) PROVE KeptInv'
    BY <1>2, <2>4, KeepKept DEF Crash, call, IInv, StoreInv, Ended
  <2>5. CASE Tick \/ UNCHANGED vars
    BY <1>2, <2>5, KeepKept DEF Tick, vars, call
  <2> QED BY <1>2, <2>1, <2>2, <2>3, <2>4, <2>5 DEF Next
<1> QED BY <1>1, <1>2, Invariance, DataInvariance, PTL DEF Spec

\* What a call was told it took away stays away, whatever was decided before and is
\* saved after (handleRemovePerson, handleWithdraw, handleRevokeShare and the like).
THEOREM NothingComesBack == Spec => []TakenAwayStaysAway
<1>1. AllGone => TakenAwayStaysAway
  BY DEF AllGone, Gone, TakenAwayStaysAway, Named
<1> QED BY <1>1, KeptInvariance, PTL DEF KeptInv

\* One machine enrols with an invite link, however many open it (handleEnroll).
THEOREM OneMachineAnInvite == Spec => []InviteUsedOnce
<1>1. Spent => InviteUsedOnce
  BY DEF Spent, Enrolled, InviteUsedOnce, Named
<1> QED BY <1>1, KeptInvariance, PTL DEF KeptInv
-----------------------------------------------------------------------------
\* Whoever has a process's mutex is a call of that process.
OfItsProcess == \A p \in Processes : holder[p] # None => Process[holder[p]] = p

\* A process's mutex is held by a call of its own that is deciding or saving.
MutexIsWorkedUnder ==
    \A p \in Processes :
        holder[p] # None =>
            /\ holder[p] \in Calls /\ Process[holder[p]] = p
            /\ pc[holder[p]] \in {"draft", "again"}

\* A mutex is taken by a call for its process, or let go.
LEMMA HandedOver == IInv /\ OfItsProcess /\ [Next]_vars => OfItsProcess'
<1> SUFFICES ASSUME IInv, OfItsProcess, [Next]_vars PROVE OfItsProcess'
  OBVIOUS
<1>1. holder \in [Processes -> Calls \cup {None}] /\ \A c \in Calls : Process[c] \in Processes
  BY DEF IInv, StoreInv, Processes
<1>2. \/ UNCHANGED holder
      \/ \E c \in Calls : holder' \in {[holder EXCEPT ![Process[c]] = None],
                                     [holder EXCEPT ![Process[c]] = c]}
      \/ \E p \in Processes : holder' = [holder EXCEPT ![p] = None]
  <2>1. ASSUME NEW c \in Calls, Ask(c) PROVE UNCHANGED holder
    BY <2>1 DEF Ask
  <2>2. ASSUME NEW c \in Calls, Decide(c) \/ Save(c) \/ SaveUnheard(c) \/ BackendFails(c)
        PROVE  \/ UNCHANGED holder
               \/ holder' \in {[holder EXCEPT ![Process[c]] = None],
                              [holder EXCEPT ![Process[c]] = c]}
    BY <2>2 DEF Decide, Save, SaveUnheard, BackendFails, Return
  <2>3. ASSUME NEW p \in Processes, Crash(p) PROVE holder' = [holder EXCEPT ![p] = None]
    BY <2>3 DEF Crash
  <2>4. CASE Tick \/ UNCHANGED vars
    BY <2>4 DEF Tick, vars
  <2> QED BY <2>1, <2>2, <2>3, <2>4 DEF Next
<1> QED BY <1>1, <1>2 DEF OfItsProcess

\* A call that waits for its process's mutex waits for one that has a step to take
\* (Mutate's deferred unlock, and the death of a process): never for a call that ended,
\* for one of another process, or for itself.
THEOREM NobodyWaitsForNobody == Spec => []MutexIsWorkedUnder
<1>1. Init => OfItsProcess
  BY DEF Init, OfItsProcess
<1>2. IInv /\ OfItsProcess => MutexIsWorkedUnder
  <2> SUFFICES ASSUME IInv, OfItsProcess, NEW p \in Processes, holder[p] # None
               PROVE  /\ holder[p] \in Calls /\ Process[holder[p]] = p
                      /\ pc[holder[p]] \in {"draft", "again"}
    BY DEF MutexIsWorkedUnder
  <2>1. holder[p] \in Calls /\ Process[holder[p]] = p
    BY DEF IInv, StoreInv, OfItsProcess
  <2>2. pc[holder[p]] \in {"draft", "again"}
    BY <2>1 DEF IInv, StoreInv
  <2> QED BY <2>1, <2>2
<1> QED BY <1>1, <1>2, HandedOver, Invariance, PTL DEF Spec
=============================================================================
