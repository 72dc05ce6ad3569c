------------------------- MODULE SharedLoginProofs -------------------------
(***************************************************************************)
(* Proofs about SharedLogin, for any requests, managers, sign-ins, ticks   *)
(* and events.                                                             *)
(*                                                                         *)
(* TypeOK is inductive, but says too little to order what is stored.       *)
(* IInv says of every credential held anywhere that the token    *)
(* service has issued it (Issued), and that it is of a sign-in the panel   *)
(* has been given, which is what keeps a rotation from touching a row it   *)
(* could only make older.                                                  *)
(***************************************************************************)
EXTENDS SharedLogin, TLAPS

\* The credentials issued so far, of sign-ins the panel has been given.
Issued == {c \in Credential : /\ c[2] <= Len(expiry[c[1]])
                              /\ db # Gone => c[1] <= db.end}

\* What a read of the account's row can have found.
Rows == {d \in Account : d.cred \in Issued} \cup {Gone}

ServiceInv ==
    /\ now \in Nat /\ expiry \in [SignIns -> Seq(Nat)]
    /\ ended \subseteq SignIns /\ lost \subseteq SignIns
    /\ machine \in [SignIns -> Nat]
UpstreamInv ==
    /\ db \in Rows /\ snap \in Rows
    /\ young \in BOOLEAN /\ backingOff \in BOOLEAN /\ stopping \in BOOLEAN
    /\ flight \in [st : {"none", "reading", "read"}, data : Rows]
ManagersInv ==
    /\ current \in Managers \cup {None}
    /\ cred \in [Managers -> Issued]
    /\ holder \in [Managers -> Requests \cup {None}]
WriterInv ==
    /\ queue \in Issued \cup {None} /\ flushing \in Issued \cup {None}
    /\ endedLogin \in Issued \cup {None}
RequestsInv ==
    /\ pc \in [Requests -> {"idle", "open", "lock", "wait", "adopt", "current",
                            "refresh", "reply", "forward", "forget"}]
    /\ op \in [Requests -> {"token", "renew"}]
    /\ mgr \in [Requests -> Managers \cup {None}]
    /\ tok \in [Requests -> Issued \cup {None}]
    /\ view \in [Requests -> Rows]
    /\ read \in [Requests -> Rows]
Opened ==
    \A r \in Requests :
        /\ pc[r] \in {"lock", "wait", "adopt", "current", "refresh", "reply"} => mgr[r] # None
        /\ pc[r] \in {"reply", "forward"} => tok[r] # None
        /\ pc[r] = "open" \/ (r \in Pollers /\ pc[r] # "idle") => view[r] # Gone
DiagInv ==
    /\ diag \in [st : {"idle", "refresh", "store"}, cred : Issued \cup {None}]
    /\ diag.st # "idle" => diag.cred # None

\* Access tokens issued later die later, and none later than now + Lifetime.
Chains ==
    \A f \in SignIns :
        /\ \A g \in 1..Len(expiry[f]) : expiry[f][g] <= now + Lifetime
        /\ \A g, h \in 1..Len(expiry[f]) : g < h => expiry[f][g] < expiry[f][h]

\* The machine that signed in has one of the credentials issued to it.
Machines ==
    /\ expiry[1] # <<>>
    /\ \A f \in SignIns : /\ machine[f] <= Len(expiry[f])
                          /\ expiry[f] # <<>> => machine[f] > 0

IInv ==
    /\ ServiceInv /\ UpstreamInv /\ ManagersInv /\ WriterInv /\ RequestsInv
    /\ Opened /\ DiagInv /\ Chains /\ Machines

\* What was issued stays issued while chains only grow and the panel only moves
\* to newer sign-ins.
LEMMA IssuedStays ==
    ASSUME ServiceInv, ServiceInv',
           \A f \in SignIns : Len(expiry[f]) <= Len(expiry'[f]),
           \/ db' = db
           \/ db' = Gone
           \/ db \in Account /\ db' \in Account /\ db # Gone /\ db.end <= db'.end
    PROVE  Issued \subseteq Issued' /\ Rows \subseteq Rows'
<1>1. ASSUME NEW c \in Issued PROVE c \in Issued'
  <2>1. c \in Credential /\ c[1] \in SignIns /\ c[2] \in Nat
    BY DEF Issued, Credential
  <2>2. c[2] <= Len(expiry'[c[1]])
    BY <2>1 DEF Issued, ServiceInv
  <2>3. ASSUME db' # Gone PROVE c[1] <= db'.end
    BY <2>1, <2>3, ConstantsAssumption DEF Issued, Account, SignIns
  <2> QED BY <2>1, <2>2, <2>3 DEF Issued
<1> QED BY <1>1 DEF Rows

LEMMA Frame ==
    ASSUME UNCHANGED <<expiry, db>>
    PROVE  Issued' = Issued /\ Rows' = Rows
BY DEF Issued, Rows

LEMMA DefaultIssued == IInv => <<1, 1>> \in Issued /\ Gone \in Rows
<1> SUFFICES ASSUME IInv PROVE <<1, 1>> \in Issued
  BY DEF Rows
<1>1. 1 \in SignIns /\ <<1, 1>> \in Credential
  BY ConstantsAssumption DEF SignIns, Credential
<1>2. Len(expiry[1]) >= 1
  BY <1>1 DEF IInv, Machines, ServiceInv
<1>3. db # Gone => 1 <= db.end
  BY ConstantsAssumption DEF IInv, UpstreamInv, Rows, Account, SignIns
<1> QED BY <1>1, <1>2, <1>3 DEF Issued

LEMMA NoneNotIssued == None \notin Issued
BY ConstantsAssumption DEF Issued, Credential

LEMMA RowCred == \A d \in Rows : d # Gone => d.cred \in Issued
BY DEF Rows

LEMMA IssuedParts ==
    ASSUME ServiceInv, NEW c \in Issued
    PROVE  /\ c[1] \in SignIns /\ c[2] \in Nat \ {0}
           /\ c[2] <= Len(expiry[c[1]]) /\ Len(expiry[c[1]]) >= 1
BY DEF Issued, Credential, ServiceInv

\* A request that has opened its manager holds one, with a known credential.
LEMMA Holds ==
    ASSUME IInv, NEW r \in Requests,
           pc[r] \in {"lock", "wait", "adopt", "current", "refresh", "reply"}
    PROVE  mgr[r] \in Managers /\ cred[mgr[r]] \in Issued
BY DEF IInv, RequestsInv, Opened, ManagersInv

\* Answering, and failing to refresh, leave everything a request and the
\* managers hold well typed.
LEMMA AnswerParts ==
    ASSUME IInv, NEW r \in Requests, NEW t \in Issued, NEW c \in [Managers -> Issued],
           Answer(r, t, c)
    PROVE  /\ tok' \in [Requests -> Issued \cup {None}]
           /\ mgr' \in [Requests -> Managers \cup {None}]
           /\ holder' \in [Managers -> Requests \cup {None}]
           /\ current' \in Managers \cup {None}
           /\ cred' \in [Managers -> Issued]
           /\ pc' = [pc EXCEPT ![r] = "forward"] /\ tok' = [tok EXCEPT ![r] = t]
BY DefaultIssued DEF Answer, Keep, Goto, IInv, ManagersInv, RequestsInv

LEMMA RefreshFailsParts ==
    ASSUME IInv, NEW r \in Requests, pc[r] \in {"refresh", "reply"},
           NEW e \in BOOLEAN, RefreshFails(r, e)
    PROVE  /\ tok' \in [Requests -> Issued \cup {None}]
           /\ mgr' \in [Requests -> Managers \cup {None}]
           /\ op' \in [Requests -> {"token", "renew"}]
           /\ view' \in [Requests -> Rows] /\ read' = read
           /\ holder' \in [Managers -> Requests \cup {None}]
           /\ current' \in Managers \cup {None}
           /\ cred' \in [Managers -> Issued]
           /\ \/ \E s \in {"forget", "idle"} : pc' = [pc EXCEPT ![r] = s]
              \/ pc' = [pc EXCEPT ![r] = "forward"] /\ tok'[r] # None
           /\ \A q \in Requests \ {r} : tok'[q] = tok[q] /\ mgr'[q] = mgr[q] /\ view'[q] = view[q]
           /\ pc'[r] # "idle" => view' = view
<1> DEFINE c == cred[mgr[r]]
<1>0. mgr[r] \in Managers /\ c \in Issued
  BY Holds
<1>1. CASE op[r] = "token" /\ now < Exp(c)
  <2>1. Answer(r, c, cred) /\ UNCHANGED <<op, view, read>>
    BY <1>1 DEF RefreshFails
  <2>2. cred \in [Managers -> Issued]
    BY DEF IInv, ManagersInv
  <2> HIDE DEF c
  <2>3. mgr' = [mgr EXCEPT ![r] = None]
    BY <2>1 DEF Answer
  <2> QED BY <1>0, <2>1, <2>2, <2>3, AnswerParts, NoneNotIssued DEF IInv, RequestsInv
<1>2. CASE ~(op[r] = "token" /\ now < Exp(c))
  <2>1. /\ holder' = [holder EXCEPT ![mgr[r]] = None]
        /\ current' = current /\ Keep(cred)
        /\ \/ Finish(r)
           \/ Goto(r, "forget") /\ mgr' = [mgr EXCEPT ![r] = None]
              /\ UNCHANGED <<op, tok, view, read>>
    BY <1>2 DEF RefreshFails
  <2> QED BY <1>0, <2>1, DefaultIssued
          DEF Keep, Finish, Goto, IInv, ManagersInv, RequestsInv
<1> QED BY <1>1, <1>2

\* The sign-ins of the rotations a process dies with are sign-ins.
LEMMA UnstoredSignIns ==
    ASSUME IInv
    PROVE  /\ SignInsOf(Replying(Pollers)) \subseteq SignIns
           /\ SignInsOf(Unstored) \subseteq SignIns
<1>1. \A S \in SUBSET Requests : Replying(S) \subseteq Issued
  BY DEF Replying, IInv, RequestsInv, Opened
<1>2. Replying(Pollers) \subseteq Issued /\ Unstored \subseteq Issued
  BY <1>1 DEF Unstored, IInv, WriterInv, Requests
<1> QED BY <1>2, IssuedParts DEF SignInsOf, IInv

\* A credential more in one chain.
LEMMA IssueParts ==
    ASSUME IInv, NEW f \in SignIns, Issue(f)
    PROVE  /\ now' \in Nat /\ now' = now + 1 /\ ended' = ended
           /\ expiry' \in [SignIns -> Seq(Nat)]
           /\ Len(expiry'[f]) = Len(expiry[f]) + 1
           /\ \A e \in SignIns : Len(expiry[e]) <= Len(expiry'[e])
           /\ \A e \in SignIns \ {f} : expiry'[e] = expiry[e]
           /\ Chains'
<1> USE ConstantsAssumption
<1>1. /\ now \in Nat /\ expiry \in [SignIns -> Seq(Nat)] /\ now' = now + 1
      /\ expiry' = [expiry EXCEPT ![f] = Append(@, now' + Lifetime)]
  BY DEF Issue, IInv, ServiceInv
<1>2. /\ expiry' \in [SignIns -> Seq(Nat)]
      /\ expiry'[f] = Append(expiry[f], now' + Lifetime)
      /\ \A e \in SignIns \ {f} : expiry'[e] = expiry[e]
  BY <1>1
<1>3. /\ Len(expiry'[f]) = Len(expiry[f]) + 1
      /\ expiry'[f][Len(expiry[f]) + 1] = now' + Lifetime
      /\ \A g \in 1..Len(expiry[f]) : expiry'[f][g] = expiry[f][g]
  BY <1>1, <1>2
<1>4. ASSUME NEW e \in SignIns
      PROVE  /\ \A g \in 1..Len(expiry'[e]) : expiry'[e][g] <= now' + Lifetime
             /\ \A g, h \in 1..Len(expiry'[e]) : g < h => expiry'[e][g] < expiry'[e][h]
  <2>1. /\ \A g \in 1..Len(expiry[e]) : expiry[e][g] \in Nat /\ expiry[e][g] <= now + Lifetime
        /\ \A g, h \in 1..Len(expiry[e]) : g < h => expiry[e][g] < expiry[e][h]
    BY <1>1 DEF IInv, Chains
  <2>2. CASE e = f
    <3> DEFINE n == Len(expiry[f])
               old == expiry[f]
               new == expiry'[f]
    <3>1. /\ n \in Nat /\ now \in Nat /\ now' \in Nat /\ now < now' /\ Lifetime \in Nat
          /\ Len(new) = n + 1 /\ new[n + 1] = now' + Lifetime
          /\ \A g \in 1..n : new[g] = old[g] /\ old[g] \in Nat /\ old[g] <= now + Lifetime
          /\ \A g, h \in 1..n : g < h => old[g] < old[h]
      BY <1>1, <1>3, <2>1, <2>2
    <3> HIDE DEF n, old, new
    <3>2. \A g \in 1..n + 1 : g \in 1..n \/ g = n + 1
      BY <3>1
    <3>3. \A g \in 1..n + 1 : new[g] <= now' + Lifetime
      BY <3>1, <3>2
    <3>4. ASSUME NEW g \in 1..n + 1, NEW h \in 1..n + 1, g < h PROVE new[g] < new[h]
      <4>1. g \in 1..n
        BY <3>1, <3>4
      <4>2. CASE h \in 1..n
        BY <3>1, <3>4, <4>1, <4>2
      <4>3. CASE h = n + 1
        BY <3>1, <4>1, <4>3
      <4> QED BY <3>2, <4>2, <4>3
    <3> QED BY <2>2, <3>1, <3>3, <3>4 DEF new
  <2>3. CASE e # f
    BY <1>1, <1>2, <2>1, <2>3
  <2> QED BY <2>2, <2>3
<1>5. Chains'
  BY <1>4 DEF Chains
<1>6. \A e \in SignIns : Len(expiry[e]) <= Len(expiry'[e])
  <2> SUFFICES ASSUME NEW e \in SignIns PROVE Len(expiry[e]) <= Len(expiry'[e])
    OBVIOUS
  <2>1. Len(expiry[e]) \in Nat /\ Len(expiry[f]) \in Nat
    BY <1>1
  <2>2. CASE e = f
    BY <1>3, <2>1, <2>2
  <2>3. CASE e # f
    BY <1>2, <2>1, <2>3
  <2> QED BY <2>2, <2>3
<1> QED BY <1>1, <1>2, <1>3, <1>5, <1>6 DEF Issue

\* Storing a known credential leaves a known row.
LEMMA StoreParts ==
    ASSUME IInv, NEW c \in Issued, StoreCredential(c), UNCHANGED expiry
    PROVE  Issued' = Issued /\ Rows' = Rows /\ db' \in Rows
<1>1. db \in Account \cup {Gone}
  BY DEF IInv, UpstreamInv, Rows
<1>2. CASE db' = db
  BY <1>2, Frame DEF IInv, UpstreamInv
<1>3. CASE db # Gone /\ db' = [db EXCEPT !.cred = c]
  <2>1. db' \in Account /\ db'.cred = c /\ db'.end = db.end /\ db' # Gone
    BY <1>1, <1>3, ConstantsAssumption DEF Account, Issued, Credential
  <2>2. Issued' = Issued /\ Rows' = Rows
    BY <1>3, <2>1 DEF Issued, Rows
  <2> QED BY <2>1, <2>2 DEF Rows
<1> QED BY <1>2, <1>3 DEF StoreCredential

\* What nobody touched stays as it should be while only more is issued.
LEMMA Untouched ==
    ASSUME IInv, Issued \subseteq Issued', Rows \subseteq Rows'
    PROVE  /\ UNCHANGED <<db, upstream, stopping>> => UpstreamInv'
           /\ UNCHANGED managers => ManagersInv'
           /\ UNCHANGED <<writer, endedLogin>> => WriterInv'
           /\ UNCHANGED requests => RequestsInv' /\ Opened'
           /\ UNCHANGED diag => DiagInv'
           /\ UNCHANGED <<now, expiry, ended, machine, lost>> =>
                 ServiceInv' /\ Chains' /\ Machines'
<1> USE DEF IInv
<1>1. UNCHANGED <<db, upstream, stopping>> => UpstreamInv'
  BY DEF UpstreamInv, upstream
<1>2. UNCHANGED managers => ManagersInv'
  BY DEF ManagersInv, managers
<1>3. UNCHANGED <<writer, endedLogin>> => WriterInv'
  BY DEF WriterInv, writer
<1>4. UNCHANGED requests => RequestsInv' /\ Opened'
  BY DEF RequestsInv, Opened, requests
<1>5. UNCHANGED diag => DiagInv'
  BY DEF DiagInv
<1>6. UNCHANGED <<now, expiry, ended, machine, lost>> => ServiceInv' /\ Chains' /\ Machines'
  BY DEF ServiceInv, Chains, Machines
<1> QED BY <1>1, <1>2, <1>3, <1>4, <1>5, <1>6

LEMMA MachinesKept ==
    ASSUME IInv, ServiceInv', UNCHANGED machine,
           \A f \in SignIns : Len(expiry[f]) <= Len(expiry'[f]),
           \A f \in SignIns : expiry[f] = <<>> => expiry'[f] = <<>> \/ machine[f] > 0
    PROVE  Machines'
<1>1. /\ 1 \in SignIns
      /\ expiry \in [SignIns -> Seq(Nat)] /\ expiry' \in [SignIns -> Seq(Nat)]
      /\ machine \in [SignIns -> Nat]
  BY ConstantsAssumption DEF IInv, ServiceInv, SignIns
<1>2. /\ expiry[1] # <<>>
      /\ \A f \in SignIns : machine[f] <= Len(expiry[f])
      /\ \A f \in SignIns : expiry[f] # <<>> => machine[f] > 0
  BY DEF IInv, Machines
<1>3. expiry'[1] # <<>>
  <2>1. Len(expiry[1]) > 0 /\ Len(expiry'[1]) >= Len(expiry[1])
    BY <1>1, <1>2
  <2> QED BY <1>1, <2>1
<1>4. ASSUME NEW f \in SignIns
      PROVE  machine'[f] <= Len(expiry'[f]) /\ (expiry'[f] # <<>> => machine'[f] > 0)
  <2>1. /\ Len(expiry[f]) \in Nat /\ Len(expiry'[f]) \in Nat /\ machine[f] \in Nat
        /\ machine'[f] = machine[f]
    BY <1>1
  <2> QED BY <1>2, <2>1
<1> QED BY <1>3, <1>4 DEF Machines

\* The successor of a newest credential, once issued.
LEMMA IssuedNext ==
    ASSUME IInv, NEW c \in Issued, c[2] = Len(expiry[c[1]]), Issue(c[1]), UNCHANGED db
    PROVE  <<c[1], c[2] + 1>> \in Issued'
<1>1. c[1] \in SignIns /\ c[2] + 1 \in Nat \ {0}
  BY IssuedParts DEF IInv
<1>2. c[2] + 1 <= Len(expiry'[c[1]])
  BY <1>1, IssueParts DEF IInv, ServiceInv
<1>3. db' # Gone => c[1] <= db'.end
  BY DEF Issued
<1> QED BY <1>1, <1>2, <1>3 DEF Issued, Credential

\* One step of the gateway's reading of the panel, or of a request.
LEMMA RequestStep ==
    ASSUME IInv, NEW r \in Requests, Resolve(r) \/ Request(r), r \in Requests
    PROVE  IInv'
<1> USE DEF IInv, vars, tokenService, upstream, managers, writer, requests, process, Goto
<1>1. CASE Resolve(r)
  <2>1. Issued' = Issued /\ Rows' = Rows
    BY <1>1, Frame DEF Resolve
  <2>2. UpstreamInv'
    BY <1>1, <2>1, DefaultIssued DEF Resolve, UpstreamInv, Snapshot, StartFlight
  <2>3. RequestsInv' /\ Opened'
    BY <1>1, <2>1 DEF Resolve, RequestsInv, Opened, UpstreamInv
  <2> QED BY <1>1, <2>1, <2>2, <2>3, Untouched DEF Resolve
<1>2. CASE ManagerFor(r)
  <2>1. Issued' = Issued /\ Rows' = Rows
    BY <1>2, Frame DEF ManagerFor
  <2>2. ManagersInv'
    BY <1>2, <2>1, RowCred DEF ManagerFor, ManagersInv, RequestsInv, Opened
  <2>3. mgr' \in [Requests -> Managers \cup {None}] /\ mgr'[r] # None
    BY <1>2, ConstantsAssumption DEF ManagerFor, RequestsInv, ManagersInv
  <2>4. RequestsInv'
    BY <1>2, <2>1, <2>3, DefaultIssued DEF ManagerFor, RequestsInv
  <2>5. Opened'
    BY <1>2, <2>3 DEF ManagerFor, RequestsInv, Opened, ManagersInv
  <2> QED BY <1>2, <2>1, <2>2, <2>4, <2>5, Untouched DEF ManagerFor
<1>3. CASE Lock(r)
  <2>1. Issued' = Issued /\ Rows' = Rows
    BY <1>3, Frame DEF Lock
  <2>2. mgr[r] \in Managers /\ cred[mgr[r]] \in Issued /\ cred \in [Managers -> Issued]
    BY <1>3, Holds DEF Lock, ManagersInv
  <2>3. UpstreamInv'
    BY <1>3, <2>1, DefaultIssued DEF Lock, UpstreamInv, StartFlight
  <2>4. CASE Answer(r, cred[mgr[r]], cred)
    <3>1. ManagersInv' /\ RequestsInv'
      BY <1>3, <2>1, <2>2, <2>4, AnswerParts DEF Lock, ManagersInv, RequestsInv
    <3>2. Opened'
      BY <1>3, <2>2, <2>4, NoneNotIssued DEF Lock, Answer, Opened, RequestsInv
    <3> QED BY <1>3, <2>1, <2>3, <3>1, <3>2, Untouched DEF Lock
  <2>5. CASE ~Answer(r, cred[mgr[r]], cred)
    <3>1. /\ holder' = [holder EXCEPT ![mgr[r]] = r]
          /\ pc' \in {[pc EXCEPT ![r] = "current"], [pc EXCEPT ![r] = "wait"]}
          /\ UNCHANGED <<tok, mgr, cred, current, op, view, read>>
      BY <1>3, <2>5 DEF Lock
    <3>2. ManagersInv' /\ RequestsInv'
      BY <2>1, <2>2, <3>1 DEF ManagersInv, RequestsInv
    <3>3. Opened'
      BY <1>3, <2>2, <3>1, ConstantsAssumption DEF Lock, Opened, RequestsInv
    <3> QED BY <1>3, <2>1, <2>3, <3>2, <3>3, Untouched DEF Lock
  <2> QED BY <2>4, <2>5
<1>4. CASE ReadTimeout(r)
  <2>1. Issued' = Issued /\ Rows' = Rows
    BY <1>4, Frame DEF ReadTimeout
  <2>2. RequestsInv' /\ Opened'
    BY <1>4, <2>1 DEF ReadTimeout, RequestsInv, Opened
  <2> QED BY <1>4, <2>1, <2>2, Untouched DEF ReadTimeout
<1>5. CASE Adopt(r)
  <2> DEFINE m == mgr[r]
             d == IF pc[r] = "adopt" THEN read[r] ELSE snap
             c == IF Adopts(r, cred[m], d) THEN d.cred ELSE cred[m]
  <2>1. Issued' = Issued /\ Rows' = Rows
    BY <1>5, Frame DEF Adopt
  <2>2. m \in Managers /\ cred[m] \in Issued /\ cred \in [Managers -> Issued]
    BY <1>5, Holds DEF Adopt, ManagersInv
  <2>3. d \in Rows
    BY DEF RequestsInv, UpstreamInv
  <2>4. c \in Issued
    BY <2>2, <2>3, RowCred DEF Adopts
  <2>5. read' = [read EXCEPT ![r] = Gone] /\ read' \in [Requests -> Rows]
    BY <1>5, DefaultIssued DEF Adopt, RequestsInv
  <2>6. [cred EXCEPT ![m] = c] \in [Managers -> Issued]
    BY <2>2, <2>4
  <2>7. \/ Answer(r, c, [cred EXCEPT ![m] = c])
        \/ /\ cred' = [cred EXCEPT ![m] = c]
           /\ Goto(r, "refresh")
           /\ UNCHANGED <<tok, mgr, current, holder>>
    BY <1>5 DEF Adopt
  <2> HIDE DEF c, d
  <2>8. CASE Answer(r, c, [cred EXCEPT ![m] = c])
    <3>4. /\ tok' \in [Requests -> Issued \cup {None}]
          /\ mgr' \in [Requests -> Managers \cup {None}]
          /\ holder' \in [Managers -> Requests \cup {None}]
          /\ current' \in Managers \cup {None}
          /\ cred' \in [Managers -> Issued] /\ pc' = [pc EXCEPT ![r] = "forward"]
      BY <2>4, <2>6, <2>8, AnswerParts
    <3>5. ManagersInv'
      BY <2>1, <3>4 DEF ManagersInv
    <3>6. UNCHANGED <<op, view>> /\ RequestsInv
      BY <1>5 DEF Adopt
    <3>1. ManagersInv' /\ RequestsInv'
      BY <2>1, <2>5, <3>4, <3>5, <3>6 DEF RequestsInv
    <3>2. Opened'
      BY <1>5, <2>4, <2>8, NoneNotIssued DEF Adopt, Answer, Opened, RequestsInv
    <3> QED BY <1>5, <2>1, <3>1, <3>2, Untouched DEF Adopt
  <2>9. CASE /\ cred' = [cred EXCEPT ![m] = c]
             /\ Goto(r, "refresh")
             /\ UNCHANGED <<tok, mgr, current, holder>>
    <3>1. ManagersInv' /\ RequestsInv'
      BY <1>5, <2>1, <2>5, <2>6, <2>9 DEF Adopt, ManagersInv, RequestsInv
    <3>2. Opened'
      BY <1>5, <2>2, <2>9, ConstantsAssumption DEF Adopt, Opened, RequestsInv
    <3> QED BY <1>5, <2>1, <3>1, <3>2, Untouched DEF Adopt
  <2> QED BY <2>7, <2>8, <2>9
<1>6. CASE RefreshGranted(r)
  <2> DEFINE f == cred[mgr[r]][1]
  <2>1. f \in SignIns /\ Issue(f) /\ expiry[f] # <<>>
    <3>1. cred[mgr[r]] \in Issued /\ Issue(f)
      BY <1>6, Holds DEF RefreshGranted
    <3>2. f \in SignIns /\ Len(expiry[f]) >= 1
      BY <3>1, IssuedParts DEF ServiceInv
    <3> QED BY <3>1, <3>2
  <2> HIDE DEF f
  <2>2. ServiceInv' /\ Chains'
    BY <1>6, <2>1, IssueParts DEF RefreshGranted, ServiceInv
  <2>3. Issued \subseteq Issued' /\ Rows \subseteq Rows'
    BY <1>6, <2>1, <2>2, IssueParts, IssuedStays DEF RefreshGranted
  <2>4. Machines'
    <3>1. \A e \in SignIns : expiry[e] = <<>> => expiry'[e] = <<>>
      BY <2>1, IssueParts
    <3> QED BY <1>6, <2>1, <2>2, <3>1, IssueParts, MachinesKept DEF RefreshGranted
  <2>5. tok' = [tok EXCEPT ![r] = tok'[r]] /\ tok'[r] \in Issued'
    <3> DEFINE c == cred[mgr[r]]
    <3>1. c \in Issued /\ c[2] = Len(expiry[f]) /\ tok' = [tok EXCEPT ![r] = <<f, c[2] + 1>>]
      BY <1>6, Holds DEF RefreshGranted, Refreshable, IsNewest, Newest, f
    <3>2. <<f, c[2] + 1>> \in Issued'
      BY <1>6, <2>1, <3>1, IssuedNext DEF RefreshGranted, f
    <3> QED BY <3>1, <3>2 DEF RequestsInv
  <2>6. RequestsInv'
    BY <1>6, <2>3, <2>5 DEF RefreshGranted, RequestsInv
  <2>7. Opened'
    <3>1. tok'[r] # None
      BY <2>2, <2>5, ConstantsAssumption DEF Issued, Credential
    <3> QED BY <1>6, <2>5, <3>1 DEF RefreshGranted, RequestsInv, Opened
  <2> QED BY <1>6, <2>2, <2>3, <2>4, <2>6, <2>7, Untouched DEF RefreshGranted
<1>7. CASE RefreshDone(r)
  <2>1. Issued' = Issued /\ Rows' = Rows
    BY <1>7, Frame DEF RefreshDone
  <2> DEFINE t == tok[r]
  <2>2. t \in Issued /\ mgr[r] \in Managers
    BY <1>7, Holds DEF RefreshDone, RequestsInv, Opened
  <2>3. [cred EXCEPT ![mgr[r]] = t] \in [Managers -> Issued]
    BY <2>2 DEF ManagersInv
  <2>4. Answer(r, t, [cred EXCEPT ![mgr[r]] = t]) /\ queue' = t
    BY <1>7 DEF RefreshDone
  <2> HIDE DEF t
  <2>5. ManagersInv' /\ RequestsInv'
    BY <1>7, <2>1, <2>2, <2>3, <2>4, AnswerParts DEF RefreshDone, ManagersInv, RequestsInv
  <2>6. Opened'
    BY <1>7, <2>2, <2>4, NoneNotIssued DEF RefreshDone, Answer, Opened, RequestsInv
  <2>7. WriterInv'
    BY <1>7, <2>1, <2>2, <2>4 DEF RefreshDone, WriterInv
  <2> QED BY <1>7, <2>1, <2>5, <2>6, <2>7, Untouched DEF RefreshDone
<1>8. CASE RefreshRefused(r) \/ RefreshCut(r)
  <2>1. Issued' = Issued /\ Rows' = Rows
    BY <1>8, Frame DEF RefreshRefused, RefreshCut
  <2>2. /\ pc[r] \in {"refresh", "reply"}
        /\ \E e \in BOOLEAN : RefreshFails(r, e)
        /\ lost' = lost \/ lost' = lost \cup {cred[mgr[r]][1]}
        /\ UNCHANGED <<tokenService, machine, db, upstream, writer, stopping, diag>>
    <3>1. CASE RefreshRefused(r)
      <4>1. RefreshFails(r, cred[mgr[r]][1] \in ended)
        BY <3>1 DEF RefreshRefused
      <4>2. (cred[mgr[r]][1] \in ended) \in BOOLEAN
        OBVIOUS
      <4>3. \E e \in BOOLEAN : RefreshFails(r, e)
        BY ONLY <4>1, <4>2, Zenon
      <4> QED BY <3>1, <4>3 DEF RefreshRefused
    <3>2. CASE RefreshCut(r)
      BY <3>2 DEF RefreshCut
    <3> QED BY <1>8, <3>1, <3>2
  <2>3. PICK e \in BOOLEAN : RefreshFails(r, e)
    BY <2>2
  <2>4. ManagersInv' /\ RequestsInv'
    BY <2>1, <2>2, <2>3, RefreshFailsParts DEF ManagersInv, RequestsInv
  <2>5. Opened'
    BY <2>2, <2>3, RefreshFailsParts DEF Opened, RequestsInv
  <2>6. WriterInv'
    BY <2>1, <2>2, <2>3, RowCred DEF RefreshFails, WriterInv, RequestsInv, Opened
  <2>7. cred[mgr[r]][1] \in SignIns
    BY <2>2, Holds, IssuedParts
  <2>8. ServiceInv' /\ Chains' /\ Machines'
    BY <2>2, <2>7 DEF ServiceInv, Chains, Machines
  <2> QED BY <2>1, <2>2, <2>4, <2>5, <2>6, <2>8, Untouched DEF UpstreamInv
<1>9. CASE Forget(r)
  <2>1. Issued' = Issued /\ Rows' = Rows
    BY <1>9, Frame DEF Forget
  <2>2. RequestsInv'
    BY <1>9, <2>1, DefaultIssued DEF Forget, Finish, RequestsInv
  <2>3. ManagersInv'
    BY <1>9, <2>1, DefaultIssued DEF Forget, Keep, ManagersInv
  <2>4. Opened'
    BY <1>9 DEF Forget, Finish, RequestsInv, Opened
  <2> QED BY <1>9, <2>1, <2>2, <2>3, <2>4, Untouched DEF Forget
<1>10. CASE Forward(r)
  <2>1. Issued' = Issued /\ Rows' = Rows
    BY <1>10, Frame DEF Forward
  <2>2. RequestsInv'
    BY <1>10, <2>1, DefaultIssued DEF Forward, Finish, RequestsInv, ManagersInv
  <2>3. Opened'
    BY <1>10 DEF Forward, Finish, RequestsInv, Opened
  <2> QED BY <1>10, <2>1, <2>2, <2>3, Untouched DEF Forward
<1> QED BY <1>1, <1>2, <1>3, <1>4, <1>5, <1>6, <1>7, <1>8, <1>9, <1>10 DEF Request

\* One step of the background read of the panel, or of the writer.
LEMMA BackgroundStep ==
    ASSUME IInv,
           \/ FlightLoad \/ FlightLand \/ FlightFail \/ ReadAges
           \/ FlushStart \/ FlushStore \/ FlushFail
    PROVE  IInv'
<1> USE DEF IInv, vars, tokenService, upstream, managers, writer, requests, process
<1>1. CASE FlightLoad \/ FlightLand \/ FlightFail \/ ReadAges
  <2>1. Issued' = Issued /\ Rows' = Rows
    BY <1>1, Frame DEF FlightLoad, FlightLand, FlightFail, ReadAges
  <2>2. UpstreamInv'
    <3>1. CASE FlightLoad
      BY <2>1, <3>1 DEF FlightLoad, UpstreamInv
    <3>2. CASE FlightLand
      BY <2>1, <3>2, DefaultIssued DEF FlightLand, UpstreamInv
    <3>3. CASE FlightFail
      BY <2>1, <3>3, DefaultIssued DEF FlightFail, UpstreamInv
    <3>4. CASE ReadAges
      BY <2>1, <3>4 DEF ReadAges, UpstreamInv
    <3> QED BY <1>1, <3>1, <3>2, <3>3, <3>4
  <2>3. RequestsInv' /\ Opened'
    <3>1. CASE FlightLand
      BY <2>1, <3>1 DEF FlightLand, RequestsInv, Opened, UpstreamInv
    <3>2. CASE FlightFail
      BY <2>1, <3>2 DEF FlightFail, RequestsInv, Opened
    <3>3. CASE FlightLoad \/ ReadAges
      BY <2>1, <3>3 DEF FlightLoad, ReadAges, RequestsInv, Opened
    <3> QED BY <1>1, <3>1, <3>2, <3>3
  <2> QED BY <1>1, <2>1, <2>2, <2>3, Untouched DEF FlightLoad, FlightLand, FlightFail, ReadAges
<1>2. CASE FlushStart
  <2>1. Issued' = Issued /\ Rows' = Rows
    BY <1>2, Frame DEF FlushStart
  <2>2. WriterInv'
    BY <1>2, <2>1 DEF FlushStart, WriterInv
  <2> QED BY <1>2, <2>1, <2>2, Untouched DEF FlushStart
<1>3. CASE FlushStore \/ FlushFail
  <2>1. flushing \in Issued /\ (UNCHANGED db \/ StoreCredential(flushing)) /\ UNCHANGED expiry
    BY <1>3 DEF FlushStore, FlushFail, WriterInv
  <2>2. Issued' = Issued /\ Rows' = Rows /\ db' \in Rows
    BY <2>1, StoreParts, Frame DEF UpstreamInv
  <2>3. UpstreamInv'
    BY <1>3, <2>2 DEF FlushStore, FlushFail, UpstreamInv
  <2>4. WriterInv'
    BY <1>3, <2>2 DEF FlushStore, FlushFail, WriterInv
  <2> QED BY <1>3, <2>2, <2>3, <2>4, Untouched DEF FlushStore, FlushFail
<1> QED BY <1>1, <1>2, <1>3

\* One step of the panel, of a machine, of diagnose or of the clock.
LEMMA WorldStep ==
    ASSUME IInv,
           \/ Tick \/ \E f \in SignIns : SignIn(f) \/ FirstParty(f) \/ SignInEnds(f) \/ Contribute(f)
           \/ RemoveAccount
           \/ DiagnoseRead \/ DiagnoseRefresh \/ DiagnoseStore \/ DiagnoseCut
    PROVE  IInv'
<1> USE DEF IInv, vars, tokenService, upstream, managers, writer, requests, process
<1>1. CASE Tick
  <2>1. Issued' = Issued /\ Rows' = Rows
    BY <1>1, Frame DEF Tick
  <2>2. ServiceInv' /\ Chains' /\ Machines'
    BY <1>1, ConstantsAssumption DEF Tick, ServiceInv, Chains, Machines
  <2> QED BY <1>1, <2>1, <2>2, Untouched DEF Tick
<1>2. ASSUME NEW f \in SignIns, SignIn(f) \/ FirstParty(f) PROVE IInv'
  <2>1. Issue(f) /\ UNCHANGED <<db, process, diag>>
    BY <1>2 DEF SignIn, FirstParty
  <2>2. /\ machine' = [machine EXCEPT ![f] = machine'[f]]
        /\ machine'[f] \in Nat \ {0} /\ machine'[f] <= Len(expiry[f]) + 1
    <3>1. CASE SignIn(f)
      BY <3>1 DEF SignIn, ServiceInv
    <3>2. CASE FirstParty(f)
      BY <3>2 DEF FirstParty, ServiceInv
    <3> QED BY <1>2, <3>1, <3>2
  <2>3. lost' \subseteq SignIns
    BY <1>2 DEF SignIn, FirstParty, ServiceInv
  <2>4. ServiceInv' /\ Chains'
    BY <2>1, <2>2, <2>3, IssueParts DEF ServiceInv
  <2>5. Issued \subseteq Issued' /\ Rows \subseteq Rows'
    BY <2>1, <2>4, IssueParts, IssuedStays
  <2>6. Machines'
    <3>1. expiry'[1] # <<>>
      <4>1. 1 \in SignIns /\ Len(expiry[1]) >= 1
        BY ConstantsAssumption DEF Machines, ServiceInv, SignIns
      <4>2. Len(expiry'[1]) >= 1
        BY <2>1, <2>4, <4>1, IssueParts DEF ServiceInv
      <4> QED BY <4>1, <4>2
    <3>2. ASSUME NEW e \in SignIns
          PROVE  machine'[e] <= Len(expiry'[e]) /\ (expiry'[e] # <<>> => machine'[e] > 0)
      <4>1. CASE e = f
        BY <2>1, <2>2, <4>1, IssueParts
      <4>2. CASE e # f
        BY <2>1, <2>2, <4>2, IssueParts DEF Machines, ServiceInv
      <4> QED BY <4>1, <4>2
    <3> QED BY <3>1, <3>2 DEF Machines
  <2> QED BY <2>1, <2>4, <2>5, <2>6, Untouched
<1>3. ASSUME NEW f \in SignIns, SignInEnds(f) PROVE IInv'
  <2>1. Issued' = Issued /\ Rows' = Rows
    BY <1>3, Frame DEF SignInEnds
  <2>2. ServiceInv' /\ Chains' /\ Machines'
    BY <1>3 DEF SignInEnds, ServiceInv, Chains, Machines
  <2> QED BY <1>3, <2>1, <2>2, Untouched DEF SignInEnds
<1>4. ASSUME NEW f \in SignIns, Contribute(f) PROVE IInv'
  <2>1. /\ f \in SignIns /\ f > db.end /\ db # Gone
        /\ expiry[f] # <<>> /\ UNCHANGED <<tokenService, machine, process, diag, lost>>
        /\ db' = [cred |-> <<f, machine[f]>>, end |-> f]
    BY <1>4 DEF Contribute, SignedIn
  <2>2. <<f, machine[f]>> \in Credential /\ machine[f] <= Len(expiry[f])
    BY <2>1 DEF Machines, ServiceInv, Credential
  <2>3. db' \in Account /\ db' # Gone /\ db \in Account
    BY <2>1, <2>2, ConstantsAssumption DEF Account, Credential, UpstreamInv, Rows
  <2>4. ServiceInv' /\ Chains' /\ Machines'
    BY <2>1 DEF ServiceInv, Chains, Machines
  <2>5. db.end <= db'.end
    BY <2>1, <2>3 DEF Account, SignIns
  <2>6. Issued \subseteq Issued' /\ Rows \subseteq Rows'
    BY <2>1, <2>3, <2>4, <2>5, IssuedStays DEF ServiceInv
  <2>7. db' \in Rows'
    BY <2>1, <2>2, <2>3 DEF Issued, Rows, SignIns
  <2>8. UpstreamInv'
    BY <2>1, <2>6, <2>7 DEF UpstreamInv
  <2> QED BY <2>1, <2>4, <2>6, <2>8, Untouched
<1>5. CASE RemoveAccount
  <2>1. ServiceInv' /\ Chains' /\ Machines' /\ db' = Gone
    BY <1>5 DEF RemoveAccount, ServiceInv, Chains, Machines
  <2>2. Issued \subseteq Issued' /\ Rows \subseteq Rows'
    BY <1>5, <2>1, IssuedStays DEF RemoveAccount, ServiceInv
  <2>3. UpstreamInv'
    BY <1>5, <2>1, <2>2, DefaultIssued DEF RemoveAccount, UpstreamInv
  <2> QED BY <1>5, <2>1, <2>2, <2>3, Untouched DEF RemoveAccount
<1>6. CASE DiagnoseRead
  <2>1. Issued' = Issued /\ Rows' = Rows
    BY <1>6, Frame DEF DiagnoseRead
  <2>2. db.cred \in Issued /\ db.cred # None
    BY <1>6, RowCred, ConstantsAssumption DEF DiagnoseRead, UpstreamInv, Issued, Credential
  <2>3. DiagInv'
    BY <1>6, <2>1, <2>2 DEF DiagnoseRead, DiagInv
  <2> QED BY <1>6, <2>1, <2>3, Untouched DEF DiagnoseRead
<1>7. CASE DiagnoseRefresh
  <2> DEFINE f == diag.cred[1]
  <2>1. diag.cred \in Issued /\ f \in SignIns /\ UNCHANGED <<machine, db, process, lost>>
    BY <1>7, IssuedParts DEF DiagnoseRefresh, DiagInv
  <2>2. CASE Refreshable(diag.cred)
    <3>1. /\ Issue(f) /\ diag' = [st |-> "store", cred |-> <<f, diag.cred[2] + 1>>]
          /\ diag.cred[2] = Len(expiry[f]) /\ expiry[f] # <<>>
      BY <1>7, <2>1, <2>2, IssuedParts DEF DiagnoseRefresh, Refreshable, IsNewest, Newest, ServiceInv
    <3> HIDE DEF f
    <3>2. ServiceInv' /\ Chains'
      BY <2>1, <3>1, IssueParts DEF ServiceInv
    <3>3. Issued \subseteq Issued' /\ Rows \subseteq Rows'
      BY <2>1, <3>1, <3>2, IssueParts, IssuedStays
    <3>4. Machines'
      <4>1. \A e \in SignIns : expiry[e] = <<>> => expiry'[e] = <<>>
        BY <2>1, <3>1, IssueParts
      <4> QED BY <2>1, <3>1, <3>2, <4>1, IssueParts, MachinesKept
    <3>5. <<f, diag.cred[2] + 1>> \in Issued' /\ <<f, diag.cred[2] + 1>> # None
      <4>1. <<f, diag.cred[2] + 1>> \in Issued'
        BY <2>1, <3>1, IssuedNext DEF f
      <4> QED BY <4>1, ConstantsAssumption DEF Issued, Credential
    <3>6. DiagInv'
      BY <3>1, <3>5 DEF DiagInv
    <3> QED BY <2>1, <3>2, <3>3, <3>4, <3>6, Untouched
  <2>3. CASE ~Refreshable(diag.cred)
    <3>1. Issued' = Issued /\ Rows' = Rows
      BY <1>7, <2>3, Frame DEF DiagnoseRefresh
    <3>2. DiagInv'
      BY <1>7, <2>3, <3>1 DEF DiagnoseRefresh, DiagInv
    <3> QED BY <1>7, <2>3, <3>1, <3>2, Untouched DEF DiagnoseRefresh
  <2> QED BY <2>2, <2>3
<1>8. CASE DiagnoseStore
  <2>1. Issued' = Issued /\ Rows' = Rows /\ db' \in Rows
    BY <1>8, StoreParts DEF DiagnoseStore, DiagInv
  <2>2. UpstreamInv' /\ DiagInv'
    BY <1>8, <2>1 DEF DiagnoseStore, UpstreamInv, DiagInv
  <2> QED BY <1>8, <2>1, <2>2, Untouched DEF DiagnoseStore
<1>9. CASE DiagnoseCut
  <2>1. Issued' = Issued /\ Rows' = Rows
    BY <1>9, Frame DEF DiagnoseCut
  <2>2. diag.cred \in Issued /\ diag.cred[1] \in SignIns
    BY <1>9, IssuedParts DEF DiagnoseCut, DiagInv
  <2>3. ServiceInv' /\ Chains' /\ Machines' /\ DiagInv'
    BY <1>9, <2>1, <2>2 DEF DiagnoseCut, ServiceInv, Chains, Machines, DiagInv
  <2> QED BY <1>9, <2>1, <2>3, Untouched DEF DiagnoseCut
<1> QED BY <1>1, <1>2, <1>3, <1>4, <1>5, <1>6, <1>7, <1>8, <1>9

\* The process stops, exits or is killed, and starts again.
LEMMA ProcessStep ==
    ASSUME IInv, Stop \/ Exit \/ Crash
    PROVE  IInv'
<1> USE DEF IInv, vars, tokenService, upstream, managers, writer, requests, process
<1>1. Issued' = Issued /\ Rows' = Rows
  BY Frame DEF Stop, Exit, Crash
<1>2. CASE Stop
  <2>1. UpstreamInv'
    BY <1>1, <1>2 DEF Stop, UpstreamInv
  <2> QED BY <1>1, <1>2, <2>1, Untouched DEF Stop
<1>3. CASE Exit \/ Crash
  <2>1. Restarted /\ lost' \subseteq SignIns /\ UNCHANGED <<tokenService, machine, db, diag>>
    BY <1>3, UnstoredSignIns DEF Exit, Crash, ServiceInv
  <2>2. UpstreamInv' /\ WriterInv'
    BY <1>1, <2>1, DefaultIssued DEF Restarted, UpstreamInv, WriterInv
  <2>3. ManagersInv' /\ RequestsInv' /\ Opened'
    BY <1>1, <2>1, DefaultIssued DEF Restarted, ManagersInv, RequestsInv, Opened
  <2>4. ServiceInv' /\ Chains' /\ Machines'
    BY <2>1 DEF ServiceInv, Chains, Machines
  <2> QED BY <1>1, <2>1, <2>2, <2>3, <2>4, Untouched
<1> QED BY <1>2, <1>3

LEMMA NextIInv == IInv /\ [Next]_vars => IInv'
<1>1. CASE UNCHANGED vars
  <2>1. IInv => IInv'
    BY <1>1, Frame, Untouched DEF IInv, vars, tokenService, upstream, managers, writer, requests, process
  <2> QED BY <2>1
<1>2. CASE Next
  BY <1>2, RequestStep, BackgroundStep, WorldStep, ProcessStep DEF Next
<1> QED BY <1>1, <1>2

LEMMA InitIInv == Init => IInv
<1> SUFFICES ASSUME Init PROVE IInv
  OBVIOUS
<1> USE ConstantsAssumption
<1>1. 1 \in SignIns /\ <<1, 1>> \in Credential
  BY DEF SignIns, Credential
<1>2. /\ expiry \in [SignIns -> Seq(Nat)] /\ expiry[1] = <<Lifetime>> /\ Len(expiry[1]) = 1
      /\ \A f \in SignIns : f # 1 => expiry[f] = <<>>
  BY <1>1 DEF Init
<1>3. <<1, 1>> \in Issued /\ db \in Rows /\ Gone \in Rows
  <2>1. <<1, 1>> \in Issued
    BY <1>1, <1>2 DEF Init, Issued
  <2> QED BY <1>1, <2>1 DEF Init, Rows, Account
<1>4. ServiceInv /\ Machines /\ Chains
  BY <1>1, <1>2 DEF Init, ServiceInv, Machines, Chains
<1>5. UpstreamInv /\ ManagersInv /\ WriterInv /\ RequestsInv /\ Opened /\ DiagInv
  BY <1>3 DEF Init, UpstreamInv, ManagersInv, WriterInv, RequestsInv, Opened, DiagInv
<1> QED BY <1>4, <1>5 DEF IInv

\* IInv holds in every reachable state: of every credential held anywhere, the
\* token service has issued it, and the panel has been given its sign-in.
THEOREM Invariance == Spec => []IInv
BY InitIInv, NextIInv, PTL DEF Spec

LEMMA IInvTypes == IInv => TypeOK
<1> SUFFICES ASSUME IInv PROVE TypeOK
  OBVIOUS
<1>1. Issued \subseteq Credential /\ Rows \subseteq Account \cup {Gone}
  BY DEF Issued, Rows
<1>2. /\ cred \in [Managers -> Credential] /\ tok \in [Requests -> Credential \cup {None}]
      /\ view \in [Requests -> Account \cup {Gone}] /\ read \in [Requests -> Account \cup {Gone}]
  BY <1>1 DEF IInv, ManagersInv, RequestsInv
<1>3. flight \in [st : {"none", "reading", "read"}, data : Account \cup {Gone}]
  BY <1>1 DEF IInv, UpstreamInv
<1>4. diag \in [st : {"idle", "refresh", "store"}, cred : Credential \cup {None}]
  BY <1>1 DEF IInv, DiagInv
<1> QED
  BY <1>1, <1>2, <1>3, <1>4 DEF TypeOK, IInv, ServiceInv, UpstreamInv, ManagersInv,
     WriterInv, RequestsInv, Opened, DiagInv

\* Every step leaves the state well typed; in particular no step of a request
\* uses a manager it has not opened.
THEOREM TypeCorrect == Spec => []TypeOK
BY Invariance, IInvTypes, PTL

\* Of two credentials of one sign-in, the one that dies no later is no later.
LEMMA ExpiryOrders ==
    ASSUME IInv, NEW c \in Issued, NEW d \in Issued, c[1] = d[1]
    PROVE  /\ Exp(c) \in Nat
           /\ ~NewerThan(c, d) => c[2] <= d[2]
           /\ NewerThan(d, c) => c[2] <= d[2]
<1> DEFINE e == expiry[c[1]]
<1>1. /\ c[1] \in SignIns /\ c[2] \in 1..Len(e) /\ d[2] \in 1..Len(e)
      /\ e \in Seq(Nat) /\ Len(e) \in Nat
  BY IssuedParts DEF IInv, ServiceInv
<1>2. \A g, h \in 1..Len(e) : g < h => e[g] < e[h]
  BY <1>1 DEF IInv, Chains
<1>3. Exp(c) = e[c[2]] /\ Exp(d) = e[d[2]]
  BY DEF Exp
<1> HIDE DEF e
<1>4. e[c[2]] \in Nat /\ e[d[2]] \in Nat
  BY <1>1
<1>5. c[2] > d[2] => e[c[2]] > e[d[2]]
  BY <1>1, <1>2, <1>4
<1>6. c[2] \in Nat /\ d[2] \in Nat
  BY <1>1
<1> QED BY <1>3, <1>4, <1>5, <1>6 DEF NewerThan

\* A step never replaces the stored credential by an earlier one of its sign-in.
LEMMA StoreForward ==
    ASSUME IInv, [Next]_vars
    PROVE  [db # Gone /\ db' # Gone /\ db.cred[1] = db'.cred[1]
              => db'.cred[2] >= db.cred[2]]_db
<1> DEFINE A == db # Gone /\ db' # Gone /\ db.cred[1] = db'.cred[1]
                  => db'.cred[2] >= db.cred[2]
<1> USE DEF IInv, vars, tokenService, upstream, managers, writer, requests, process
<1>1. ASSUME NEW c \in Issued, StoreCredential(c) PROVE A
  <2> SUFFICES ASSUME db # Gone, db' # Gone, db.cred[1] = db'.cred[1]
               PROVE  db'.cred[2] >= db.cred[2]
    OBVIOUS
  <2>1. db \in Account /\ db.cred \in Issued
    BY DEF UpstreamInv, Rows
  <2>2. CASE db' = db
    BY <2>1, <2>2, IssuedParts
  <2>3. CASE ~NewerThan(db.cred, c) /\ db' = [db EXCEPT !.cred = c]
    <3>1. db'.cred = c
      BY <2>1, <2>3 DEF Account
    <3>2. db.cred[2] <= c[2]
      BY <2>1, <2>3, <3>1, ExpiryOrders
    <3>3. db.cred[2] \in Nat /\ c[2] \in Nat
      BY <2>1, IssuedParts
    <3> QED BY <3>1, <3>2, <3>3
  <2> QED BY <1>1, <2>2, <2>3 DEF StoreCredential
<1>2. CASE FlushStore \/ FlushFail
  <2>1. flushing \in Issued /\ (UNCHANGED db \/ StoreCredential(flushing))
    BY <1>2 DEF FlushStore, FlushFail, WriterInv
  <2> QED BY <1>1, <2>1
<1>3. CASE DiagnoseStore
  <2>1. diag.cred \in Issued /\ StoreCredential(diag.cred)
    BY <1>3 DEF DiagnoseStore, DiagInv
  <2> QED BY <1>1, <2>1
<1>4. ASSUME NEW f \in SignIns, Contribute(f) PROVE A
  <2>1. db # Gone /\ f > db.end /\ db' = [cred |-> <<f, machine[f]>>, end |-> f]
    BY <1>4 DEF Contribute
  <2>2. db.cred[1] \in SignIns /\ db.cred[1] <= db.end /\ db.end \in SignIns
    BY <2>1, IssuedParts DEF UpstreamInv, Rows, Account, Issued
  <2>3. db'.cred[1] = f /\ db.cred[1] # f
    BY <2>1, <2>2 DEF SignIns
  <2> QED BY <2>3
<1>5. CASE RemoveAccount
  BY <1>5 DEF RemoveAccount
<1>6. CASE UNCHANGED db
  BY <1>6
<1>7. ASSUME NEW r \in Requests, Resolve(r) \/ Request(r) PROVE UNCHANGED db
  BY <1>7 DEF Resolve, Request, ManagerFor, Lock, ReadTimeout, Adopt, RefreshGranted,
     RefreshDone, RefreshRefused, RefreshCut, Forget, Forward
<1>8. CASE UNCHANGED vars \/ FlightLoad \/ FlightLand \/ FlightFail \/ ReadAges \/ FlushStart
           \/ Tick \/ DiagnoseRead \/ DiagnoseRefresh \/ DiagnoseCut \/ Stop \/ Exit \/ Crash
  <2>1. UNCHANGED db
    BY <1>8 DEF FlightLoad, FlightLand, FlightFail, ReadAges, FlushStart, Tick, DiagnoseRead,
       DiagnoseRefresh, DiagnoseCut, Stop, Exit, Crash
  <2> QED BY <1>6, <2>1
<1>9. ASSUME NEW f \in SignIns, SignIn(f) \/ FirstParty(f) \/ SignInEnds(f) PROVE UNCHANGED db
  BY <1>9 DEF SignIn, FirstParty, SignInEnds
<1> HIDE DEF A
<1>10. A \/ UNCHANGED db
  BY <1>2, <1>3, <1>4, <1>5, <1>7, <1>8, <1>9 DEF Next, A
<1> QED BY <1>10 DEF A

\* storeCredential, contributions and diagnose never put an earlier credential
\* of a sign-in over a later one.
THEOREM StoreMonotone == Spec => StoreNeverGoesBack
<1>1. IInv /\ [Next]_vars => [db # Gone /\ db' # Gone /\ db.cred[1] = db'.cred[1]
                                => db'.cred[2] >= db.cred[2]]_db
  BY StoreForward
<1> QED BY <1>1, Invariance, PTL DEF Spec, StoreNeverGoesBack

\* A step of get hands out a token that is alive, or the one its refresh brought.
LEMMA AliveStep ==
    ASSUME IInv, [Next]_vars, NEW r \in Requests,
           pc[r] # "forward", pc'[r] = "forward", op[r] = "token"
    PROVE  now < Exp(tok'[r]) \/ (pc[r] = "reply" /\ tok'[r] = tok[r])
<1> USE DEF IInv, vars, tokenService, upstream, managers, writer, requests, process
<1>1. ASSUME NEW c \in Issued, ~Stale(c) PROVE now < Exp(c)
  <2>1. Exp(c) \in Nat
    BY ExpiryOrders
  <2> QED BY <1>1, <2>1, ConstantsAssumption DEF Stale, ServiceInv
<1>2. ASSUME NEW q \in Requests, Resolve(q) \/ Request(q)
      PROVE  now < Exp(tok'[r]) \/ (pc[r] = "reply" /\ tok'[r] = tok[r])
  <2>1. q = r
    <3> SUFFICES ASSUME q # r PROVE pc'[r] = pc[r]
      OBVIOUS
    <3>1. CASE RefreshRefused(q) \/ RefreshCut(q)
      BY <3>1 DEF RefreshRefused, RefreshCut, RefreshFails, Answer, Finish, Goto, RequestsInv
    <3>2. CASE Resolve(q) \/ ManagerFor(q) \/ Lock(q) \/ ReadTimeout(q) \/ Adopt(q)
      BY <3>2 DEF Resolve, ManagerFor, Lock, ReadTimeout, Adopt, Answer, Goto, RequestsInv
    <3>3. CASE RefreshGranted(q) \/ RefreshDone(q) \/ Forget(q) \/ Forward(q)
      BY <3>3 DEF RefreshGranted, RefreshDone, Forget, Forward, Finish, Answer, Goto, RequestsInv
    <3> QED BY <1>2, <3>1, <3>2, <3>3 DEF Request
  <2>2. CASE Lock(r)
    <3>1. tok'[r] = cred[mgr[r]] /\ ~Stale(cred[mgr[r]])
      BY <2>2 DEF Lock, Answer, Goto, RequestsInv
    <3> QED BY <1>1, <2>2, <3>1, Holds DEF Lock
  <2>3. CASE Adopt(r)
    <3> DEFINE d == IF pc[r] = "adopt" THEN read[r] ELSE snap
               c == IF Adopts(r, cred[mgr[r]], d) THEN d.cred ELSE cred[mgr[r]]
    <3>1. tok'[r] = c /\ ~Stale(c)
      BY <2>3 DEF Adopt, Answer, Goto, RequestsInv
    <3>2. c \in Issued
      BY <2>3, Holds, RowCred DEF Adopt, Adopts, RequestsInv, UpstreamInv
    <3> QED BY <1>1, <3>1, <3>2
  <2>4. CASE RefreshDone(r)
    BY <2>4 DEF RefreshDone, Answer, RequestsInv
  <2>5. CASE RefreshRefused(r) \/ RefreshCut(r)
    BY <2>5 DEF RefreshRefused, RefreshCut, RefreshFails, Answer, Finish, Goto, RequestsInv
  <2>6. CASE Resolve(r) \/ ManagerFor(r) \/ ReadTimeout(r) \/ RefreshGranted(r) \/ Forget(r) \/ Forward(r)
    BY <2>6 DEF Resolve, ManagerFor, ReadTimeout, RefreshGranted, Forget, Forward, Finish, Goto, RequestsInv
  <2> QED BY <1>2, <2>1, <2>2, <2>3, <2>4, <2>5, <2>6 DEF Request
<1>3. CASE FlightLand \/ FlightFail \/ Exit \/ Crash
  BY <1>3 DEF FlightLand, FlightFail, Exit, Crash, Restarted, RequestsInv
<1>4. CASE UNCHANGED pc
  BY <1>4
<1>5. CASE FlightLoad \/ ReadAges \/ FlushStart \/ FlushStore \/ FlushFail \/ Stop
  BY <1>4, <1>5 DEF FlightLoad, ReadAges, FlushStart, FlushStore, FlushFail, Stop
<1>6. CASE Tick \/ RemoveAccount \/ DiagnoseRead \/ DiagnoseRefresh \/ DiagnoseStore \/ DiagnoseCut
  BY <1>4, <1>6 DEF Tick, RemoveAccount, DiagnoseRead, DiagnoseRefresh, DiagnoseStore, DiagnoseCut
<1>7. ASSUME NEW f \in SignIns, SignIn(f) \/ FirstParty(f) \/ SignInEnds(f) \/ Contribute(f)
      PROVE UNCHANGED pc
  BY <1>7 DEF SignIn, FirstParty, SignInEnds, Contribute
<1> QED BY <1>2, <1>3, <1>4, <1>5, <1>6, <1>7 DEF Next

\* get never falls back to a token that is past its expiry.
THEOREM TokensAlive == Spec => TokenHandedOutIsAlive
<1>1. IInv /\ [Next]_vars =>
        [\A r \in Requests : pc[r] # "forward" /\ pc'[r] = "forward" /\ op[r] = "token"
           => \/ now < Exp(tok'[r])
              \/ pc[r] = "reply" /\ tok'[r] = tok[r]]_pc
  BY AliveStep
<1> QED BY <1>1, Invariance, PTL DEF Spec, TokenHandedOutIsAlive

\* The poller's view while it is serving a round is of a login not found ended.
Unended == \A r \in Pollers : pc[r] \notin {"idle", "forget"} => view[r].cred # endedLogin

LEMMA UnendedStep ==
    ASSUME IInv, Unended, [Next]_vars
    PROVE  Unended'
<1> USE DEF IInv, vars, tokenService, upstream, managers, writer, requests, process
<1>1. ASSUME NEW q \in Requests, Resolve(q) \/ Request(q) PROVE Unended'
  <2>1. CASE Resolve(q)
    BY <2>1 DEF Resolve, Goto, Unended, RequestsInv, Requests
  <2>2. CASE ManagerFor(q) \/ Lock(q) \/ ReadTimeout(q) \/ Adopt(q) \/ RefreshGranted(q) \/ RefreshDone(q)
    BY <2>2, ConstantsAssumption DEF ManagerFor, Lock, ReadTimeout, Adopt, RefreshGranted, RefreshDone,
       Answer, Goto, Unended, RequestsInv, Requests
  <2>3. CASE RefreshRefused(q) \/ RefreshCut(q)
    <3>1. /\ pc' = [pc EXCEPT ![q] = "forward"] /\ UNCHANGED <<view, endedLogin>>
          \/ /\ pc' = [pc EXCEPT ![q] = pc'[q]] /\ pc'[q] \in {"idle", "forget"}
             /\ q \notin Pollers => endedLogin' = endedLogin
             /\ view' = [view EXCEPT ![q] = view'[q]]
      <4>1. CASE RefreshRefused(q)
        BY <4>1 DEF RefreshRefused, RefreshFails, Answer, Finish, Goto, RequestsInv
      <4>2. CASE RefreshCut(q)
        BY <4>2 DEF RefreshCut, RefreshFails, Answer, Finish, Goto, RequestsInv
      <4> QED BY <2>3, <4>1, <4>2
    <3>2. pc[q] \in {"refresh", "reply"}
      BY <2>3 DEF RefreshRefused, RefreshCut
    <3> QED BY <3>1, <3>2, ConstantsAssumption DEF Unended, RequestsInv, Requests
  <2>4. CASE Forget(q) \/ Forward(q)
    BY <2>4 DEF Forget, Forward, Finish, Goto, Unended, RequestsInv, Requests
  <2> QED BY <1>1, <2>1, <2>2, <2>3, <2>4 DEF Request
<1>2. CASE FlightLand \/ FlightFail \/ Exit \/ Crash
  BY <1>2 DEF FlightLand, FlightFail, Exit, Crash, Restarted, Unended, RequestsInv, Requests
<1>3. CASE UNCHANGED <<pc, view, endedLogin>>
  BY <1>3 DEF Unended
<1>4. CASE FlightLoad \/ ReadAges \/ FlushStart \/ FlushStore \/ FlushFail \/ Stop
  BY <1>3, <1>4 DEF FlightLoad, ReadAges, FlushStart, FlushStore, FlushFail, Stop
<1>5. CASE Tick \/ RemoveAccount \/ DiagnoseRead \/ DiagnoseRefresh \/ DiagnoseStore \/ DiagnoseCut
  BY <1>3, <1>5 DEF Tick, RemoveAccount, DiagnoseRead, DiagnoseRefresh, DiagnoseStore, DiagnoseCut
<1>6. ASSUME NEW f \in SignIns, SignIn(f) \/ FirstParty(f) \/ SignInEnds(f) \/ Contribute(f)
      PROVE UNCHANGED <<pc, view, endedLogin>>
  BY <1>6 DEF SignIn, FirstParty, SignInEnds, Contribute
<1> QED BY <1>1, <1>2, <1>3, <1>4, <1>5, <1>6 DEF Next

\* The usage poller never asks the token service to refresh while it serves a round
\* for the stored login it marked as ended (markEnded, knownEnded); a member's request
\* does not look at the mark.
THEOREM PollerLeavesEndedAlone == Spec => []EndedLoginLeftAlone
<1>1. Init => Unended
  BY DEF Init, Unended, Requests
<1>2. Unended => EndedLoginLeftAlone
  BY DEF Unended, EndedLoginLeftAlone
<1> QED BY <1>1, <1>2, UnendedStep, Invariance, PTL DEF Spec

\* Nothing is marked before some sign-in of the account has ended.
MarkedForAnEnd == endedLogin # None => ended # {}

LEMMA MarkedStep == IInv /\ MarkedForAnEnd /\ [Next]_vars => MarkedForAnEnd'
<1> SUFFICES ASSUME IInv, MarkedForAnEnd, [Next]_vars PROVE MarkedForAnEnd'
  OBVIOUS
<1> USE DEF vars, tokenService, upstream, managers, writer, requests, process
<1>1. CASE UNCHANGED <<ended, endedLogin>>
  BY <1>1 DEF MarkedForAnEnd
<1>2. ASSUME NEW q \in Requests, Resolve(q) \/ Request(q) PROVE MarkedForAnEnd'
  <2>1. CASE Resolve(q) \/ ManagerFor(q) \/ Lock(q) \/ ReadTimeout(q) \/ Adopt(q)
    BY <1>1, <2>1 DEF Resolve, ManagerFor, Lock, ReadTimeout, Adopt
  <2>2. CASE RefreshGranted(q) \/ RefreshDone(q) \/ Forget(q) \/ Forward(q)
    BY <1>1, <2>2 DEF RefreshGranted, Issue, RefreshDone, Forget, Forward
  <2>3. CASE RefreshRefused(q)
    BY <2>3 DEF RefreshRefused, RefreshFails, Finish, MarkedForAnEnd
  <2>4. CASE RefreshCut(q)
    BY <2>4 DEF RefreshCut, RefreshFails, Finish, MarkedForAnEnd
  <2> QED BY <1>2, <2>1, <2>2, <2>3, <2>4 DEF Request
<1>3. ASSUME NEW f \in SignIns, SignIn(f) \/ FirstParty(f) \/ SignInEnds(f) \/ Contribute(f)
      PROVE MarkedForAnEnd'
  BY <1>3 DEF SignIn, FirstParty, Issue, SignInEnds, Contribute, MarkedForAnEnd
<1>4. CASE Exit \/ Crash
  BY <1>4 DEF Exit, Crash, Restarted, MarkedForAnEnd
<1>5. CASE FlightLoad \/ FlightLand \/ FlightFail \/ ReadAges \/ FlushStart \/ FlushStore \/ FlushFail
  BY <1>1, <1>5 DEF FlightLoad, FlightLand, FlightFail, ReadAges, FlushStart, FlushStore, FlushFail
<1>6. CASE \/ Tick \/ RemoveAccount \/ Stop
           \/ DiagnoseRead \/ DiagnoseRefresh \/ DiagnoseStore \/ DiagnoseCut
  BY <1>1, <1>6 DEF Tick, RemoveAccount, Stop, DiagnoseRead, DiagnoseRefresh, Issue, DiagnoseStore, DiagnoseCut
<1>7. CASE UNCHANGED vars
  BY <1>1, <1>7
<1> QED BY <1>2, <1>3, <1>4, <1>5, <1>6, <1>7 DEF Next

\* With one sign-in the poller marks the stored login only when that sign-in has ended
\* (markEnded, knownEnded): it is the other side of the counterexample with two, where a
\* manager that was not given the new login is refused and the new login is marked.
THEOREM MarkedOnlyWhenEnded == LastSignIn = 1 => (Spec => []MarkedLoginEnded)
<1> SUFFICES ASSUME LastSignIn = 1 PROVE Spec => []MarkedLoginEnded
  OBVIOUS
<1>1. Init => MarkedForAnEnd
  BY DEF Init, MarkedForAnEnd
<1>2. IInv /\ MarkedForAnEnd => MarkedLoginEnded
  <2> SUFFICES ASSUME IInv, MarkedForAnEnd, db # Gone, endedLogin = db.cred
               PROVE endedLogin[1] \in ended
    BY DEF MarkedLoginEnded
  <2>1. TypeOK /\ SignIns = {1}
    BY IInvTypes DEF SignIns
  <2>2. endedLogin \in Credential /\ endedLogin # None
    BY <2>1, ConstantsAssumption DEF TypeOK, Account, Credential
  <2>3. endedLogin[1] = 1
    BY <2>1, <2>2 DEF Credential
  <2>4. 1 \in ended
    <3>1. ended \subseteq {1} /\ ended # {}
      BY <2>1, <2>2 DEF MarkedForAnEnd, TypeOK
    <3> QED BY <3>1
  <2> QED BY <2>3, <2>4
<1> QED BY <1>1, <1>2, MarkedStep, Invariance, PTL DEF Spec
-----------------------------------------------------------------------------
(* A manager's credential only moves forward.                              *)

Inside == {"wait", "adopt", "current", "refresh", "reply"}

\* A call between its lock and its answer holds its manager's mutex, so what the
\* token service replied to it is later than what the manager has.
Excluded ==
    /\ \A r \in Requests : pc[r] \in Inside => holder[mgr[r]] = r
    /\ \A r \in Requests : pc[r] = "reply" => /\ tok[r][1] = cred[mgr[r]][1]
                                              /\ cred[mgr[r]][2] <= tok[r][2]

\* ManagerNeverGoesBack of one step.
MovesForward ==
    \A m \in Managers :
        /\ m = current \/ \E r \in Requests : mgr[r] = m
        /\ m = current' \/ \E r \in Requests : mgr'[r] = m
        /\ cred'[m][1] = cred[m][1]
        => cred'[m][2] >= cred[m][2]

LEMMA Generations == IInv => \A m \in Managers : cred[m][2] \in Nat
BY IssuedParts DEF IInv, ManagersInv

\* A step of call r that lets its manager go, or takes it: everything else is as it
\* was, and the manager's own credential has at most moved forward.
LEMMA OthersStay ==
    ASSUME IInv, Excluded, NEW r \in Requests,
           \A q \in Requests \ {r} : pc'[q] = pc[q] /\ mgr'[q] = mgr[q] /\ tok'[q] = tok[q],
           \A m \in Managers : m # mgr[r] => holder'[m] = holder[m],
           mgr[r] \in Managers => holder[mgr[r]] \in {None, r},
           \A m \in Managers : m # mgr[r] /\ (m = current' \/ \E q \in Requests : mgr'[q] = m)
                               => cred'[m] = cred[m]
    PROVE  \A q \in Requests \ {r} :
              /\ pc'[q] \in Inside => holder'[mgr'[q]] = q
              /\ pc'[q] = "reply" => tok'[q][1] = cred'[mgr'[q]][1]
                                     /\ cred'[mgr'[q]][2] <= tok'[q][2]
<1> SUFFICES ASSUME NEW q \in Requests \ {r}, pc'[q] \in Inside
             PROVE  /\ holder'[mgr'[q]] = q
                    /\ pc'[q] = "reply" => tok'[q][1] = cred'[mgr'[q]][1]
                                           /\ cred'[mgr'[q]][2] <= tok'[q][2]
  BY DEF Inside
<1>1. mgr[q] \in Managers /\ holder[mgr[q]] = q /\ q # None
  BY Holds, ConstantsAssumption DEF Inside, Excluded
<1>2. mgr[q] # mgr[r]
  BY <1>1
<1>3. holder'[mgr'[q]] = q /\ cred'[mgr'[q]] = cred[mgr[q]]
  BY <1>1, <1>2
<1> QED BY <1>3 DEF Excluded

LEMMA AnswerForward ==
    ASSUME IInv, Excluded, NEW r \in Requests, NEW t, NEW c, Answer(r, t, c),
           mgr[r] \in Managers, holder[mgr[r]] \in {None, r},
           \A m \in Managers : m # mgr[r] => c[m] = cred[m],
           c[mgr[r]][1] = cred[mgr[r]][1] => c[mgr[r]][2] >= cred[mgr[r]][2]
    PROVE  Excluded' /\ MovesForward
<1>1. /\ \A q \in Requests \ {r} : pc'[q] = pc[q] /\ mgr'[q] = mgr[q] /\ tok'[q] = tok[q]
      /\ \A m \in Managers : m # mgr[r] => holder'[m] = holder[m]
      /\ pc'[r] = "forward"
      /\ \A m \in Managers : (m = current' \/ \E q \in Requests : mgr'[q] = m) => cred'[m] = c[m]
  BY DEF Answer, Goto, Keep, IInv, ManagersInv, RequestsInv
<1>2. Excluded'
  BY <1>1, OthersStay DEF Excluded, Inside
<1>3. MovesForward
  <2> SUFFICES ASSUME NEW m \in Managers, m = current' \/ \E q \in Requests : mgr'[q] = m,
                      cred'[m][1] = cred[m][1]
               PROVE  cred'[m][2] >= cred[m][2]
    BY DEF MovesForward
  <2>1. cred[m][2] \in Nat
    BY Generations
  <2> QED BY <1>1, <2>1
<1> QED BY <1>2, <1>3

\* A step of a call that lets go of its manager, or leaves the managers as they are.
LEMMA LeaveForward ==
    ASSUME IInv, Excluded, NEW r \in Requests,
           \A q \in Requests \ {r} : pc'[q] = pc[q] /\ mgr'[q] = mgr[q] /\ tok'[q] = tok[q],
           pc'[r] \in Inside => pc'[r] # "reply" /\ mgr'[r] = mgr[r] /\ holder'[mgr[r]] = r,
           \A m \in Managers : m # mgr[r] => holder'[m] = holder[m],
           mgr[r] \in Managers => holder[mgr[r]] \in {None, r} \/ holder' = holder,
           \A m \in Managers : m = current' \/ (\E q \in Requests : mgr'[q] = m)
                               => cred'[m] = cred[m]
    PROVE  Excluded' /\ MovesForward
<1>1. \A q \in Requests \ {r} :
         /\ pc'[q] \in Inside => holder'[mgr'[q]] = q
         /\ pc'[q] = "reply" => tok'[q][1] = cred'[mgr'[q]][1]
                                /\ cred'[mgr'[q]][2] <= tok'[q][2]
  <2> SUFFICES ASSUME NEW q \in Requests \ {r}, pc'[q] \in Inside
               PROVE  /\ holder'[mgr'[q]] = q
                      /\ pc'[q] = "reply" => tok'[q][1] = cred'[mgr'[q]][1]
                                             /\ cred'[mgr'[q]][2] <= tok'[q][2]
    BY DEF Inside
  <2>1. mgr[q] \in Managers /\ holder[mgr[q]] = q /\ q # None
    BY Holds, ConstantsAssumption DEF Inside, Excluded
  <2>2. holder'[mgr[q]] = q
    BY <2>1
  <2>3. cred'[mgr'[q]] = cred[mgr[q]]
    BY <2>1
  <2> QED BY <2>2, <2>3 DEF Excluded
<1>2. Excluded'
  BY <1>1 DEF Excluded, Inside
<1>3. MovesForward
  <2> SUFFICES ASSUME NEW m \in Managers, m = current' \/ \E q \in Requests : mgr'[q] = m
               PROVE  cred'[m][2] >= cred[m][2]
    BY DEF MovesForward
  <2>1. cred[m][2] \in Nat
    BY Generations
  <2> QED BY <2>1
<1> QED BY <1>2, <1>3

LEMMA RequestForward ==
    ASSUME IInv, Excluded, NEW r \in Requests, Resolve(r) \/ Request(r)
    PROVE  Excluded' /\ MovesForward
<1> USE DEF vars, tokenService, upstream, managers, writer, requests, process
<1> DEFINE others == \A q \in Requests \ {r} :
                        pc'[q] = pc[q] /\ mgr'[q] = mgr[q] /\ tok'[q] = tok[q]
<1>0. pc[r] \in {"lock"} \cup Inside => mgr[r] \in Managers /\ cred[mgr[r]] \in Issued
  BY Holds DEF Inside
<1>1. CASE Resolve(r) \/ ReadTimeout(r)
  <2>1. others /\ UNCHANGED <<holder, cred, mgr>> /\ pc'[r] \in {"idle", "open", "current"}
        /\ (pc'[r] = "current" => pc[r] = "wait")
    BY <1>1 DEF Resolve, ReadTimeout, Goto, IInv, RequestsInv
  <2> QED BY <2>1, LeaveForward DEF Excluded, Inside
<1>2. CASE Forward(r)
  <2>1. others /\ UNCHANGED <<holder, cred>> /\ pc'[r] \in {"idle", "lock"}
    BY <1>2 DEF Forward, Finish, Goto, IInv, RequestsInv
  <2> QED BY <2>1, LeaveForward DEF Inside
<1>3. CASE ManagerFor(r)
  <2>1. others /\ UNCHANGED <<holder, tok>> /\ pc'[r] = "lock" /\ pc[r] = "open"
    BY <1>3 DEF ManagerFor, Goto, IInv, RequestsInv
  <2>2. CASE UNCHANGED cred
    BY <2>1, <2>2, LeaveForward DEF Inside
  <2>3. CASE ~UNCHANGED cred
    <3>1. PICK m \in Managers :
            /\ current = None /\ \A q \in Requests : mgr[q] # m
            /\ cred' = [cred EXCEPT ![m] = view[r].cred]
      BY <1>3, <2>3 DEF ManagerFor
    <3>2. \A x \in Managers : x # m => cred'[x] = cred[x]
      BY <3>1 DEF IInv, ManagersInv
    <3>3. MovesForward
      <4> SUFFICES ASSUME NEW x \in Managers, x = current \/ \E q \in Requests : mgr[q] = x
                   PROVE  cred'[x][2] >= cred[x][2]
        BY DEF MovesForward
      <4>1. x # m
        BY <3>1, ConstantsAssumption
      <4>2. cred[x][2] \in Nat
        BY Generations
      <4> QED BY <3>2, <4>1, <4>2
    <3>4. Excluded'
      <4> SUFFICES ASSUME NEW q \in Requests, pc'[q] \in Inside
                   PROVE  /\ holder'[mgr'[q]] = q
                          /\ pc'[q] = "reply" => tok'[q][1] = cred'[mgr'[q]][1]
                                                 /\ cred'[mgr'[q]][2] <= tok'[q][2]
        BY DEF Excluded, Inside
      <4>1. q # r
        BY <2>1 DEF Inside
      <4>2. pc[q] \in Inside /\ mgr'[q] = mgr[q] /\ mgr[q] \in Managers /\ tok'[q] = tok[q]
        BY <2>1, <4>1, Holds DEF Inside
      <4>3. cred'[mgr'[q]] = cred[mgr[q]]
        BY <3>1, <3>2, <4>2
      <4> QED BY <2>1, <4>1, <4>2, <4>3 DEF Excluded
    <3> QED BY <3>3, <3>4
  <2> QED BY <2>2, <2>3
<1>4. CASE Lock(r)
  <2>1. pc[r] = "lock" /\ holder[mgr[r]] = None /\ mgr[r] \in Managers
    BY <1>0, <1>4 DEF Lock
  <2>2. CASE Answer(r, cred[mgr[r]], cred)
    <3>1. cred[mgr[r]][2] \in Nat
      BY <2>1, Generations
    <3> QED BY <2>1, <2>2, <3>1, AnswerForward
  <2>3. CASE ~Answer(r, cred[mgr[r]], cred)
    <3>1. /\ holder' = [holder EXCEPT ![mgr[r]] = r]
          /\ pc' \in {[pc EXCEPT ![r] = "current"], [pc EXCEPT ![r] = "wait"]}
          /\ UNCHANGED <<tok, mgr, cred>>
      BY <1>4, <2>3 DEF Lock, Goto
    <3>2. others /\ pc'[r] \in {"current", "wait"} /\ holder'[mgr[r]] = r
          /\ \A m \in Managers : m # mgr[r] => holder'[m] = holder[m]
      BY <2>1, <3>1 DEF IInv, RequestsInv, ManagersInv
    <3> QED BY <2>1, <3>1, <3>2, LeaveForward
  <2> QED BY <2>2, <2>3
<1>5. CASE Adopt(r)
  <2> DEFINE m == mgr[r]
             d == IF pc[r] = "adopt" THEN read[r] ELSE snap
             c == IF Adopts(r, cred[m], d) THEN d.cred ELSE cred[m]
  <2>1. m \in Managers /\ cred[m] \in Issued /\ holder[m] = r /\ pc[r] \in Inside
    BY <1>0, <1>5 DEF Adopt, Inside, Excluded
  <2>2. c[1] = cred[m][1] => c[2] >= cred[m][2]
    <3>1. CASE Adopts(r, cred[m], d)
      <4>1. d.cred \in Issued /\ NewerThan(d.cred, cred[m]) /\ c = d.cred
        BY <3>1, RowCred DEF Adopts, IInv, RequestsInv, UpstreamInv
      <4>2. d.cred[2] \in Nat /\ cred[m][2] \in Nat
        BY <2>1, <4>1, IssuedParts DEF IInv
      <4> HIDE DEF m, d
      <4>3. d.cred[1] = cred[m][1] => cred[m][2] <= d.cred[2]
        BY <2>1, <4>1, ExpiryOrders
      <4> QED BY <4>1, <4>2, <4>3
    <3>2. CASE ~Adopts(r, cred[m], d)
      BY <2>1, <3>2, Generations
    <3> QED BY <3>1, <3>2
  <2>3. \/ Answer(r, c, [cred EXCEPT ![m] = c])
        \/ /\ cred' = [cred EXCEPT ![m] = c] /\ pc' = [pc EXCEPT ![r] = "refresh"]
           /\ UNCHANGED <<tok, mgr, current, holder>>
    BY <1>5 DEF Adopt, Goto
  <2> HIDE DEF c
  <2>4. LET w == [cred EXCEPT ![m] = c] IN w[m] = c /\ \A x \in Managers : x # m => w[x] = cred[x]
    BY <2>1 DEF IInv, ManagersInv
  <2>5. CASE Answer(r, c, [cred EXCEPT ![m] = c])
    <3> DEFINE w == [cred EXCEPT ![m] = c]
    <3>1. w[mgr[r]] = c /\ \A x \in Managers : x # mgr[r] => w[x] = cred[x]
      BY <2>4
    <3>2. Answer(r, c, w)
      BY <2>5
    <3> HIDE DEF w
    <3> QED BY <2>1, <2>2, <3>1, <3>2, AnswerForward
  <2>6. CASE /\ cred' = [cred EXCEPT ![m] = c] /\ pc' = [pc EXCEPT ![r] = "refresh"]
             /\ UNCHANGED <<tok, mgr, current, holder>>
    <3>1. others /\ pc'[r] = "refresh"
      BY <2>6 DEF IInv, RequestsInv
    <3>2. Excluded'
      BY <2>1, <2>4, <2>6, <3>1, OthersStay DEF Excluded, Inside
    <3>3. MovesForward
      <4> SUFFICES ASSUME NEW x \in Managers, cred'[x][1] = cred[x][1]
                   PROVE  cred'[x][2] >= cred[x][2]
        BY DEF MovesForward
      <4>1. cred[x][2] \in Nat
        BY Generations
      <4> QED BY <2>2, <2>4, <2>6, <4>1
    <3> QED BY <3>2, <3>3
  <2> QED BY <2>3, <2>5, <2>6
<1>6. CASE RefreshGranted(r)
  <2>1. mgr[r] \in Managers /\ cred[mgr[r]] \in Issued /\ holder[mgr[r]] = r
    BY <1>0, <1>6 DEF RefreshGranted, Inside, Excluded
  <2>2. UNCHANGED <<holder, cred, mgr>> /\ others /\ pc'[r] = "reply"
        /\ tok'[r] = <<cred[mgr[r]][1], cred[mgr[r]][2] + 1>>
    BY <1>6 DEF RefreshGranted, Goto, IInv, RequestsInv
  <2>3. cred[mgr[r]][2] \in Nat
    BY <2>1, Generations
  <2>4. tok'[r][1] = cred[mgr[r]][1] /\ tok'[r][2] = cred[mgr[r]][2] + 1
    BY <2>2
  <2>5. Excluded'
    BY <2>1, <2>2, <2>3, <2>4, OthersStay DEF Excluded
  <2> QED BY <2>2, <2>5, Generations DEF MovesForward
<1>7. CASE RefreshDone(r)
  <2>1. mgr[r] \in Managers /\ holder[mgr[r]] = r /\ pc[r] = "reply"
    BY <1>0, <1>7 DEF RefreshDone, Inside, Excluded
  <2>2. LET w == [cred EXCEPT ![mgr[r]] = tok[r]]
        IN  w[mgr[r]] = tok[r] /\ \A x \in Managers : x # mgr[r] => w[x] = cred[x]
    BY <2>1 DEF IInv, ManagersInv
  <2>3. tok[r][2] >= cred[mgr[r]][2]
    <3>1. tok[r] \in Issued
      BY <2>1 DEF IInv, RequestsInv, Opened
    <3>2. tok[r][2] \in Nat /\ cred[mgr[r]][2] \in Nat
      BY <2>1, <3>1, IssuedParts, Generations DEF IInv
    <3> QED BY <2>1, <3>2 DEF Excluded
  <2> QED BY <1>7, <2>1, <2>2, <2>3, AnswerForward DEF RefreshDone
<1>8. CASE RefreshRefused(r) \/ RefreshCut(r)
  <2>1. \/ Answer(r, cred[mgr[r]], cred)
        \/ /\ holder' = [holder EXCEPT ![mgr[r]] = None] /\ Keep(cred)
           /\ \/ Finish(r)
              \/ Goto(r, "forget") /\ mgr' = [mgr EXCEPT ![r] = None] /\ UNCHANGED tok
    <3>1. CASE RefreshRefused(r)
      BY <3>1 DEF RefreshRefused, RefreshFails
    <3>2. CASE RefreshCut(r)
      BY <3>2 DEF RefreshCut, RefreshFails
    <3> QED BY <1>8, <3>1, <3>2
  <2>2. mgr[r] \in Managers /\ holder[mgr[r]] = r
    BY <1>0, <1>8 DEF RefreshRefused, RefreshCut, Inside, Excluded
  <2>3. CASE Answer(r, cred[mgr[r]], cred)
    <3>1. cred[mgr[r]][2] \in Nat
      BY <2>2, Generations
    <3> QED BY <2>2, <2>3, <3>1, AnswerForward
  <2>4. CASE ~Answer(r, cred[mgr[r]], cred)
    <3>1. /\ holder' = [holder EXCEPT ![mgr[r]] = None]
          /\ Keep(cred) /\ others /\ pc'[r] \in {"idle", "forget"}
      BY <2>1, <2>4 DEF Finish, Goto, IInv, RequestsInv
    <3>2. \A m \in Managers : m # mgr[r] => holder'[m] = holder[m]
      BY <3>1 DEF IInv, ManagersInv
    <3>3. \A m \in Managers : m = current' \/ (\E q \in Requests : mgr'[q] = m)
                              => cred'[m] = cred[m]
      BY <3>1 DEF Keep
    <3> QED BY <2>2, <3>1, <3>2, <3>3, LeaveForward DEF Inside
  <2> QED BY <2>3, <2>4
<1>9. CASE Forget(r)
  <2>1. others /\ UNCHANGED holder /\ pc'[r] = "idle" /\ Keep(cred)
    BY <1>9 DEF Forget, Finish, Goto, IInv, RequestsInv
  <2>2. \A m \in Managers : m = current' \/ (\E q \in Requests : mgr'[q] = m)
                            => cred'[m] = cred[m]
    BY <2>1 DEF Keep
  <2> QED BY <2>1, <2>2, LeaveForward DEF Inside
<1> QED BY <1>1, <1>2, <1>3, <1>4, <1>5, <1>6, <1>7, <1>8, <1>9 DEF Request

LEMMA NextForward ==
    ASSUME IInv, Excluded, [Next]_vars
    PROVE  Excluded' /\ MovesForward
<1> USE DEF vars, tokenService, upstream, managers, writer, requests, process
<1>1. CASE UNCHANGED <<cred, holder, mgr, tok>>
            /\ \A q \in Requests : pc'[q] = pc[q]
                                   \/ (pc[q] = "wait" /\ pc'[q] \in {"adopt", "current"})
  BY <1>1, Generations DEF Excluded, MovesForward, Inside
<1>2. CASE Exit \/ Crash
  <2>1. /\ current' = None /\ pc' = [q \in Requests |-> "idle"]
        /\ mgr' = [q \in Requests |-> None]
    BY <1>2 DEF Exit, Crash, Restarted
  <2> QED BY <2>1, ConstantsAssumption DEF Excluded, MovesForward, Inside
<1>3. CASE FlightLand \/ FlightFail
  BY <1>1, <1>3 DEF FlightLand, FlightFail
<1>4. CASE FlightLoad \/ ReadAges \/ FlushStart \/ FlushStore \/ FlushFail \/ Stop
  BY <1>1, <1>4 DEF FlightLoad, ReadAges, FlushStart, FlushStore, FlushFail, Stop
<1>5. CASE Tick \/ RemoveAccount \/ DiagnoseRead \/ DiagnoseRefresh \/ DiagnoseStore \/ DiagnoseCut
  BY <1>1, <1>5 DEF Tick, RemoveAccount, DiagnoseRead, DiagnoseRefresh, DiagnoseStore, DiagnoseCut
<1>6. ASSUME NEW f \in SignIns, SignIn(f) \/ FirstParty(f) \/ SignInEnds(f) \/ Contribute(f)
      PROVE  Excluded' /\ MovesForward
  BY <1>1, <1>6 DEF SignIn, FirstParty, SignInEnds, Contribute
<1>7. ASSUME NEW r \in Requests, Resolve(r) \/ Request(r) PROVE Excluded' /\ MovesForward
  BY <1>7, RequestForward
<1> QED BY <1>1, <1>2, <1>3, <1>4, <1>5, <1>6, <1>7 DEF Next

\* A manager never trades a credential for an earlier one of its sign-in (newerThan,
\* and m.mu held from the refresh to its reply).
THEOREM ManagersMoveForward == Spec => ManagerNeverGoesBack
<1>1. Init => Excluded
  BY DEF Init, Excluded, Inside
<1>2. MovesForward => [\A m \in Managers :
          /\ m = current \/ \E r \in Requests : mgr[r] = m
          /\ m = current' \/ \E r \in Requests : mgr'[r] = m
          /\ cred'[m][1] = cred[m][1]
          => cred'[m][2] >= cred[m][2]]_cred
  BY DEF MovesForward
<1> QED BY <1>1, <1>2, NextForward, Invariance, PTL DEF Spec, ManagerNeverGoesBack
-----------------------------------------------------------------------------
(* While there is one sign-in its newest refresh token is never dropped.   *)

Latest == Len(expiry[1])

\* The credentials before the latest, and what a read of the row found of them.
Spent     == {c \in Credential : c[2] < Latest}
SpentRows == {d \in Account : d.cred \in Spent} \cup {Gone}

\* Whoever was issued the latest credential and has not passed it on.
Pending == diag.st = "store" \/ \E r \in Requests : pc[r] = "reply"

\* ... is then the only one to have it.
Behind ==
    /\ Latest >= 2
    /\ db \in SpentRows /\ snap \in SpentRows /\ flight.data \in SpentRows
    /\ cred \in [Managers -> Spent]
    /\ queue \in Spent \cup {None} /\ flushing \in Spent \cup {None}
    /\ view \in [Requests -> SpentRows] /\ read \in [Requests -> SpentRows]
    /\ diag.st = "refresh" => diag.cred \in Spent

\* The latest credential is with one call or diagnose, or on its way to the row, or there;
\* and a flush has copied nothing later than what is queued.
Kept ==
    /\ \A r \in Requests : pc[r] = "reply" => tok[r][2] = Latest /\ diag.st # "store"
    /\ \A r, q \in Requests : pc[r] = "reply" /\ pc[q] = "reply" => r = q
    /\ diag.st = "store" => diag.cred[2] = Latest
    /\ Pending => Behind
    /\ ~Pending => db.cred[2] = Latest \/ (queue # None /\ queue[2] = Latest)
    /\ flushing # None => queue # None /\ flushing[2] <= queue[2]

KeptInv == db # Gone /\ 1 \notin lost => Kept

\* With one sign-in, a credential is its generation.
LEMMA OneSignIn ==
    ASSUME LastSignIn = 1, IInv
    PROVE  /\ SignIns = {1} /\ Latest \in Nat /\ Latest >= 1
           /\ \A c \in Issued : /\ c \in Credential /\ c[1] = 1 /\ c[2] \in Nat
                                /\ 1 <= c[2] /\ c[2] <= Latest /\ c = <<1, c[2]>>
<1>1. SignIns = {1}
  BY DEF SignIns
<1>2. Latest \in Nat
  BY <1>1 DEF IInv, ServiceInv, Latest
<1>3. \A c \in Issued : /\ c \in Credential /\ c[1] = 1 /\ c[2] \in Nat
                        /\ 1 <= c[2] /\ c[2] <= Latest /\ c = <<1, c[2]>>
  BY <1>1 DEF Issued, Credential, Latest
<1>4. <<1, 1>> \in Issued
  BY DefaultIssued
<1> QED BY <1>1, <1>2, <1>3, <1>4

\* What is held anywhere was issued, so the next credential is later than all of it.
LEMMA NextIsLater ==
    ASSUME LastSignIn = 1, IInv, db # Gone, Latest' = Latest + 1,
           UNCHANGED <<db, upstream, managers, writer, view, read>>,
           diag'.st = "refresh" => diag' = diag
    PROVE  Behind'
<1> USE OneSignIn
<1>1. Issued \subseteq Spent'
  BY DEF Spent
<1>2. Rows \subseteq SpentRows'
  BY <1>1 DEF Rows, SpentRows
<1>3. diag.st = "refresh" => diag.cred \in Issued
  BY DEF IInv, DiagInv
<1>4. flight.data \in Rows
  BY DEF IInv, UpstreamInv
<1> QED BY <1>1, <1>2, <1>3, <1>4
        DEF Behind, IInv, UpstreamInv, ManagersInv, WriterInv, RequestsInv,
            upstream, managers, writer

\* Nobody refreshes while somebody else is still to pass on the latest credential.
LEMMA NobodyElse ==
    ASSUME LastSignIn = 1, IInv, Kept, NEW c \in Issued, IsNewest(c),
           \/ \E m \in Managers : c = cred[m]
           \/ diag.st = "refresh" /\ c = diag.cred
    PROVE  ~Pending
<1>1. c[2] = Latest /\ Latest \in Nat
  BY OneSignIn DEF IsNewest, Newest, Latest
<1> QED BY <1>1 DEF Kept, Behind, Spent

\* A step that issues nothing and passes nothing on.
LEMMA QuietKept ==
    ASSUME IInv, Kept, Behind => Behind', UNCHANGED <<expiry, db, queue>>,
           flushing' \in {flushing, queue, None},
           \A q \in Requests : /\ pc'[q] = "reply" <=> pc[q] = "reply"
                               /\ pc[q] = "reply" => tok'[q] = tok[q],
           diag'.st = "store" <=> diag.st = "store",
           diag.st = "store" => diag' = diag
    PROVE  Kept'
<1>1. Pending' <=> Pending
  BY DEF Pending
<1>2. Latest' = Latest
  BY DEF Latest
<1>3. queue # None => queue[2] \in Nat
  BY IssuedParts DEF IInv, WriterInv
<1>4. flushing' # None => queue' # None /\ flushing'[2] <= queue'[2]
  BY <1>3 DEF Kept
<1> QED BY <1>1, <1>2, <1>4 DEF Kept

LEMMA SpentStays ==
    UNCHANGED expiry => Latest' = Latest /\ Spent' = Spent /\ SpentRows' = SpentRows
BY DEF Spent, SpentRows, Latest

LEMMA FirstSpent ==
    ASSUME LastSignIn = 1, IInv, Behind PROVE <<1, 1>> \in Spent /\ Gone \in SpentRows
BY OneSignIn, DefaultIssued DEF Behind, Spent, SpentRows

LEMMA RequestKept ==
    ASSUME LastSignIn = 1, IInv, Kept, db # Gone, 1 \notin lost', NEW r \in Requests,
           Resolve(r) \/ Request(r)
    PROVE  Kept'
<1> USE DEF vars, tokenService, upstream, managers, writer, requests, process
<1>0. pc[r] \in {"lock", "wait", "adopt", "current", "refresh", "reply"}
        => mgr[r] \in Managers /\ cred[mgr[r]] \in Issued
  BY Holds
<1>1. CASE Resolve(r) \/ ReadTimeout(r) \/ Forward(r) \/ Forget(r)
  <2>1. /\ UNCHANGED <<expiry, db, writer, diag>>
        /\ \A q \in Requests : /\ pc'[q] = "reply" <=> pc[q] = "reply"
                               /\ pc[q] = "reply" => tok'[q] = tok[q]
    BY <1>1 DEF Resolve, ReadTimeout, Forward, Forget, Finish, Goto, IInv, RequestsInv
  <2>2. ASSUME Behind PROVE Behind'
    BY <1>1, <2>1, <2>2, SpentStays, FirstSpent
       DEF Resolve, ReadTimeout, Forward, Forget, Finish, Keep, Snapshot, StartFlight, Behind
  <2> QED BY <2>1, <2>2, QuietKept
<1>2. CASE ManagerFor(r)
  <2>1. /\ UNCHANGED <<expiry, db, writer, diag>>
        /\ \A q \in Requests : /\ pc'[q] = "reply" <=> pc[q] = "reply"
                               /\ pc[q] = "reply" => tok'[q] = tok[q]
    BY <1>2 DEF ManagerFor, Goto, IInv, RequestsInv
  <2>2. ASSUME Behind PROVE Behind'
    <3>1. view[r] # Gone
      BY <1>2 DEF ManagerFor, IInv, Opened
    <3>2. view[r].cred \in Spent
      BY <2>2, <3>1 DEF Behind, SpentRows
    <3>3. cred' \in [Managers -> Spent] /\ view' \in [Requests -> SpentRows]
      BY <1>2, <2>2, <3>2, FirstSpent DEF ManagerFor, Behind
    <3> QED BY <1>2, <2>1, <2>2, <3>3, SpentStays DEF ManagerFor, Behind
  <2> QED BY <2>1, <2>2, QuietKept
<1>3. CASE Lock(r)
  <2>1. /\ UNCHANGED <<expiry, db, writer, diag>>
        /\ \A q \in Requests : /\ pc'[q] = "reply" <=> pc[q] = "reply"
                               /\ pc[q] = "reply" => tok'[q] = tok[q]
    BY <1>3 DEF Lock, Answer, Goto, IInv, RequestsInv
  <2>2. ASSUME Behind PROVE Behind'
    BY <1>3, <2>1, <2>2, SpentStays, FirstSpent DEF Lock, Answer, Keep, StartFlight, Behind
  <2> QED BY <2>1, <2>2, QuietKept
<1>4. CASE Adopt(r)
  <2>1. /\ UNCHANGED <<expiry, db, writer, diag>>
        /\ \A q \in Requests : /\ pc'[q] = "reply" <=> pc[q] = "reply"
                               /\ pc[q] = "reply" => tok'[q] = tok[q]
    BY <1>4 DEF Adopt, Answer, Goto, IInv, RequestsInv
  <2>2. ASSUME Behind PROVE Behind'
    <3> DEFINE m == mgr[r]
               d == IF pc[r] = "adopt" THEN read[r] ELSE snap
               c == IF Adopts(r, cred[m], d) THEN d.cred ELSE cred[m]
               w == [cred EXCEPT ![m] = c]
    <3>1. c \in Spent
      BY <1>0, <1>4, <2>2 DEF Adopt, Adopts, Behind, SpentRows
    <3>2. Answer(r, c, w) \/ cred' = w
      BY <1>4 DEF Adopt
    <3>3. w \in [Managers -> Spent]
      BY <2>2, <3>1 DEF Behind
    <3> HIDE DEF w
    <3>4. cred' \in [Managers -> Spent]
      BY <2>2, <3>2, <3>3, FirstSpent DEF Answer, Keep
    <3>5. read' \in [Requests -> SpentRows]
      BY <1>4, <2>2, FirstSpent DEF Adopt, Behind
    <3> QED BY <1>4, <2>1, <2>2, <3>4, <3>5, SpentStays DEF Adopt, Behind
  <2> QED BY <2>1, <2>2, QuietKept
<1>5. CASE RefreshGranted(r)
  <2> DEFINE c == cred[mgr[r]]
  <2>1. c \in Issued /\ IsNewest(c) /\ pc[r] = "refresh" /\ mgr[r] \in Managers
    BY <1>0, <1>5 DEF RefreshGranted, Refreshable
  <2>2. ~Pending /\ c[2] = Latest /\ c[1] = 1 /\ Latest \in Nat
    BY <2>1, NobodyElse, OneSignIn DEF IsNewest, Newest, Latest
  <2>3. Issue(1) /\ tok' = [tok EXCEPT ![r] = <<1, Latest + 1>>]
        /\ pc' = [pc EXCEPT ![r] = "reply"]
        /\ UNCHANGED <<db, upstream, managers, writer, view, read, diag>>
    BY <1>5, <2>2 DEF RefreshGranted, Goto
  <2>4. Latest' = Latest + 1
    BY <2>3, OneSignIn DEF Issue, Latest, IInv, ServiceInv
  <2>5. Behind'
    BY <2>3, <2>4, NextIsLater
  <2>6. /\ tok'[r][2] = Latest' /\ pc'[r] = "reply"
        /\ \A q \in Requests : pc'[q] = "reply" => q = r
        /\ diag'.st # "store"
    BY <2>2, <2>3, <2>4 DEF Pending, IInv, RequestsInv
  <2>7. Pending' /\ (flushing' # None => queue' # None /\ flushing'[2] <= queue'[2])
    BY <2>3, <2>6 DEF Pending, Kept
  <2> QED BY <2>5, <2>6, <2>7 DEF Kept
<1>6. CASE RefreshDone(r)
  <2>1. tok[r][2] = Latest /\ pc[r] = "reply" /\ diag.st # "store"
        /\ \A q \in Requests : pc[q] = "reply" => q = r
    BY <1>6 DEF RefreshDone, Kept
  <2>2. queue' = tok[r] /\ tok[r] # None
        /\ UNCHANGED <<expiry, db, flushing, diag>>
        /\ pc' = [pc EXCEPT ![r] = "forward"]
    BY <1>6 DEF RefreshDone, Answer, Goto, IInv, Opened
  <2>3. ~Pending' /\ \A q \in Requests : pc'[q] # "reply"
    BY <2>1, <2>2 DEF Pending, IInv, RequestsInv
  <2>4. Latest' = Latest
    BY <2>2 DEF Latest
  <2>5. flushing' # None => flushing'[2] <= Latest
    BY <2>2, OneSignIn DEF IInv, WriterInv
  <2> QED BY <2>1, <2>2, <2>3, <2>4, <2>5 DEF Kept
<1>7. CASE RefreshRefused(r) \/ RefreshCut(r)
  <2>1. pc[r] = "refresh"
    <3>1. ~(pc[r] = "reply" /\ RefreshCut(r))
      BY <1>0, OneSignIn DEF RefreshCut
    <3> QED BY <1>7, <3>1 DEF RefreshRefused, RefreshCut
  <2>2. /\ UNCHANGED <<expiry, db, flight, snap, writer, diag, read>>
        /\ \/ Answer(r, cred[mgr[r]], cred) /\ UNCHANGED view
           \/ /\ Keep(cred)
              /\ \/ Finish(r)
                 \/ Goto(r, "forget") /\ UNCHANGED <<tok, view>>
    <3>1. CASE RefreshRefused(r)
      BY <3>1 DEF RefreshRefused, RefreshFails, Finish
    <3>2. CASE RefreshCut(r)
      BY <3>2 DEF RefreshCut, RefreshFails, Finish
    <3> QED BY <1>7, <3>1, <3>2
  <2>3. \A q \in Requests : /\ pc'[q] = "reply" <=> pc[q] = "reply"
                            /\ pc[q] = "reply" => tok'[q] = tok[q]
    BY <2>1, <2>2 DEF Answer, Finish, Goto, IInv, RequestsInv
  <2>4. ASSUME Behind PROVE Behind'
    BY <2>2, <2>4, SpentStays, FirstSpent DEF Answer, Finish, Keep, Behind
  <2> QED BY <2>2, <2>3, <2>4, QuietKept
<1> QED BY <1>1, <1>2, <1>3, <1>4, <1>5, <1>6, <1>7 DEF Request

\* storeCredential keeps the row's credential when it is the latest, and takes the latest.
LEMMA StoreKept ==
    ASSUME LastSignIn = 1, IInv, db # Gone, NEW c \in Issued, StoreCredential(c)
    PROVE  /\ db.cred[2] = Latest \/ c[2] = Latest => db'.cred[2] = Latest
           /\ Behind /\ c \in Spent => db' \in SpentRows
<1>1. db \in Account /\ db.cred \in Issued
  BY DEF IInv, UpstreamInv, Rows
<1>2. CASE db' = db
  <2>1. NewerThan(db.cred, c) \/ db' = [db EXCEPT !.cred = c]
    BY DEF StoreCredential
  <2>2. [db EXCEPT !.cred = c].cred = c
    BY <1>1 DEF Account
  <2>3. NewerThan(db.cred, c) => c[2] <= db.cred[2]
    BY <1>1, ExpiryOrders, OneSignIn
  <2>4. c[2] \in Nat /\ db.cred[2] \in Nat /\ db.cred[2] <= Latest /\ Latest \in Nat
    BY <1>1, OneSignIn
  <2>5. c[2] = Latest => db.cred[2] = Latest
    <3>1. CASE NewerThan(db.cred, c)
      BY <2>3, <2>4, <3>1
    <3>2. CASE db' = [db EXCEPT !.cred = c]
      <4>1. db.cred = c
        BY <1>2, <2>2, <3>2
      <4> QED BY <4>1
    <3> QED BY <2>1, <3>1, <3>2
  <2> QED BY <1>2, <2>5 DEF Behind
<1>3. CASE ~NewerThan(db.cred, c) /\ db' = [db EXCEPT !.cred = c]
  <2>1. db'.cred = c /\ db' \in Account
    BY <1>1, <1>3, OneSignIn DEF Account
  <2>2. db.cred[2] <= c[2]
    BY <1>1, <1>3, ExpiryOrders, OneSignIn
  <2>3. c[2] \in Nat /\ db.cred[2] \in Nat /\ c[2] <= Latest /\ Latest \in Nat
    BY <1>1, OneSignIn
  <2> QED BY <2>1, <2>2, <2>3 DEF SpentRows
<1> QED BY <1>2, <1>3 DEF StoreCredential

LEMMA BackgroundKept ==
    ASSUME LastSignIn = 1, IInv, Kept, db # Gone,
           \/ FlightLoad \/ FlightLand \/ FlightFail \/ ReadAges
           \/ FlushStart \/ FlushStore \/ FlushFail
    PROVE  Kept'
<1> USE DEF vars, tokenService, upstream, managers, writer, requests, process
<1>1. CASE FlightLoad \/ FlightLand \/ FlightFail \/ ReadAges \/ FlushStart
  <2>1. /\ UNCHANGED <<expiry, db, queue, diag, tok>> /\ flushing' \in {flushing, queue}
        /\ \A q \in Requests : pc'[q] = "reply" <=> pc[q] = "reply"
    BY <1>1 DEF FlightLoad, FlightLand, FlightFail, ReadAges, FlushStart
  <2>2. ASSUME Behind PROVE Behind'
    BY <1>1, <2>1, <2>2, SpentStays, FirstSpent
       DEF FlightLoad, FlightLand, FlightFail, ReadAges, FlushStart, Behind
  <2> QED BY <2>1, <2>2, QuietKept
<1>2. CASE FlushStore \/ FlushFail
  <2>1. /\ UNCHANGED <<expiry, snap, flight, cred, pc, tok, view, read, diag>>
        /\ flushing \in Issued /\ flushing' = None
        /\ db' = db \/ StoreCredential(flushing)
        /\ queue' = queue \/ (queue' = None /\ queue = flushing /\ StoreCredential(flushing))
    BY <1>2 DEF FlushStore, FlushFail, IInv, WriterInv
  <2>2. Latest' = Latest /\ (Pending' <=> Pending)
    BY <2>1 DEF Latest, Pending
  <2>3. ASSUME Behind PROVE Behind'
    <3>1. flushing \in Spent
      BY <2>1, <2>3, NoneNotIssued DEF Behind
    <3>2. db' \in SpentRows
      BY <2>1, <2>3, <3>1, StoreKept DEF Behind
    <3> QED BY <2>1, <2>3, <3>2, SpentStays DEF Behind, Latest
  <2>4. ~Pending' => db'.cred[2] = Latest \/ (queue' # None /\ queue'[2] = Latest)
    BY <2>1, <2>2, StoreKept DEF Kept
  <2> QED BY <2>1, <2>2, <2>3, <2>4 DEF Kept
<1> QED BY <1>1, <1>2

LEMMA DiagnoseKept ==
    ASSUME LastSignIn = 1, IInv, Kept, db # Gone, 1 \notin lost',
           DiagnoseRead \/ DiagnoseRefresh \/ DiagnoseStore \/ DiagnoseCut
    PROVE  Kept'
<1> USE DEF vars, tokenService, upstream, managers, writer, requests, process
<1>0. diag.st # "idle" => diag.cred \in Issued
  BY DEF IInv, DiagInv
<1>1. CASE DiagnoseRead
  <2>1. UNCHANGED <<expiry, db, writer, pc, tok>> /\ diag.st = "idle"
        /\ diag' = [st |-> "refresh", cred |-> db.cred]
    BY <1>1 DEF DiagnoseRead
  <2>2. ASSUME Behind PROVE Behind'
    <3>1. db.cred \in Spent
      BY <2>2 DEF Behind, SpentRows
    <3> QED BY <1>1, <2>1, <2>2, <3>1, SpentStays DEF DiagnoseRead, Behind, Latest
  <2> QED BY <2>1, <2>2, QuietKept
<1>2. CASE DiagnoseRefresh /\ Refreshable(diag.cred)
  <2>1. diag.st = "refresh" /\ IsNewest(diag.cred) /\ diag.cred \in Issued
    BY <1>0, <1>2 DEF DiagnoseRefresh, Refreshable
  <2>2. ~Pending /\ diag.cred[2] = Latest /\ diag.cred[1] = 1 /\ Latest \in Nat
    BY <2>1, NobodyElse, OneSignIn DEF IsNewest, Newest, Latest
  <2>3. Issue(1) /\ diag' = [st |-> "store", cred |-> <<1, Latest + 1>>]
        /\ UNCHANGED <<db, process>>
    BY <1>2, <2>2 DEF DiagnoseRefresh
  <2>4. Latest' = Latest + 1
    BY <2>3, OneSignIn DEF Issue, Latest, IInv, ServiceInv
  <2>5. diag'.st = "store" /\ diag'.cred[2] = Latest'
    BY <2>3, <2>4
  <2>6. Behind'
    BY <2>3, <2>4, <2>5, NextIsLater
  <2>7. \A q \in Requests : pc'[q] # "reply"
    BY <2>2, <2>3 DEF Pending
  <2> QED BY <2>3, <2>5, <2>6, <2>7 DEF Kept, Pending
<1>3. CASE DiagnoseRefresh /\ ~Refreshable(diag.cred)
  <2>1. UNCHANGED <<expiry, db, process>> /\ diag.st = "refresh"
        /\ diag' = [st |-> "idle", cred |-> None]
    BY <1>3 DEF DiagnoseRefresh
  <2>2. ASSUME Behind PROVE Behind'
    BY <2>1, <2>2, SpentStays DEF Behind, Latest
  <2> QED BY <2>1, <2>2, QuietKept
<1>4. CASE DiagnoseStore
  <2>1. diag.st = "store" /\ diag.cred[2] = Latest /\ StoreCredential(diag.cred)
        /\ UNCHANGED <<expiry, process>> /\ diag' = [st |-> "idle", cred |-> None]
    BY <1>4 DEF DiagnoseStore, Kept
  <2>2. db'.cred[2] = Latest /\ Latest' = Latest
    BY <1>0, <2>1, StoreKept DEF Latest
  <2>3. ~Pending' /\ \A q \in Requests : pc'[q] # "reply"
    BY <2>1 DEF Pending, Kept
  <2> QED BY <2>1, <2>2, <2>3 DEF Kept
<1>5. CASE DiagnoseCut
  <2>1. diag.st # "store"
    BY <1>0, <1>5, OneSignIn DEF DiagnoseCut
  <2>2. UNCHANGED <<expiry, db, process>> /\ diag' = [st |-> "idle", cred |-> None]
    BY <1>5 DEF DiagnoseCut
  <2>3. ASSUME Behind PROVE Behind'
    BY <2>2, <2>3, SpentStays DEF Behind, Latest
  <2> QED BY <2>1, <2>2, <2>3, QuietKept
<1> QED BY <1>1, <1>2, <1>3, <1>4, <1>5

\* What the process dies with is counted as lost, so the latest was not among it.
LEMMA DeathKept ==
    ASSUME LastSignIn = 1, IInv, Kept, db # Gone, 1 \notin lost', Exit \/ Crash
    PROVE  Kept'
<1>1. /\ Restarted /\ UNCHANGED <<expiry, db, diag>>
  BY DEF Exit, Crash, tokenService
<1>2. ASSUME NEW c \in Unstored PROVE c \in Issued
  BY <1>2 DEF Unstored, Replying, IInv, WriterInv, RequestsInv, Opened
<1>3. queue = None /\ \A r \in Requests : pc[r] # "reply"
  <2>1. CASE Crash
    <3>1. Unstored = {}
      BY <1>2, <2>1, OneSignIn DEF Crash, SignInsOf
    <3> QED BY <3>1 DEF Unstored, Replying
  <2>2. CASE Exit
    <3>1. queue = None /\ \A r \in Members : pc[r] # "reply"
      BY <2>2 DEF Exit
    <3>2. Replying(Pollers) \subseteq Unstored
      BY DEF Unstored, Replying, Requests
    <3>3. Replying(Pollers) = {}
      BY <1>2, <2>2, <3>2, OneSignIn DEF Exit, SignInsOf
    <3>4. \A r \in Pollers : pc[r] # "reply"
      BY <3>3 DEF Replying
    <3> QED BY <3>1, <3>4 DEF Requests
  <2> QED BY <2>1, <2>2
<1>4. /\ \A q \in Requests : pc'[q] # "reply"
      /\ queue' = None /\ flushing' = None /\ Latest' = Latest
  BY <1>1 DEF Restarted, Latest
<1>5. ASSUME Behind PROVE Behind'
  BY <1>1, <1>5, SpentStays, FirstSpent DEF Restarted, Behind, Latest
<1>6. Pending' <=> Pending
  BY <1>1, <1>3, <1>4 DEF Pending
<1> QED BY <1>1, <1>3, <1>4, <1>5, <1>6 DEF Kept

LEMMA NextKept == ASSUME LastSignIn = 1, IInv, KeptInv, [Next]_vars PROVE KeptInv'
<1> SUFFICES ASSUME db' # Gone, 1 \notin lost' PROVE Kept'
  BY DEF KeptInv
<1> USE DEF vars, tokenService, upstream, managers, writer, requests, process
<1>1. CASE UNCHANGED <<expiry, db, snap, flight, cred, queue, flushing, view, read, pc, tok,
                       diag, lost>>
  BY <1>1 DEF KeptInv, Kept, Pending, Behind, Spent, SpentRows, Latest
<1>2. CASE Tick \/ Stop \/ \E f \in SignIns : SignInEnds(f)
  BY <1>1, <1>2 DEF Tick, Stop, SignInEnds
<1>3. CASE RemoveAccount
  BY <1>3 DEF RemoveAccount
<1>4. ASSUME NEW f \in SignIns, SignIn(f) \/ FirstParty(f) \/ Contribute(f) PROVE Kept'
  <2>1. f = 1 /\ expiry[1] # <<>>
    BY OneSignIn DEF IInv, Machines
  <2>2. ~SignIn(f)
    BY <2>1 DEF SignIn, SignedIn
  <2>3. db # Gone => db.cred[1] = 1 /\ db.end = 1
    BY OneSignIn DEF IInv, UpstreamInv, Rows, Account
  <2>4. CASE FirstParty(f)
    BY <2>1, <2>3, <2>4 DEF FirstParty
  <2>5. ~Contribute(f)
    BY <2>1, <2>3 DEF Contribute
  <2> QED BY <1>4, <2>2, <2>4, <2>5
<1>5. ASSUME NEW r \in Requests, Resolve(r) \/ Request(r) PROVE Kept'
  <2>1. UNCHANGED db /\ lost \subseteq lost'
    BY <1>5 DEF Resolve, Request, ManagerFor, Lock, ReadTimeout, Adopt, RefreshGranted,
       RefreshDone, RefreshRefused, RefreshCut, Forget, Forward
  <2> QED BY <1>5, <2>1, RequestKept DEF KeptInv
<1>6. CASE \/ FlightLoad \/ FlightLand \/ FlightFail \/ ReadAges
           \/ FlushStart \/ FlushStore \/ FlushFail
  <2>1. db # Gone /\ lost' = lost
    BY <1>6 DEF FlightLoad, FlightLand, FlightFail, ReadAges, FlushStart, FlushStore, FlushFail,
       StoreCredential
  <2> QED BY <1>6, <2>1, BackgroundKept DEF KeptInv
<1>7. CASE DiagnoseRead \/ DiagnoseRefresh \/ DiagnoseStore \/ DiagnoseCut
  <2>1. db # Gone /\ lost \subseteq lost'
    BY <1>7 DEF DiagnoseRead, DiagnoseRefresh, DiagnoseStore, DiagnoseCut, StoreCredential
  <2> QED BY <1>7, <2>1, DiagnoseKept DEF KeptInv
<1>8. CASE Exit \/ Crash
  <2>1. db # Gone /\ lost \subseteq lost'
    BY <1>8 DEF Exit, Crash
  <2> QED BY <1>8, <2>1, DeathKept DEF KeptInv
<1> QED BY <1>1, <1>2, <1>3, <1>4, <1>5, <1>6, <1>7, <1>8 DEF Next

\* While there is one sign-in, its newest refresh token is in the database or on its
\* way there (m.onRefresh, the writer's queue, flush, diagnose), unless a call was cut,
\* the process died with it, or the sign-in is used elsewhere.
THEOREM NewestTokenKept == LastSignIn = 1 => (Spec => []RotationNeverLost)
<1> SUFFICES ASSUME LastSignIn = 1 PROVE Spec => []RotationNeverLost
  OBVIOUS
<1>1. Init => KeptInv
  <2> SUFFICES ASSUME Init PROVE Kept
    BY DEF KeptInv
  <2>1. Len(expiry[1]) = 1
    BY ConstantsAssumption DEF Init, SignIns
  <2> QED BY <2>1 DEF Init, Kept, Pending, Latest
<1>2. IInv /\ KeptInv => RotationNeverLost
  <2> SUFFICES ASSUME IInv, KeptInv, db # Gone, db.cred[1] \notin lost
               PROVE  \/ IsNewest(db.cred) \/ Newest(db.cred[1]) \in Unstored
                      \/ diag.st = "store" /\ diag.cred = Newest(db.cred[1])
    BY DEF RotationNeverLost
  <2>1. db.cred \in Issued /\ db.cred[1] = 1 /\ Kept
    BY OneSignIn DEF IInv, UpstreamInv, Rows, KeptInv
  <2>2. \A c \in Issued : c[2] = Latest => c = Newest(1)
    BY OneSignIn DEF Newest, Latest
  <2>3. CASE diag.st = "store"
    BY <2>1, <2>2, <2>3 DEF Kept, IInv, DiagInv
  <2>4. ASSUME NEW r \in Requests, pc[r] = "reply" PROVE Newest(1) \in Unstored
    <3>1. tok[r] = Newest(1)
      BY <2>1, <2>2, <2>4 DEF Kept, IInv, RequestsInv, Opened
    <3> QED BY <2>4, <3>1 DEF Unstored, Replying
  <2>5. CASE ~Pending
    BY <2>1, <2>2, <2>5 DEF Kept, IsNewest, Unstored, IInv, WriterInv
  <2> QED BY <2>1, <2>3, <2>4, <2>5 DEF Pending
<1> QED BY <1>1, <1>2, NextKept, Invariance, PTL DEF Spec
-----------------------------------------------------------------------------
(* The lock of a token manager, and what a request inside it waits for.    *)

\* A request has a manager while it queues for its lock or holds it, and the holder of a
\* lock is inside.
Locks ==
    /\ \A r \in Requests : mgr[r] # None <=> pc[r] \in Inside \cup {"lock"}
    /\ \A r \in Requests : pc[r] \in Inside => holder[mgr[r]] = r
    /\ \A m \in Managers :
          holder[m] # None => mgr[holder[m]] = m /\ pc[holder[m]] \in Inside

\* A request that waits for a read of the panel waits for one that is under way.
Awake == \A r \in Requests : pc[r] = "wait" => flight.st # "none"

\* One request moves: about its call, out of its manager, into it, or to its door.
LEMMA Moves ==
    ASSUME IInv, Locks, NEW r \in Requests, NEW step, pc' = [pc EXCEPT ![r] = step],
           \/ /\ UNCHANGED <<mgr, holder>>
              /\ \/ pc[r] \in Inside /\ step \in Inside
                 \/ pc[r] \notin Inside \cup {"lock"} /\ step \notin Inside \cup {"lock"}
           \/ /\ pc[r] \in Inside \/ (pc[r] = "lock" /\ holder[mgr[r]] = None)
              /\ step \notin Inside \cup {"lock"}
              /\ mgr' = [mgr EXCEPT ![r] = None]
              /\ holder' = [holder EXCEPT ![mgr[r]] = None]
           \/ /\ pc[r] = "lock" /\ holder[mgr[r]] = None /\ step \in Inside
              /\ UNCHANGED mgr
              /\ holder' = [holder EXCEPT ![mgr[r]] = r]
           \/ /\ pc[r] \notin Inside \cup {"lock"} /\ step = "lock"
              /\ UNCHANGED holder
              /\ \E m \in Managers : mgr' = [mgr EXCEPT ![r] = m]
    PROVE  Locks'
<1>1. /\ mgr \in [Requests -> Managers \cup {None}]
      /\ pc \in [Requests -> Inside \cup {"idle", "open", "lock", "forward", "forget"}]
      /\ holder \in [Managers -> Requests \cup {None}]
      /\ None \notin Requests \cup Managers
  BY ConstantsAssumption DEF IInv, RequestsInv, ManagersInv, Inside
<1>2. \A q \in Requests \ {r} : pc'[q] = pc[q]
  BY <1>1
<1>3. pc'[r] = step /\ "lock" \notin Inside
  BY <1>1 DEF Inside
<1>4. CASE /\ UNCHANGED <<mgr, holder>>
           /\ \/ pc[r] \in Inside /\ step \in Inside
              \/ pc[r] \notin Inside \cup {"lock"} /\ step \notin Inside \cup {"lock"}
  <2>1. \A q \in Requests : /\ pc'[q] \in Inside <=> pc[q] \in Inside
                            /\ pc'[q] = "lock" <=> pc[q] = "lock"
    BY <1>2, <1>3, <1>4
  <2>2. \A q \in Requests : pc'[q] \in Inside \cup {"lock"} <=> pc[q] \in Inside \cup {"lock"}
    BY <2>1
  <2> QED BY <1>1, <1>4, <2>1, <2>2 DEF Locks
<1>5. CASE /\ pc[r] \in Inside \/ (pc[r] = "lock" /\ holder[mgr[r]] = None)
           /\ step \notin Inside \cup {"lock"}
           /\ mgr' = [mgr EXCEPT ![r] = None]
           /\ holder' = [holder EXCEPT ![mgr[r]] = None]
  <2>1. mgr[r] \in Managers /\ holder[mgr[r]] \in {r, None}
    BY <1>1, <1>5 DEF Locks
  <2>2. mgr'[r] = None /\ \A q \in Requests \ {r} : mgr'[q] = mgr[q]
    BY <1>1, <1>5
  <2>3. /\ holder'[mgr[r]] = None
        /\ \A m \in Managers \ {mgr[r]} : holder'[m] = holder[m]
    BY <1>1, <1>5, <2>1
  <2>4. \A q \in Requests : pc'[q] \in Inside => holder'[mgr'[q]] = q
    BY <1>1, <1>2, <1>3, <1>5, <2>1, <2>2, <2>3 DEF Locks
  <2>5. \A m \in Managers : holder'[m] # None
          => holder'[m] # r /\ holder'[m] \in Requests /\ holder'[m] = holder[m]
    BY <1>1, <2>1, <2>3 DEF Locks
  <2>6. \A q \in Requests : mgr'[q] # None <=> pc'[q] \in Inside \cup {"lock"}
    BY <1>2, <1>3, <1>5, <2>2 DEF Locks
  <2>7. \A m \in Managers :
          holder'[m] # None => mgr'[holder'[m]] = m /\ pc'[holder'[m]] \in Inside
    BY <1>2, <2>2, <2>5 DEF Locks
  <2> QED BY <2>4, <2>6, <2>7 DEF Locks
<1>6. CASE /\ pc[r] = "lock" /\ holder[mgr[r]] = None /\ step \in Inside
           /\ UNCHANGED mgr
           /\ holder' = [holder EXCEPT ![mgr[r]] = r]
  <2>1. mgr[r] \in Managers
    BY <1>1, <1>6 DEF Locks
  <2>2. holder'[mgr[r]] = r /\ \A m \in Managers \ {mgr[r]} : holder'[m] = holder[m]
    BY <1>1, <1>6, <2>1
  <2>3. \A q \in Requests : mgr'[q] # None <=> pc'[q] \in Inside \cup {"lock"}
    BY <1>2, <1>3, <1>6 DEF Locks
  <2>4. ASSUME NEW q \in Requests \ {r}, pc'[q] \in Inside PROVE holder'[mgr'[q]] = q
    <3>1. holder[mgr[q]] = q /\ mgr[q] \in Managers /\ mgr[q] # mgr[r]
      BY <1>1, <1>2, <1>6, <2>4 DEF Locks
    <3> QED BY <1>6, <2>2, <3>1
  <2>5. \A m \in Managers :
          holder'[m] # None => mgr'[holder'[m]] = m /\ pc'[holder'[m]] \in Inside
    BY <1>1, <1>2, <1>3, <1>6, <2>2 DEF Locks
  <2> QED BY <1>6, <2>2, <2>3, <2>4, <2>5 DEF Locks
<1>7. CASE /\ pc[r] \notin Inside \cup {"lock"} /\ step = "lock"
           /\ UNCHANGED holder
           /\ \E m \in Managers : mgr' = [mgr EXCEPT ![r] = m]
  <2>1. mgr'[r] # None /\ \A q \in Requests \ {r} : mgr'[q] = mgr[q]
    BY <1>1, <1>7
  <2>2. \A m \in Managers : holder[m] # r
    BY <1>1, <1>7 DEF Locks
  <2>3. \A q \in Requests : mgr'[q] # None <=> pc'[q] \in Inside \cup {"lock"}
    BY <1>2, <1>3, <1>7, <2>1 DEF Locks
  <2>4. \A q \in Requests : pc'[q] \in Inside => holder'[mgr'[q]] = q
    BY <1>2, <1>3, <1>7, <2>1 DEF Locks
  <2>5. \A m \in Managers :
          holder'[m] # None => mgr'[holder'[m]] = m /\ pc'[holder'[m]] \in Inside
    BY <1>1, <1>2, <1>7, <2>1, <2>2 DEF Locks
  <2> QED BY <2>3, <2>4, <2>5 DEF Locks
<1> QED BY <1>4, <1>5, <1>6, <1>7

\* A step of a request keeps the locks.
LEMMA RequestLocks ==
    ASSUME IInv, Locks, NEW r \in Requests, Resolve(r) \/ Request(r)
    PROVE  Locks'
<1> USE DEF managers
<1>1. /\ mgr \in [Requests -> Managers \cup {None}]
      /\ pc \in [Requests -> {"idle", "open", "lock", "wait", "adopt", "current",
                              "refresh", "reply", "forward", "forget"}]
      /\ pc[r] \notin Inside \cup {"lock"} => mgr[r] = None /\ [mgr EXCEPT ![r] = None] = mgr
  BY DEF IInv, RequestsInv, Locks
<1>2. CASE Resolve(r)
  <2>1. UNCHANGED <<mgr, holder>> /\ pc[r] = "idle"
        /\ (pc' = pc \/ pc' = [pc EXCEPT ![r] = "open"])
    BY <1>2 DEF Resolve, Goto
  <2> QED BY <2>1, Moves DEF Locks, Inside
<1>3. CASE ManagerFor(r)
  <2>1. pc[r] = "open" /\ UNCHANGED holder /\ pc' = [pc EXCEPT ![r] = "lock"]
    BY <1>3 DEF ManagerFor, Goto
  <2>2. \E m \in Managers : mgr' = [mgr EXCEPT ![r] = m]
    BY <1>3 DEF ManagerFor, IInv, ManagersInv
  <2> QED BY <2>1, <2>2, Moves DEF Inside
<1>4. CASE Lock(r)
  <2>1. pc[r] = "lock" /\ holder[mgr[r]] = None
    BY <1>4 DEF Lock
  <2>2. CASE Answer(r, cred[mgr[r]], cred)
    BY <2>1, <2>2, Moves DEF Answer, Goto, Inside
  <2>3. CASE ~Answer(r, cred[mgr[r]], cred)
    <3>1. /\ holder' = [holder EXCEPT ![mgr[r]] = r] /\ UNCHANGED mgr
          /\ pc' = [pc EXCEPT ![r] = "current"] \/ pc' = [pc EXCEPT ![r] = "wait"]
      BY <1>4, <2>3 DEF Lock, Goto
    <3> QED BY <2>1, <3>1, Moves DEF Inside
  <2> QED BY <2>2, <2>3
<1>5. CASE ReadTimeout(r)
  <2>1. pc[r] = "wait" /\ UNCHANGED <<mgr, holder>> /\ pc' = [pc EXCEPT ![r] = "current"]
    BY <1>5 DEF ReadTimeout, Goto
  <2> QED BY <2>1, Moves DEF Inside
<1>6. CASE Adopt(r)
  <2>1. /\ pc[r] \in {"adopt", "current"}
        /\ \/ \E t, c : Answer(r, t, c)
           \/ Goto(r, "refresh") /\ UNCHANGED <<mgr, holder>>
    BY <1>6 DEF Adopt
  <2>2. CASE \E t, c : Answer(r, t, c)
    BY <2>1, <2>2, Moves DEF Answer, Goto, Inside
  <2>3. CASE Goto(r, "refresh") /\ UNCHANGED <<mgr, holder>>
    BY <2>1, <2>3, Moves DEF Goto, Inside
  <2> QED BY <2>1, <2>2, <2>3
<1>7. CASE RefreshGranted(r)
  <2>1. pc[r] = "refresh" /\ UNCHANGED <<mgr, holder>> /\ pc' = [pc EXCEPT ![r] = "reply"]
    BY <1>7 DEF RefreshGranted, Goto
  <2> QED BY <2>1, Moves DEF Inside
<1>8. CASE RefreshDone(r)
  <2>1. pc[r] = "reply" /\ \E t, c : Answer(r, t, c)
    BY <1>8 DEF RefreshDone
  <2> QED BY <2>1, Moves DEF Answer, Goto, Inside
<1>9. CASE RefreshRefused(r) \/ RefreshCut(r)
  <2>1. pc[r] \in Inside /\ \E e : RefreshFails(r, e)
    BY <1>9 DEF RefreshRefused, RefreshCut, Inside
  <2>2. PICK e : RefreshFails(r, e)
    BY <2>1
  <2>3. /\ mgr' = [mgr EXCEPT ![r] = None] /\ holder' = [holder EXCEPT ![mgr[r]] = None]
        /\ \/ pc' = [pc EXCEPT ![r] = "forward"]
           \/ pc' = [pc EXCEPT ![r] = "idle"]
           \/ pc' = [pc EXCEPT ![r] = "forget"]
    BY <2>2 DEF RefreshFails, Answer, Finish, Goto
  <2> QED BY <2>1, <2>3, Moves DEF Inside
<1>10. CASE Forget(r) \/ Forward(r)
  <2>1. pc[r] \in {"forget", "forward"} /\ UNCHANGED holder
    BY <1>10 DEF Forget, Forward
  <2>2. CASE Finish(r)
    <3>1. pc' = [pc EXCEPT ![r] = "idle"] /\ UNCHANGED mgr
      BY <1>1, <2>1, <2>2 DEF Finish, Goto, Inside
    <3> QED BY <2>1, <3>1, Moves DEF Inside
  <2>3. CASE ~Finish(r)
    <3>1. pc' = [pc EXCEPT ![r] = "lock"] /\ current \in Managers
          /\ mgr' = [mgr EXCEPT ![r] = current]
      BY <1>10, <2>3 DEF Forget, Forward, Goto, IInv, ManagersInv
    <3> QED BY <2>1, <3>1, Moves DEF Inside
  <2> QED BY <2>2, <2>3
<1> QED BY <1>2, <1>3, <1>4, <1>5, <1>6, <1>7, <1>8, <1>9, <1>10 DEF Request

\* ... and nobody is left waiting for a read that is over.
LEMMA RequestAwake ==
    ASSUME IInv, Awake, NEW r \in Requests, Resolve(r) \/ Request(r)
    PROVE  Awake'
<1> USE DEF upstream
<1>1. /\ pc \in [Requests -> Inside \cup {"idle", "open", "lock", "forward", "forget"}]
      /\ flight.st \in {"none", "reading", "read"}
  BY DEF IInv, RequestsInv, UpstreamInv, Inside
<1>2. flight' = flight \/ flight'.st = "reading"
  <2>1. CASE Resolve(r)
    BY <2>1 DEF Resolve, Snapshot, StartFlight
  <2>2. CASE Lock(r)
    BY <2>2 DEF Lock, StartFlight
  <2>3. CASE ~Resolve(r) /\ ~Lock(r)
    BY <2>3 DEF Request, ManagerFor, ReadTimeout, Adopt, RefreshGranted, RefreshDone,
           RefreshRefused, RefreshCut, Forget, Forward
  <2> QED BY <2>1, <2>2, <2>3
<1>3. \A q \in Requests \ {r} : pc'[q] = pc[q]
  BY <1>1 DEF Resolve, Request, ManagerFor, Lock, ReadTimeout, Adopt, RefreshGranted,
         RefreshDone, RefreshRefused, RefreshCut, Forget, Forward, RefreshFails, Answer,
         Finish, Goto
<1>4. pc'[r] = "wait" => pc[r] = "wait" \/ flight'.st # "none"
  <2>1. CASE Lock(r)
    <3>1. CASE Answer(r, cred[mgr[r]], cred)
      BY <1>1, <3>1 DEF Answer, Goto
    <3>2. CASE ~Answer(r, cred[mgr[r]], cred)
      BY <1>1, <2>1, <3>2 DEF Lock, Goto, StartFlight
    <3> QED BY <3>1, <3>2
  <2>2. CASE ~Lock(r)
    BY <1>1, <2>2 DEF Resolve, Request, ManagerFor, ReadTimeout, Adopt, RefreshGranted,
         RefreshDone, RefreshRefused, RefreshCut, Forget, Forward, RefreshFails, Answer,
         Finish, Goto
  <2> QED BY <2>1, <2>2
<1> QED BY <1>2, <1>3, <1>4 DEF Awake

LEMMA LocksStep == IInv /\ Locks /\ Awake /\ [Next]_vars => Locks' /\ Awake'
<1> SUFFICES ASSUME IInv, Locks, Awake, [Next]_vars PROVE Locks' /\ Awake'
  OBVIOUS
<1> USE DEF tokenService, upstream, managers, writer, requests, process
<1>1. ASSUME NEW r \in Requests, Resolve(r) \/ Request(r) PROVE Locks' /\ Awake'
  BY <1>1, RequestLocks, RequestAwake
<1>2. CASE FlightLand \/ FlightFail
  <2>1. UNCHANGED <<mgr, holder>> /\ \A r \in Requests :
          /\ pc'[r] # "wait" /\ (pc[r] # "wait" => pc'[r] = pc[r])
          /\ pc[r] = "wait" => pc'[r] \in {"adopt", "current"}
    BY <1>2 DEF FlightLand, FlightFail
  <2>2. \A r \in Requests : /\ pc'[r] \in Inside <=> pc[r] \in Inside
                            /\ pc'[r] \in Inside \cup {"lock"}
                                 <=> pc[r] \in Inside \cup {"lock"}
    BY <2>1 DEF Inside
  <2>3. \A m \in Managers : holder[m] # None => holder[m] \in Requests
    BY DEF IInv, ManagersInv
  <2> QED BY <2>1, <2>2, <2>3 DEF Locks, Awake
<1>3. CASE Exit \/ Crash
  <2>1. /\ holder' = [m \in Managers |-> None] /\ mgr' = [r \in Requests |-> None]
        /\ pc' = [r \in Requests |-> "idle"]
    BY <1>3 DEF Exit, Crash, Restarted
  <2> QED BY <2>1 DEF Locks, Awake, Inside
<1>4. CASE UNCHANGED <<mgr, holder, pc>> /\ (flight' = flight \/ flight'.st # "none")
  BY <1>4 DEF Locks, Awake
<1>5. CASE FlightLoad
  <2>1. flight'.st = "read"
    BY <1>5 DEF FlightLoad
  <2> QED BY <1>4, <1>5, <2>1 DEF FlightLoad
<1> QED BY <1>1, <1>2, <1>3, <1>4, <1>5
        DEF Next, vars, ReadAges, FlushStart, FlushStore, FlushFail, Tick, SignIn, FirstParty,
            SignInEnds, Contribute, RemoveAccount, DiagnoseRead, DiagnoseRefresh,
            DiagnoseStore, DiagnoseCut, Stop

LEMMA LocksInvariance == Spec => [](Locks /\ Awake)
<1>1. Init => Locks /\ Awake
  BY DEF Init, Locks, Awake, Inside
<1> QED BY <1>1, LocksStep, Invariance, PTL DEF Spec

\* "so the token is refreshed once, centrally" (managerFor), as far as one manager goes:
\* however many requests share it, one at a time is between taking its lock and answering,
\* so its credential is refreshed by one call at a time (tokenManager.mu).
THEOREM OneCallAtAManager ==
    Spec => [](\A r, q \in Requests :
                 pc[r] \in Inside /\ pc[q] \in Inside /\ mgr[r] = mgr[q] => r = q)
<1>1. Locks => \A r, q \in Requests :
                 pc[r] \in Inside /\ pc[q] \in Inside /\ mgr[r] = mgr[q] => r = q
  BY DEF Locks
<1> QED BY <1>1, LocksInvariance, PTL

\* Nobody waits for nobody: a request that cannot take its manager's lock waits for another
\* that is past every lock, and one that waits for the panel waits for a read that is under
\* way.  With fairness this is why every request ends (RequestEnds); a lock that a failed
\* refresh kept, or a read that ended without telling everyone, would break it.
THEOREM NobodyWaitsForNobody ==
    Spec => [](\A r \in Requests :
                 /\ pc[r] = "lock" =>
                      LET h == holder[mgr[r]]
                      IN  h = None \/ (h \in Requests \ {r} /\ pc[h] \in Inside)
                 /\ pc[r] = "wait" => flight.st # "none")
<1>1. IInv /\ Locks /\ Awake => \A r \in Requests :
        /\ pc[r] = "lock" =>
             LET h == holder[mgr[r]]
             IN  h = None \/ (h \in Requests \ {r} /\ pc[h] \in Inside)
        /\ pc[r] = "wait" => flight.st # "none"
  <2> SUFFICES ASSUME IInv, Locks, Awake, NEW r \in Requests
               PROVE  /\ pc[r] = "lock" =>
                           LET h == holder[mgr[r]]
                           IN  h = None \/ (h \in Requests \ {r} /\ pc[h] \in Inside)
                      /\ pc[r] = "wait" => flight.st # "none"
    OBVIOUS
  <2>1. pc[r] = "lock" => mgr[r] \in Managers /\ holder[mgr[r]] \in Requests \cup {None}
    BY DEF IInv, RequestsInv, ManagersInv, Locks
  <2> QED BY <2>1 DEF Locks, Awake, Inside
<1> QED BY <1>1, LocksInvariance, Invariance, PTL
-----------------------------------------------------------------------------
(* Without failures the account has one manager, and it refreshes once.    *)

\* A row as good as the token service has it.
Fresh(d) == d = Gone \/ IsNewest(d.cred)

\* Until the account's manager is opened everything it could be opened from is fresh;
\* then it is the only one, and has the newest credential but for one in a reply.
Once ==
    /\ \A r \in Requests : mgr[r] \in {None, current} /\ pc[r] # "forget"
    /\ \A r \in Requests : pc[r] = "reply" => tok[r] = Newest(1)
    /\ current = None =>
         /\ \A r \in Requests : pc[r] \in {"idle", "open"} /\ Fresh(view[r])
         /\ queue = None /\ flushing = None
         /\ Fresh(db) /\ Fresh(snap) /\ Fresh(flight.data)
    /\ current # None => IsNewest(cred[current]) \/ \E r \in Requests : pc[r] = "reply"

OnceInv == ended = {} /\ diag.st = "idle" /\ (1 \notin lost => Once)

\* Only a crash, a stop and a removal happen around the gateway.
Unfailing == LastSignIn = 1 /\ Events \subseteq {"remove", "stop", "crash"}

\* A step that changes nothing Once is about, or only drops the row.
LEMMA QuietOnce ==
    ASSUME Once, UNCHANGED <<expiry, snap, current, cred, queue, flushing, pc, mgr, tok, view>>,
           db' \in {db, Gone}, (flight' = flight) \/ (flight'.data \in {Gone, db})
    PROVE  Once'
BY DEF Once, Fresh, IsNewest, Newest

\* A call inside the account's manager finds there the newest credential.
LEMMA InsideIsNewest ==
    ASSUME Unfailing, IInv, Locks, Once,
           NEW r \in Requests, pc[r] \in Inside
    PROVE  /\ mgr[r] = current /\ current \in Managers
           /\ cred[current] \in Issued
           /\ \A q \in Requests : pc[q] = "reply" => q = r
           /\ pc[r] # "reply" => IsNewest(cred[current])
<1>1. mgr[r] = current /\ current \in Managers /\ current # None
  BY ConstantsAssumption DEF Locks, Once, IInv, ManagersInv, RequestsInv
<1>2. ASSUME NEW q \in Requests, pc[q] = "reply" PROVE q = r
  <2>1. pc[q] \in Inside /\ mgr[q] = current
    BY <1>2, ConstantsAssumption DEF Locks, Once, Inside
  <2> QED BY <1>1, <2>1 DEF Locks
<1>3. pc[r] # "reply" => IsNewest(cred[current])
  BY <1>1, <1>2 DEF Once
<1> QED BY <1>1, <1>2, <1>3 DEF IInv, ManagersInv

\* What the manager has is not traded for a row, none of which is newer.
LEMMA NothingNewer ==
    ASSUME Unfailing, IInv, NEW c \in Issued, IsNewest(c), NEW d \in Rows, d # Gone
    PROVE  ~NewerThan(d.cred, c)
<1>1. d.cred \in Issued
  BY RowCred
<1>2. c[1] = 1 /\ d.cred[1] = 1 /\ d.cred[2] <= c[2] /\ c[2] \in Nat /\ d.cred[2] \in Nat
  BY <1>1, OneSignIn DEF IsNewest, Newest, Latest, Unfailing
<1>3. ~NewerThan(c, d.cred) => c[2] <= d.cred[2]
  BY <1>1, <1>2, ExpiryOrders
<1>4. CASE c[2] = d.cred[2]
  <2>1. c = d.cred /\ Exp(c) \in Nat
    BY <1>1, <1>4, OneSignIn, ExpiryOrders DEF Unfailing
  <2> QED BY <2>1 DEF NewerThan
<1>5. CASE d.cred[2] < c[2]
  <2>1. NewerThan(c, d.cred)
    BY <1>2, <1>3, <1>5
  <2>2. Exp(c) \in Nat /\ Exp(d.cred) \in Nat
    BY <1>1, <1>2, ExpiryOrders
  <2> QED BY <2>1, <2>2 DEF NewerThan
<1> QED BY <1>2, <1>4, <1>5

LEMMA RequestOnce ==
    ASSUME Unfailing, IInv, Locks, OnceInv, Once, NEW r \in Requests, Resolve(r) \/ Request(r)
    PROVE  Once'
<1> USE DEF upstream, managers, writer
<1>1. /\ mgr \in [Requests -> Managers \cup {None}] /\ tok \in [Requests -> Issued \cup {None}]
      /\ pc \in [Requests -> {"idle", "open", "lock", "wait", "adopt", "current",
                              "refresh", "reply", "forward", "forget"}]
      /\ view \in [Requests -> Rows] /\ cred \in [Managers -> Issued]
      /\ current \in Managers \cup {None} /\ None \notin Managers
  BY ConstantsAssumption DEF IInv, RequestsInv, ManagersInv
<1>2. ~ReadTimeout(r) /\ ~RefreshCut(r) /\ ~Forget(r) /\ ~RefreshRefused(r)
  <2>1. ~ReadTimeout(r) /\ ~RefreshCut(r) /\ ~Forget(r)
    BY DEF Unfailing, ReadTimeout, RefreshCut, Forget, Once
  <2>2. ASSUME RefreshRefused(r) PROVE FALSE
    <3>1. mgr[r] = current /\ IsNewest(cred[current])
      BY <2>2, InsideIsNewest DEF RefreshRefused, Inside
    <3> QED BY <2>2, <3>1 DEF RefreshRefused, Refreshable, OnceInv
  <2> QED BY <2>1, <2>2
<1>3. CASE Resolve(r)
  <2>1. /\ UNCHANGED <<expiry, db, snap, current, cred, queue, flushing, mgr, tok>>
        /\ pc[r] = "idle"
        /\ (flight' = flight) \/ (flight'.data = Gone)
        /\ \/ UNCHANGED <<pc, view>>
           \/ pc' = [pc EXCEPT ![r] = "open"] /\ view' = [view EXCEPT ![r] = snap]
    BY <1>3 DEF Resolve, tokenService, Snapshot, StartFlight, Goto
  <2>2. CASE UNCHANGED <<pc, view>>
    BY <2>1, <2>2, QuietOnce
  <2>3. CASE pc' = [pc EXCEPT ![r] = "open"] /\ view' = [view EXCEPT ![r] = snap]
    <3>1. \A q \in Requests : /\ pc'[q] = pc[q] \/ (q = r /\ pc'[q] = "open")
                              /\ view'[q] \in {view[q], snap}
                              /\ pc'[q] = "reply" <=> pc[q] = "reply"
      BY <1>1, <2>1, <2>3
    <3> QED BY <2>1, <3>1 DEF Once, Fresh, IsNewest, Newest
  <2> QED BY <2>1, <2>2, <2>3
<1>4. CASE ManagerFor(r)
  <2>1. /\ UNCHANGED <<expiry, tok>> /\ pc[r] = "open" /\ pc' = [pc EXCEPT ![r] = "lock"]
        /\ view[r] # Gone
    BY <1>4 DEF ManagerFor, tokenService, Goto, IInv, Opened
  <2>2. \A q \in Requests : /\ pc'[q] = "reply" <=> pc[q] = "reply"
                            /\ pc'[q] = "forget" <=> pc[q] = "forget"
    BY <1>1, <2>1
  <2>3. CASE current # None
    <3>1. /\ UNCHANGED <<current, cred>>
          /\ \A q \in Requests : mgr'[q] \in {mgr[q], current}
      BY <1>1, <1>4, <2>3 DEF ManagerFor
    <3> QED BY <2>1, <2>2, <2>3, <3>1 DEF Once, IsNewest, Newest
  <2>4. CASE current = None
    <3>1. PICK m \in Managers : /\ current' = m /\ mgr' = [mgr EXCEPT ![r] = m]
                                /\ cred' = [cred EXCEPT ![m] = view[r].cred]
      BY <1>4, <2>4 DEF ManagerFor
    <3>2. IsNewest(view[r].cred) /\ cred'[m] = view[r].cred
      BY <1>1, <2>1, <2>4, <3>1 DEF Once, Fresh
    <3>3. \A q \in Requests : mgr'[q] \in {None, m}
      BY <1>1, <2>4, <3>1 DEF Once
    <3>4. IsNewest(cred[current])'
      BY <2>1, <3>1, <3>2 DEF IsNewest, Newest
    <3>5. current' # None
      BY <1>1, <3>1
    <3> QED BY <2>1, <2>2, <2>4, <3>1, <3>3, <3>4, <3>5 DEF Once, Newest
  <2> QED BY <2>3, <2>4
<1>5. ASSUME NEW t, NEW c, Answer(r, t, c), UNCHANGED expiry, current # None, mgr[r] = current,
             \/ c[current] = cred[current] /\ pc[r] # "reply"
             \/ c[current] = Newest(1) /\ \A q \in Requests : pc[q] = "reply" => q = r
      PROVE  Once'
  <2>1. /\ current' = current /\ current \in Managers /\ cred'[current] = c[current]
        /\ mgr' = [mgr EXCEPT ![r] = None] /\ pc' = [pc EXCEPT ![r] = "forward"]
        /\ tok' = [tok EXCEPT ![r] = t]
    BY <1>1, <1>5 DEF Answer, Keep, Goto
  <2>2. \A q \in Requests : /\ mgr'[q] \in {None, current} /\ pc'[q] # "forget"
                            /\ pc'[q] = "reply" => pc[q] = "reply" /\ q # r /\ tok'[q] = tok[q]
                            /\ pc[q] = "reply" => pc'[q] = "reply" \/ q = r
    BY <1>1, <2>1 DEF Once
  <2>3. IsNewest(cred[current])' \/ \E q \in Requests : pc'[q] = "reply"
    <3>1. CASE c[current] = cred[current] /\ pc[r] # "reply"
      BY <1>5, <2>1, <2>2, <3>1 DEF Once, IsNewest, Newest
    <3>2. CASE c[current] = Newest(1)
      BY <1>5, <2>1, <3>2 DEF IsNewest, Newest
    <3> QED BY <1>5, <3>1, <3>2
  <2> QED BY <1>5, <2>1, <2>2, <2>3 DEF Once, Newest
<1>6. CASE Lock(r)
  <2>1. mgr[r] = current /\ current # None /\ UNCHANGED expiry /\ pc[r] = "lock"
    BY <1>1, <1>6 DEF Lock, Locks, Once, tokenService
  <2>2. CASE Answer(r, cred[mgr[r]], cred)
    BY <1>5, <2>1, <2>2
  <2>3. CASE ~Answer(r, cred[mgr[r]], cred)
    <3>1. /\ UNCHANGED <<tok, mgr, cred, current>>
          /\ pc' = [pc EXCEPT ![r] = "current"] \/ pc' = [pc EXCEPT ![r] = "wait"]
      BY <1>6, <2>3 DEF Lock, Goto
    <3>2. \A q \in Requests : /\ pc'[q] = "reply" <=> pc[q] = "reply"
                              /\ pc'[q] # "forget"
      BY <1>1, <2>1, <3>1 DEF Once
    <3> QED BY <2>1, <3>1, <3>2 DEF Once, IsNewest, Newest
  <2> QED BY <2>2, <2>3
<1>7. CASE Adopt(r)
  <2> DEFINE d == IF pc[r] = "adopt" THEN read[r] ELSE snap
             adopts == Adopts(r, cred[mgr[r]], d)
             c == IF adopts THEN d.cred ELSE cred[mgr[r]]
  <2>1. /\ mgr[r] = current /\ current \in Managers /\ IsNewest(cred[current])
        /\ pc[r] \in {"adopt", "current"} /\ UNCHANGED expiry
        /\ cred[current] \in Issued
    BY <1>7, InsideIsNewest DEF Adopt, Inside, tokenService
  <2>2. d \in Rows
    BY DEF IInv, RequestsInv, UpstreamInv
  <2>3. ~adopts
    BY <2>1, <2>2, NothingNewer DEF Adopts
  <2>4. Goto(r, "refresh") /\ UNCHANGED <<tok, mgr, current>>
        /\ cred' = [cred EXCEPT ![mgr[r]] = cred[mgr[r]]]
    BY <1>7, <2>3 DEF Adopt
  <2>5. cred' = cred
    BY <1>1, <2>4
  <2>6. \A q \in Requests : (pc'[q] = "reply" <=> pc[q] = "reply") /\ pc'[q] # "forget"
    BY <1>1, <2>1, <2>4 DEF Goto, Once
  <2>7. current # None
    BY <1>1, <2>1
  <2> QED BY <2>1, <2>4, <2>5, <2>6, <2>7 DEF Once, IsNewest, Newest
<1>8. CASE RefreshGranted(r)
  <2>1. /\ mgr[r] = current /\ current \in Managers /\ IsNewest(cred[current])
        /\ cred[current] \in Issued /\ pc[r] = "refresh"
        /\ \A q \in Requests : pc[q] = "reply" => q = r
    BY <1>8, InsideIsNewest DEF RefreshGranted, Inside
  <2>2. cred[current] = <<1, Latest>> /\ Latest \in Nat
    BY <2>1, OneSignIn DEF IsNewest, Newest, Latest, Unfailing
  <2>3. /\ Issue(1) /\ tok' = [tok EXCEPT ![r] = <<1, Latest + 1>>]
        /\ pc' = [pc EXCEPT ![r] = "reply"] /\ UNCHANGED <<current, cred, mgr>>
    BY <1>8, <2>1, <2>2 DEF RefreshGranted, Goto
  <2>4. Newest(1)' = <<1, Latest + 1>>
    <3>1. expiry \in [SignIns -> Seq(Nat)] /\ 1 \in SignIns
      BY ConstantsAssumption DEF IInv, ServiceInv, SignIns
    <3>2. expiry' = [expiry EXCEPT ![1] = Append(@, now' + Lifetime)]
      BY <2>3 DEF Issue
    <3>3. Len(expiry'[1]) = Len(expiry[1]) + 1
      BY <3>1, <3>2
    <3> QED BY <3>3 DEF Newest, Latest
  <2>5. \A q \in Requests : /\ pc'[q] = "reply" => q = r
                            /\ pc'[q] # "forget"
    BY <1>1, <2>1, <2>3 DEF Once
  <2>6. tok'[r] = <<1, Latest + 1>> /\ pc'[r] = "reply"
    BY <1>1, <2>3
  <2>7. current # None
    BY <1>1, <2>1
  <2> QED BY <2>3, <2>4, <2>5, <2>6, <2>7 DEF Once
<1>9. CASE RefreshDone(r)
  <2>1. /\ mgr[r] = current /\ current \in Managers /\ pc[r] = "reply" /\ UNCHANGED expiry
        /\ \A q \in Requests : pc[q] = "reply" => q = r
        /\ tok[r] = Newest(1)
    BY <1>9, InsideIsNewest DEF RefreshDone, Inside, tokenService, Once
  <2>2. Answer(r, tok[r], [cred EXCEPT ![current] = tok[r]])
    BY <1>9, <2>1 DEF RefreshDone
  <2>3. [cred EXCEPT ![current] = tok[r]][current] = Newest(1)
    BY <1>1, <2>1
  <2> QED BY <1>1, <1>5, <2>1, <2>2, <2>3
<1>10. CASE Forward(r)
  <2>1. pc[r] = "forward" /\ UNCHANGED <<expiry, current, cred>> /\ current # None
    BY <1>10 DEF Forward, tokenService, Once
  <2>2. /\ \A q \in Requests : mgr'[q] \in {mgr[q], current, None}
        /\ \A q \in Requests \ {r} : pc'[q] = pc[q] /\ tok'[q] = tok[q]
        /\ pc'[r] \in {"idle", "lock"}
    BY <1>1, <1>10 DEF Forward, Finish, Goto
  <2> QED BY <2>1, <2>2 DEF Once, IsNewest, Newest
<1> QED BY <1>2, <1>3, <1>4, <1>6, <1>7, <1>8, <1>9, <1>10 DEF Request

\* The background, the panel and the machine.
LEMMA AroundOnce ==
    ASSUME Unfailing, IInv, OnceInv, Once,
           \/ FlightLoad \/ FlightLand \/ FlightFail \/ ReadAges
           \/ FlushStart \/ FlushStore \/ FlushFail
           \/ Tick \/ Stop \/ RemoveAccount \/ UNCHANGED vars
    PROVE  Once'
<1> USE DEF tokenService, upstream, managers, writer, requests, process
<1>1. CASE FlightLoad \/ ReadAges \/ Tick \/ Stop \/ RemoveAccount \/ UNCHANGED vars
  <2>1. CASE FlightLoad
    BY <2>1, QuietOnce DEF FlightLoad
  <2>2. CASE ReadAges \/ Tick \/ Stop \/ RemoveAccount \/ UNCHANGED vars
    BY <2>2, QuietOnce DEF ReadAges, Tick, Stop, RemoveAccount, vars
  <2> QED BY <1>1, <2>1, <2>2
<1>2. CASE FlightLand
  <2>1. /\ UNCHANGED <<expiry, db, current, cred, queue, flushing, mgr, tok, view>>
        /\ snap' = flight.data /\ flight'.data = Gone
        /\ \A q \in Requests : pc'[q] = IF pc[q] = "wait" THEN "adopt" ELSE pc[q]
    BY <1>2 DEF FlightLand
  <2>2. \A q \in Requests : /\ pc'[q] = "reply" <=> pc[q] = "reply"
                            /\ pc'[q] = "forget" <=> pc[q] = "forget"
                            /\ pc[q] \in {"idle", "open"} => pc'[q] \in {"idle", "open"}
    BY <2>1
  <2> QED BY <2>1, <2>2 DEF Once, Fresh, IsNewest, Newest
<1>3. CASE FlushStart \/ FlushStore
  <2>1. /\ UNCHANGED <<expiry, current, cred, pc, mgr, tok>>
        /\ queue # None \/ flushing # None
    BY <1>3 DEF FlushStart, FlushStore
  <2> QED BY <2>1 DEF Once, IsNewest, Newest
<1>4. ~FlightFail /\ ~FlushFail
  BY DEF Unfailing, FlightFail, FlushFail
<1> QED BY <1>1, <1>2, <1>3, <1>4

\* A new process starts from the row, which has what the last one did not lose.
LEMMA DeathOnce ==
    ASSUME Unfailing, IInv, KeptInv, OnceInv, 1 \notin lost', Exit \/ Crash
    PROVE  Once'
<1>1. Restarted /\ UNCHANGED <<tokenService, db, diag>> /\ lost \subseteq lost'
  BY DEF Exit, Crash
<1>2. /\ mgr' = [r \in Requests |-> None] /\ pc' = [r \in Requests |-> "idle"]
      /\ view' = [r \in Requests |-> Gone] /\ current' = None /\ snap' = db
      /\ queue' = None /\ flushing' = None /\ flight'.data = Gone
  BY <1>1 DEF Restarted
<1>3. Fresh(db)
  <2> SUFFICES ASSUME db # Gone PROVE IsNewest(db.cred)
    BY DEF Fresh
  <2>1. Kept /\ Kept'
    BY <1>1, DeathKept DEF KeptInv, Unfailing
  <2>2. ~Pending'
    BY <1>1, <1>2 DEF Pending, OnceInv
  <2>3. db.cred[2] = Latest
    BY <1>1, <1>2, <2>1, <2>2 DEF Kept, Latest, tokenService
  <2>4. db.cred \in Issued
    BY RowCred DEF IInv, UpstreamInv
  <2> QED BY <2>3, <2>4, OneSignIn DEF IsNewest, Newest, Latest, Unfailing
<1>4. Fresh(db)'
  BY <1>1, <1>3 DEF Fresh, IsNewest, Newest, tokenService
<1> QED BY <1>1, <1>2, <1>4 DEF Once, Fresh, IsNewest, Newest, tokenService

LEMMA OnceStep ==
    ASSUME Unfailing, IInv, KeptInv, Locks, OnceInv, [Next]_vars
    PROVE  OnceInv'
<1> USE DEF tokenService, upstream, managers, writer, requests, process
<1>1. ~DiagnoseRead /\ ~DiagnoseRefresh /\ ~DiagnoseStore /\ ~DiagnoseCut
  BY DEF Unfailing, OnceInv, DiagnoseRead, DiagnoseRefresh, DiagnoseStore, DiagnoseCut
<1>2. ASSUME NEW f \in SignIns PROVE ~SignIn(f) /\ ~FirstParty(f) /\ ~SignInEnds(f) /\ ~Contribute(f)
  <2>1. f = 1 /\ expiry[1] # <<>>
    BY OneSignIn DEF IInv, Machines, Unfailing
  <2>2. db # Gone => db.end = 1
    BY OneSignIn DEF IInv, UpstreamInv, Rows, Account, Unfailing
  <2> QED BY <2>1, <2>2 DEF Unfailing, SignIn, SignedIn, FirstParty, SignInEnds, Contribute
<1>3. ASSUME NEW r \in Requests, Resolve(r) \/ Request(r) PROVE OnceInv'
  <2>1. UNCHANGED <<ended, diag>>
    BY <1>3 DEF Resolve, Request, ManagerFor, Lock, ReadTimeout, Adopt, RefreshGranted, Issue,
       RefreshDone, RefreshRefused, RefreshCut, Forget, Forward
  <2>2. lost \subseteq lost'
    BY <1>3 DEF Resolve, Request, ManagerFor, Lock, ReadTimeout, Adopt, RefreshGranted,
       RefreshDone, RefreshRefused, RefreshCut, Forget, Forward
  <2> QED BY <1>3, <2>1, <2>2, RequestOnce DEF OnceInv
<1>4. CASE \/ FlightLoad \/ FlightLand \/ FlightFail \/ ReadAges
           \/ FlushStart \/ FlushStore \/ FlushFail
           \/ Tick \/ Stop \/ RemoveAccount \/ UNCHANGED vars
  <2>1. UNCHANGED <<ended, diag, lost>>
    BY <1>4 DEF FlightLoad, FlightLand, FlightFail, ReadAges, FlushStart, FlushStore,
       FlushFail, Tick, Stop, RemoveAccount, vars
  <2> QED BY <1>4, <2>1, AroundOnce DEF OnceInv
<1>5. CASE Exit \/ Crash
  <2>1. UNCHANGED <<ended, diag>>
    BY <1>5 DEF Exit, Crash
  <2> QED BY <1>5, <2>1, DeathOnce DEF OnceInv
<1> QED BY <1>1, <1>2, <1>3, <1>4, <1>5 DEF Next

\* "All members of an account share the same manager, so the token is refreshed once,
\* centrally" (managerFor): true of any number of requests, of stops and of crashes, as long
\* as no call and no read of the panel fails and the sign-in is not ended or used elsewhere.
\* The gateway then presents no refresh token it has spent, unless it died with the newest.
\* One failure is enough to break it (SharedLoginCollision.cfg).
THEOREM RefreshedOnceUnlessSomethingFails == Unfailing => (Spec => []NoSelfCollision)
<1> SUFFICES ASSUME Unfailing PROVE Spec => []NoSelfCollision
  OBVIOUS
<1>1. Init => KeptInv /\ OnceInv
  <2> SUFFICES ASSUME Init PROVE Kept /\ OnceInv
    BY DEF KeptInv
  <2>1. Len(expiry[1]) = 1
    BY ConstantsAssumption DEF Init, SignIns
  <2>2. Kept
    BY <2>1 DEF Init, Kept, Pending, Latest
  <2>3. Once
    BY <2>1 DEF Init, Once, Fresh, IsNewest, Newest
  <2> QED BY <2>2, <2>3 DEF Init, OnceInv
<1>2. IInv /\ Locks /\ OnceInv => NoSelfCollision
  <2> SUFFICES ASSUME IInv, Locks, OnceInv, NEW r \in Requests, pc[r] = "refresh",
                      cred[mgr[r]][1] \notin lost
               PROVE  IsNewest(cred[mgr[r]])
    BY DEF NoSelfCollision
  <2>1. mgr[r] \in Managers /\ cred[mgr[r]] \in Issued
    BY Holds
  <2>2. 1 \notin lost
    BY <2>1, OneSignIn DEF Unfailing
  <2> QED BY <2>2, InsideIsNewest DEF OnceInv, Inside
<1>3. IInv /\ KeptInv /\ [Next]_vars => KeptInv'
  BY NextKept DEF Unfailing
<1>4. IInv /\ KeptInv /\ Locks /\ OnceInv /\ [Next]_vars => OnceInv'
  BY OnceStep
<1> QED BY <1>1, <1>2, <1>3, <1>4, LocksInvariance, Invariance, PTL DEF Spec
=============================================================================
