------------------------- MODULE UsageServiceProofs -------------------------
(***************************************************************************)
(* Proofs about UsageService, for any requests, logins, waits and time:    *)
(* Anthropic is not asked too often, nor while it refuses, and numbers are *)
(* about the login that is signed in.                                      *)
(*                                                                         *)
(* The last says nothing of what is on its way by itself: it holds because *)
(* whatever is on its way was read from the same login (Underhand), unless *)
(* a Forget crossed it.                                                    *)
(***************************************************************************)
EXTENDS UsageService, TLAPS

\* What is stored has a time to live.
Ready == \A g \in Gets : pc[g] = "store" => found[g].ttl \in {TTL, ShortTTL}

\* A snapshot kept for TTL keeps everyone from asking until it is ExpireFloor old.
Spaced ==
    heard # None =>
      /\ heard <= now
      /\ \/ now - heard >= ExpireFloor
         \/ leader = None /\ entry # None /\ entry.at = heard /\ entry.ttl = TTL

\* A refusal that is waited out is the cooldown's.
Hushed == quiet # 0 => cooldown # None /\ cooldown.until = quiet

\* Nobody but the handler that forgets writes the file of a login that was just replaced.
Linking == forgetting = "linked" => save[Forgetter] = "no"

\* What a Get or a writer of the file does not have under way, it has nothing of.
AtRest ==
    /\ \A g \in Gets : pc[g] \in {"idle", "wait"} => cred[g] = None /\ found[g].usage = None
    /\ \A g \in Gets : pc[g] # "store" => save[g] = "no"
    /\ \A s \in Savers : save[s] # "write" => copy[s] = None

Own == {login, None}
Underhand ==
    ~crossed /\ forgetting # "linked" =>
      /\ last \in Own
      /\ entry # None => entry.usage \in Own
      /\ \A g \in Gets : cred[g] \in Own /\ found[g].usage \in Own
      /\ \A s \in Savers : copy[s] \in Own
      /\ file \in Own \/ save[Forgetter] # "no"

IInv == TypeOK /\ Ready /\ Spaced /\ Hushed /\ Linking /\ AtRest /\ Underhand

-----------------------------------------------------------------------------
LEMMA Constants ==
    /\ Forgetter \in Savers /\ Gets \subseteq Savers /\ Forgetter \notin Gets
    /\ ShortTTL \in Nat /\ TTL \in Nat /\ ExpireFloor \in Nat /\ ExpireFloor <= TTL
    /\ BackoffFirst \in Nat /\ BackoffMax \in Nat /\ MaxNow \in Nat /\ 0 \in 0..MaxNow
    /\ RetryAfters \subseteq Nat
    /\ None \notin Gets /\ None \notin Logins /\ None \in Numbers
    /\ None \notin Snapshots /\ None \notin Cooldowns
BY UsageAssumption, NoneIsNothing DEF Savers, Numbers

LEMMA InitInv == Init => IInv
<1> SUFFICES ASSUME Init PROVE IInv
  OBVIOUS
<1>1. TypeOK
  <2>1. found \in [Gets -> [usage : Numbers, ttl : {0, TTL, ShortTTL}]]
    BY Constants DEF Init, Nothing
  <2>2. /\ login \in Numbers /\ last \in Numbers /\ file \in Numbers
        /\ copy \in [Savers -> Numbers] /\ cred \in [Gets -> Numbers]
    BY Constants DEF Init, Numbers
  <2>3. \A g \in Gets : /\ pc[g] \notin {"idle", "wait"} <=> leader = g
                        /\ pc[g] \in {"check", "calling"} => cred[g] # None
    BY Constants DEF Init
  <2>4. now \in 0..MaxNow /\ heard \in 0..MaxNow \cup {None} /\ quiet \in Nat
    BY Constants DEF Init
  <2> QED BY <2>1, <2>2, <2>3, <2>4 DEF Init, TypeOK
<1>2. Ready /\ Spaced /\ Hushed /\ Linking /\ AtRest /\ Underhand
  BY Constants DEF Init, Nothing, Ready, Spaced, Hushed, Linking, AtRest, Underhand, Own
<1> QED BY <1>1, <1>2 DEF IInv

-----------------------------------------------------------------------------
\* A request comes, and reads or waits.
LEMMA GetStep == ASSUME IInv, NEW g \in Gets, Get(g) PROVE IInv'
<1> USE DEF account, disk, history
<1>1. /\ UNCHANGED <<now, account, entry, cooldown, last, disk, cred, found, gone, history>>
      /\ pc[g] = "idle" /\ ~Cached
      /\ \/ leader # None /\ leader' = leader /\ pc' = [pc EXCEPT ![g] = "wait"]
         \/ leader = None /\ leader' = g /\ pc' = [pc EXCEPT ![g] = "read"]
  BY DEF Get, Goto
<1>2. TypeOK'
  <2>1. /\ leader' \in Gets \cup {None}
        /\ pc' \in [Gets -> {"idle", "wait", "read", "check", "calling", "store"}]
    BY <1>1 DEF IInv, TypeOK
  <2>2. \A x \in Gets : /\ pc'[x] \notin {"idle", "wait"} <=> leader' = x
                        /\ pc'[x] \in {"check", "calling"} => cred'[x] # None
    BY <1>1, Constants DEF IInv, TypeOK
  <2> QED BY <1>1, <2>1, <2>2 DEF IInv, TypeOK
<1>3. Spaced'
  BY <1>1, Constants DEF IInv, Spaced, Cached, TypeOK, Snapshots
<1>4. Ready' /\ Hushed' /\ Linking' /\ AtRest' /\ Underhand'
  BY <1>1 DEF IInv, TypeOK, Ready, Hushed, Linking, AtRest, Underhand, Own
<1> QED BY <1>2, <1>3, <1>4 DEF IInv

\* The reader goes on, without an answer from Anthropic.
LEMMA ReadStep ==
    ASSUME IInv, NEW g \in Gets, ReadCredentials(g) \/ Check(g) \/ CallFails(g)
    PROVE  IInv'
<1> USE DEF account, disk, history
<1>1. /\ UNCHANGED <<now, account, entry, leader, last, disk, gone, history>>
      /\ leader = g /\ pc[g] \in {"read", "check", "calling"}
      /\ cooldown' = cooldown \/ Failed
  BY DEF ReadCredentials, Check, CallFails, IInv, TypeOK
<1>2. PICK step \in {"check", "calling", "store"} :
        /\ pc' = [pc EXCEPT ![g] = step]
        /\ step # "store" => found' = found /\ cred'[g] # None
        /\ step = "store" => \E numbers \in {last, login, None}, ttl \in {TTL, ShortTTL} :
                               found' = [found EXCEPT ![g] = [usage |-> numbers, ttl |-> ttl]]
  BY DEF ReadCredentials, Check, CallFails, Find, Goto, GatewayReading, LastGood, IInv, TypeOK
<1>3. cred' = cred \/ cred' = [cred EXCEPT ![g] = login]
  BY DEF ReadCredentials, Check, CallFails
<1>4. cooldown' \in Cooldowns \cup {None}
      /\ (cooldown # None => cooldown' # None /\ cooldown'.until = cooldown.until)
  BY <1>1, Constants DEF Failed, IInv, TypeOK, Cooldowns
<1>5. TypeOK'
  <2>1. found' \in [Gets -> [usage : Numbers, ttl : {0, TTL, ShortTTL}]]
    BY <1>2, Constants DEF IInv, TypeOK
  <2>2. /\ pc' \in [Gets -> {"idle", "wait", "read", "check", "calling", "store"}]
        /\ cred' \in [Gets -> Numbers]
    BY <1>2, <1>3 DEF IInv, TypeOK
  <2>3. \A x \in Gets : /\ pc'[x] \notin {"idle", "wait"} <=> leader' = x
                        /\ pc'[x] \in {"check", "calling"} => cred'[x] # None
    BY <1>1, <1>2, <1>3 DEF IInv, TypeOK
  <2> QED BY <1>1, <1>4, <2>1, <2>2, <2>3 DEF IInv, TypeOK
<1>6. Ready'
  BY <1>2 DEF IInv, TypeOK, Ready
<1>7. Spaced' /\ Hushed' /\ Linking'
  BY <1>1, <1>4 DEF IInv, Spaced, Hushed, Linking
<1>8. AtRest'
  BY <1>1, <1>2, <1>3 DEF IInv, TypeOK, AtRest
<1>9. Underhand'
  BY <1>1, <1>2, <1>3 DEF IInv, TypeOK, Underhand, Own
<1> QED BY <1>5, <1>6, <1>7, <1>8, <1>9 DEF IInv

\* Anthropic answers with numbers.
LEMMA AllowedStep == ASSUME IInv, NEW g \in Gets, Allowed(g) PROVE IInv'
<1> USE DEF account, disk, history
<1>1. /\ UNCHANGED <<now, account, entry, leader, file, copy, cred, gone, heard, crossed>>
      /\ pc[g] = "calling" /\ leader = g /\ cooldown' = None /\ last' = cred[g] /\ quiet' = 0
      /\ save' = [save EXCEPT ![g] = "copy"] /\ pc' = [pc EXCEPT ![g] = "store"]
      /\ found' = [found EXCEPT ![g] = [usage |-> cred[g], ttl |-> TTL]]
  BY DEF Allowed, Find, Goto, IInv, TypeOK
<1>2. TypeOK'
  <2>1. /\ found' \in [Gets -> [usage : Numbers, ttl : {0, TTL, ShortTTL}]]
        /\ pc' \in [Gets -> {"idle", "wait", "read", "check", "calling", "store"}]
        /\ save' \in [Savers -> {"no", "copy", "write"}] /\ last' \in Numbers
    BY <1>1, Constants DEF IInv, TypeOK
  <2>2. \A x \in Gets : /\ pc'[x] \notin {"idle", "wait"} <=> leader' = x
                        /\ pc'[x] \in {"check", "calling"} => cred'[x] # None
    BY <1>1 DEF IInv, TypeOK
  <2> QED BY <1>1, <2>1, <2>2 DEF IInv, TypeOK
<1>3. Ready' /\ Hushed'
  BY <1>1 DEF IInv, TypeOK, Ready, Hushed
<1>4. Spaced'
  BY <1>1 DEF IInv, Spaced
<1>5. Linking' /\ AtRest'
  BY <1>1, Constants DEF IInv, TypeOK, Linking, AtRest
<1>6. Underhand'
  BY <1>1, Constants DEF IInv, TypeOK, Underhand, Own
<1> QED BY <1>2, <1>3, <1>4, <1>5, <1>6 DEF IInv

\* Anthropic refuses, for a wait that is a number.
LEMMA StepIsNat == ASSUME TypeOK PROVE Step(cooldown) \in Nat
<1>1. cooldown # None => cooldown.step \in Nat
  BY DEF TypeOK, Cooldowns
<1> QED BY <1>1, Constants DEF Step, Min2

LEMMA RefusedStep == ASSUME IInv, NEW g \in Gets, Refused(g) PROVE IInv'
<1> USE DEF account, disk, history
<1>1. PICK retryAfter \in RetryAfters, numbers \in {last, None} :
        LET step == Max2(Step(cooldown), retryAfter) IN
        /\ cooldown' = [until |-> now + step, step |-> step, failedAt |-> 0]
        /\ quiet' = now + step
        /\ pc' = [pc EXCEPT ![g] = "store"]
        /\ found' = [found EXCEPT ![g] = [usage |-> numbers, ttl |-> ShortTTL]]
  BY DEF Refused, LastGood, Find, Goto
<1>2. /\ UNCHANGED <<now, account, entry, leader, last, disk, cred, gone, heard, crossed>>
      /\ pc[g] = "calling" /\ leader = g
  BY DEF Refused, IInv, TypeOK
<1>3. quiet' \in Nat /\ cooldown' \in Cooldowns /\ cooldown'.until = quiet'
  <2>1. Max2(Step(cooldown), retryAfter) \in Nat
    BY StepIsNat, Constants DEF IInv, Max2
  <2>2. now \in Nat
    BY Constants DEF IInv, TypeOK
  <2> QED BY <1>1, <2>1, <2>2, Constants DEF Cooldowns
<1>4. TypeOK'
  <2>1. /\ found' \in [Gets -> [usage : Numbers, ttl : {0, TTL, ShortTTL}]]
        /\ pc' \in [Gets -> {"idle", "wait", "read", "check", "calling", "store"}]
    BY <1>1, Constants DEF IInv, TypeOK
  <2>2. \A x \in Gets : /\ pc'[x] \notin {"idle", "wait"} <=> leader' = x
                        /\ pc'[x] \in {"check", "calling"} => cred'[x] # None
    BY <1>1, <1>2 DEF IInv, TypeOK
  <2> QED BY <1>2, <1>3, <2>1, <2>2 DEF IInv, TypeOK
<1>5. Ready' /\ AtRest'
  BY <1>1, <1>2 DEF IInv, TypeOK, Ready, AtRest
<1>6. Hushed' /\ Linking' /\ Spaced'
  BY <1>2, <1>3, Constants DEF IInv, Hushed, Linking, Spaced
<1>7. Underhand'
  BY <1>1, <1>2 DEF IInv, TypeOK, Underhand, Own
<1> QED BY <1>4, <1>5, <1>6, <1>7 DEF IInv

\* The read is over.
LEMMA StoreStep == ASSUME IInv, NEW g \in Gets, Store(g) PROVE IInv'
<1> USE DEF account, disk, history
<1>1. /\ UNCHANGED <<now, account, cooldown, last, disk, quiet, crossed>>
      /\ pc[g] = "store" /\ leader = g /\ leader' = None
      /\ pc' = [x \in Gets |-> IF x = g \/ pc[x] = "wait" THEN "idle" ELSE pc[x]]
      /\ cred' = [cred EXCEPT ![g] = None] /\ found' = [found EXCEPT ![g] = Nothing]
      /\ gone' = gone \ {g}
  BY DEF Store, IInv, TypeOK
<1>2. \/ UNCHANGED <<entry, heard>>
      \/ /\ entry' = [usage |-> found[g].usage, at |-> now, ttl |-> found[g].ttl]
         /\ heard' = IF found[g].ttl = TTL THEN now ELSE heard
  BY DEF Store
<1>3. [usage |-> found[g].usage, at |-> now, ttl |-> found[g].ttl] \in Snapshots
  BY <1>1 DEF IInv, TypeOK, Ready, Snapshots
<1>4. TypeOK'
  <2>1. /\ found' \in [Gets -> [usage : Numbers, ttl : {0, TTL, ShortTTL}]]
        /\ pc' \in [Gets -> {"idle", "wait", "read", "check", "calling", "store"}]
        /\ cred' \in [Gets -> Numbers] /\ gone' \subseteq Gets
    BY <1>1, Constants DEF IInv, TypeOK, Nothing
  <2>2. \A x \in Gets : /\ pc'[x] \notin {"idle", "wait"} <=> leader' = x
                        /\ pc'[x] \in {"check", "calling"} => cred'[x] # None
    BY <1>1, Constants DEF IInv, TypeOK
  <2>3. entry' \in Snapshots \cup {None} /\ heard' \in 0..MaxNow \cup {None}
    BY <1>2, <1>3 DEF IInv, TypeOK
  <2> QED BY <1>1, <2>1, <2>2, <2>3 DEF IInv, TypeOK
<1>5. Ready' /\ AtRest'
  <2>1. save[g] = "no"
    BY DEF Store
  <2> QED BY <1>1, <2>1 DEF IInv, TypeOK, Ready, AtRest, Nothing
<1>6. Spaced'
  <2>1. heard # None => now - heard >= ExpireFloor /\ heard <= now
    BY <1>1, Constants DEF IInv, Spaced
  <2>2. CASE UNCHANGED <<entry, heard>>
    BY <1>1, <2>1, <2>2 DEF Spaced
  <2>3. CASE found[g].ttl = TTL /\ heard' = now
             /\ entry' = [usage |-> found[g].usage, at |-> now, ttl |-> found[g].ttl]
    <3>1. entry' # None /\ entry'.at = now /\ entry'.ttl = TTL
      BY <1>3, <2>3, Constants
    <3>2. now <= now
      BY Constants DEF IInv, TypeOK
    <3> QED BY <1>1, <2>3, <3>1, <3>2 DEF Spaced
  <2>4. CASE heard' = heard
    BY <1>1, <2>1, <2>4 DEF Spaced
  <2> QED BY <1>2, <2>2, <2>3, <2>4
<1>7. Hushed' /\ Linking'
  BY <1>1 DEF IInv, Hushed, Linking
<1>8. Underhand'
  BY <1>1, <1>2 DEF IInv, TypeOK, Underhand, Own, Nothing
<1> QED BY <1>4, <1>5, <1>6, <1>7, <1>8 DEF IInv

\* The browser gives up.
LEMMA GiveUpStep == ASSUME IInv, NEW g \in Gets, GiveUp(g) PROVE IInv'
<1> USE DEF account, disk, history
<1>1. /\ UNCHANGED <<now, account, entry, leader, cooldown, last, disk, cred, found, history>>
      /\ gone' \subseteq Gets
      /\ \/ pc' = pc
         \/ pc[g] = "wait" /\ pc' = [pc EXCEPT ![g] = "idle"]
  BY DEF GiveUp, Goto, IInv, TypeOK
<1>2. TypeOK'
  <2>1. pc' \in [Gets -> {"idle", "wait", "read", "check", "calling", "store"}]
    BY <1>1 DEF IInv, TypeOK
  <2>2. \A x \in Gets : /\ pc'[x] \notin {"idle", "wait"} <=> leader' = x
                        /\ pc'[x] \in {"check", "calling"} => cred'[x] # None
    BY <1>1 DEF IInv, TypeOK
  <2> QED BY <1>1, <2>1, <2>2 DEF IInv, TypeOK
<1>3. Ready' /\ Spaced' /\ Hushed' /\ Linking' /\ AtRest' /\ Underhand'
  BY <1>1 DEF IInv, TypeOK, Ready, Spaced, Hushed, Linking, AtRest, Underhand, Own
<1> QED BY <1>2, <1>3 DEF IInv

\* The file is written, in two steps.
LEMMA SaveStep == ASSUME IInv, NEW s \in Savers, Copy(s) \/ Write(s) PROVE IInv'
<1> USE DEF account, disk, history
<1>1. /\ UNCHANGED <<now, account, entry, leader, cooldown, last, caller, history>>
      /\ save[s] # "no"
      /\ \/ /\ save' = [save EXCEPT ![s] = "write"] /\ copy' = [copy EXCEPT ![s] = last]
            /\ file' = file
         \/ /\ save' = [save EXCEPT ![s] = "no"] /\ copy' = [copy EXCEPT ![s] = None]
            /\ file' = copy[s]
  BY DEF Copy, Write
<1>2. TypeOK'
  <2>1. /\ save' \in [Savers -> {"no", "copy", "write"}] /\ copy' \in [Savers -> Numbers]
        /\ file' \in Numbers
    BY <1>1, Constants DEF IInv, TypeOK
  <2> QED BY <1>1, <2>1 DEF IInv, TypeOK, caller
<1>3. Ready' /\ Spaced' /\ Hushed'
  BY <1>1 DEF IInv, Ready, Spaced, Hushed, caller
<1>4. Linking' /\ AtRest'
  BY <1>1, Constants DEF IInv, TypeOK, Linking, AtRest, caller
<1>5. Underhand'
  BY <1>1, Constants DEF IInv, TypeOK, Underhand, Own, caller
<1> QED BY <1>2, <1>3, <1>4, <1>5 DEF IInv

-----------------------------------------------------------------------------
\* What Forget does to what the invariant says, when nobody works around it.
LEMMA Forgotten ==
    ASSUME IInv, Forget, save[Forgetter] = "no"
    PROVE  /\ /\ entry' \in Snapshots \cup {None} /\ cooldown' \in Cooldowns \cup {None}
              /\ last' \in Numbers /\ save' \in [Savers -> {"no", "copy", "write"}]
              /\ heard' \in 0..MaxNow \cup {None} /\ quiet' \in Nat /\ crossed' \in BOOLEAN
           /\ entry' = None /\ last' = None /\ heard' = None /\ quiet' = 0
           /\ save'[Forgetter] = "copy" /\ \A s \in Gets : save'[s] = save[s]
           /\ ~crossed' => /\ ~crossed /\ leader = None
                           /\ \A s \in Savers : copy[s] = None
                           /\ \A g \in Gets : cred[g] = None /\ found[g].usage = None
<1>1. crossed' = (crossed \/ Underway) /\ save' = [save EXCEPT ![Forgetter] = "copy"]
      /\ entry' = None /\ cooldown' = None /\ last' = None /\ heard' = None /\ quiet' = 0
  BY DEF Forget
<1>2. crossed' \in BOOLEAN
  <2>1. crossed \in BOOLEAN
    BY DEF IInv, TypeOK
  <2> QED BY <1>1, <2>1, Zenon
<1>3. ~crossed' => ~crossed /\ ~Underway
  BY <1>1
<1>4. ~Underway => leader = None /\ \A s \in Savers : s # Forgetter => save[s] = "no"
  BY DEF Underway
<1>5. leader = None => \A g \in Gets : cred[g] = None /\ found[g].usage = None
  <2>1. ASSUME leader = None, NEW g \in Gets PROVE pc[g] \in {"idle", "wait"}
    <3>1. leader # g
      BY <2>1, Constants
    <3> QED BY <3>1 DEF IInv, TypeOK
  <2> QED BY <2>1 DEF IInv, AtRest
<1>6. ~Underway => \A s \in Savers : copy[s] = None
  BY <1>4 DEF IInv, AtRest
<1>7. save' \in [Savers -> {"no", "copy", "write"}] /\ save'[Forgetter] = "copy"
      /\ \A s \in Gets : save'[s] = save[s]
  BY <1>1, Constants DEF IInv, TypeOK
<1> QED BY <1>1, <1>2, <1>3, <1>4, <1>5, <1>6, <1>7, Constants

\* The account's owner signs in, and clawdh hears of it; the account is removed.
LEMMA ForgetStep == ASSUME IInv, Linked \/ Delete PROVE IInv'
<1> USE DEF account, disk, caller
<1>1. /\ UNCHANGED <<now, present, login, leader, file, copy, pc, cred, found, gone>>
      /\ Forget /\ forgetting' \in {"no", "remove"} /\ save[Forgetter] = "no"
  BY DEF Linked, Delete, IInv, Linking
<1>2. TypeOK'
  BY <1>1, Forgotten DEF IInv, TypeOK
<1>3. Ready' /\ Hushed' /\ Linking' /\ Spaced'
  BY <1>1, Forgotten DEF IInv, Ready, Hushed, Linking, Spaced
<1>4. AtRest'
  BY <1>1, Forgotten, Constants DEF IInv, AtRest, Savers
<1>5. Underhand'
  BY <1>1, Forgotten DEF IInv, Underhand, Own
<1> QED BY <1>2, <1>3, <1>4, <1>5 DEF IInv

LEMMA AccountStep ==
    ASSUME IInv, Remove \/ Add \/ \E l \in Logins : SignIn(l)
    PROVE  IInv'
<1> USE DEF account, disk, history, caller
<1>1. /\ UNCHANGED <<now, entry, leader, cooldown, last, disk, caller, heard, quiet>>
      /\ forgetting' \in {"no", "linked", "remove"} /\ present' \in BOOLEAN
      /\ login' \in Numbers
  <2>1. UNCHANGED <<now, entry, leader, cooldown, last, disk, caller, heard, quiet>>
    <3>1. CASE Remove
      BY <3>1 DEF Remove
    <3>2. CASE Add
      BY <3>2 DEF Add
    <3>3. CASE \E l \in Logins : SignIn(l)
      BY <3>3 DEF SignIn
    <3> QED BY <3>1, <3>2, <3>3
  <2>2. CASE Remove
    BY <2>2 DEF Remove, IInv, TypeOK, Numbers
  <2>3. CASE Add
    BY <2>3 DEF Add, IInv, TypeOK
  <2>4. CASE \E l \in Logins : SignIn(l)
    BY <2>4, Constants DEF SignIn, IInv, TypeOK, Numbers
  <2> QED BY <2>1, <2>2, <2>3, <2>4
<1>2. crossed' \in BOOLEAN
  <2>1. crossed \in BOOLEAN
    BY DEF IInv, TypeOK
  <2>2. crossed' = crossed
        \/ crossed' = (crossed \/ Underway \/ {entry, last, file} # {None})
    BY DEF Remove, Add, SignIn
  <2> QED BY <2>1, <2>2, Zenon
<1>3. TypeOK'
  BY <1>1, <1>2 DEF IInv, TypeOK
<1>4. Ready' /\ Spaced' /\ Hushed' /\ AtRest'
  BY <1>1 DEF IInv, Ready, Spaced, Hushed, AtRest
<1>5. Linking'
  BY <1>1 DEF Remove, Add, SignIn, IInv, Linking
<1>6. Underhand'
  <2>1. CASE Add
    BY <2>1 DEF Add, IInv, Underhand, Own
  <2>2. CASE \E l \in Logins : SignIn(l)
    BY <2>2 DEF SignIn, Underhand
  <2>3. CASE Remove
    <3>1. ~crossed' => ~Underway /\ entry = None /\ last = None /\ file = None
      BY <2>3 DEF Remove
    <3>2. ~crossed' => /\ \A g \in Gets : cred[g] = None /\ found[g].usage = None
                       /\ \A s \in Savers : copy[s] = None
      BY <2>3, <3>1, Constants DEF Remove, Underway, IInv, TypeOK, AtRest
    <3> QED BY <1>1, <3>1, <3>2 DEF Underhand, Own
  <2> QED BY <2>1, <2>2, <2>3
<1> QED BY <1>3, <1>4, <1>5, <1>6 DEF IInv

\* A snapshot is dropped early; time passes.
LEMMA TimeStep == ASSUME IInv, Expire \/ Tick PROVE IInv'
<1> USE DEF account, disk, history, caller
<1>1. /\ UNCHANGED <<account, leader, cooldown, last, disk, caller, history>>
      /\ \/ now' = now /\ entry' = None /\ entry # None /\ now - entry.at >= ExpireFloor
         \/ now' = now + 1 /\ now < MaxNow /\ entry' = entry
  BY DEF Expire, Tick
<1>2. TypeOK'
  BY <1>1, Constants DEF IInv, TypeOK
<1>3. Ready' /\ Hushed' /\ Linking' /\ AtRest' /\ Underhand'
  BY <1>1 DEF IInv, Ready, Hushed, Linking, AtRest, Underhand, Own
<1>4. Spaced'
  BY <1>1, Constants DEF IInv, Spaced, TypeOK
<1> QED BY <1>2, <1>3, <1>4 DEF IInv

\* clawdh restarts with the numbers it saved.
LEMMA RestartStep == ASSUME IInv, Restart PROVE IInv'
<1> USE DEF account, disk, history, caller
<1>1. /\ UNCHANGED <<now, present, login, file>> /\ last' \in {file, None}
      /\ entry' = None /\ leader' = None /\ cooldown' = None /\ forgetting' = "no"
      /\ save' = [s \in Savers |-> "no"] /\ copy' = [s \in Savers |-> None]
      /\ pc' = [g \in Gets |-> "idle"] /\ cred' = [g \in Gets |-> None]
      /\ found' = [g \in Gets |-> Nothing] /\ gone' = {}
      /\ heard' = None /\ quiet' = 0
      /\ crossed' = (crossed \/ forgetting = "linked" \/ save[Forgetter] # "no")
  BY DEF Restart
<1>2. TypeOK'
  <2>1. found' \in [Gets -> [usage : Numbers, ttl : {0, TTL, ShortTTL}]]
    BY <1>1, Constants DEF Nothing
  <2>2. crossed' \in BOOLEAN
    <3>1. crossed \in BOOLEAN
      BY DEF IInv, TypeOK
    <3> QED BY <1>1, <3>1, Zenon
  <2>3. /\ copy' \in [Savers -> Numbers] /\ cred' \in [Gets -> Numbers] /\ last' \in Numbers
        /\ pc' \in [Gets -> {"idle", "wait", "read", "check", "calling", "store"}]
        /\ save' \in [Savers -> {"no", "copy", "write"}]
    BY <1>1, Constants DEF IInv, TypeOK
  <2>4. \A x \in Gets : /\ pc'[x] \notin {"idle", "wait"} <=> leader' = x
                        /\ pc'[x] \in {"check", "calling"} => cred'[x] # None
    BY <1>1, Constants
  <2> QED BY <1>1, <2>1, <2>2, <2>3, <2>4, Constants DEF IInv, TypeOK
<1>3. Ready' /\ Spaced' /\ Hushed' /\ Linking' /\ AtRest'
  BY <1>1, Constants DEF Ready, Spaced, Hushed, Linking, AtRest, Nothing
<1>4. Underhand'
  <2>1. ~crossed' => ~crossed /\ forgetting # "linked" /\ save[Forgetter] = "no"
    BY <1>1
  <2>2. ~crossed' => file \in Own
    BY <2>1 DEF IInv, Underhand
  <2> QED BY <1>1, <2>2 DEF Underhand, Own, Nothing
<1> QED BY <1>2, <1>3, <1>4 DEF IInv

-----------------------------------------------------------------------------
LEMMA StepInv == IInv /\ [Next]_vars => IInv'
<1> SUFFICES ASSUME IInv, [Next]_vars PROVE IInv'
  OBVIOUS
<1>1. ASSUME NEW g \in Gets, Get(g) \/ Reading(g) \/ GiveUp(g) PROVE IInv'
  BY <1>1, GetStep, ReadStep, AllowedStep, RefusedStep, StoreStep, GiveUpStep DEF Reading
<1>2. ASSUME NEW s \in Savers, Copy(s) \/ Write(s) PROVE IInv'
  BY <1>2, SaveStep
<1>3. CASE Linked \/ Delete \/ Remove \/ Add \/ \E l \in Logins : SignIn(l)
  BY <1>3, ForgetStep, AccountStep
<1>4. CASE Expire \/ Tick \/ Restart
  BY <1>4, TimeStep, RestartStep
<1>5. CASE UNCHANGED vars
  BY <1>5 DEF vars, account, disk, caller, history, IInv, TypeOK, Ready, Spaced, Hushed, Linking,
              AtRest, Underhand, Own
<1> QED BY <1>1, <1>2, <1>3, <1>4, <1>5 DEF Next

LEMMA Invariant == Spec => []IInv
<1> QED BY InitInv, StepInv, PTL DEF Spec

\* What is known of an account is about who is signed in to it, in memory, in the file and
\* after restarts, unless its Forget crossed somebody's work.
THEOREM NumbersBelong == Spec => []NumbersAreTheirs
<1>1. IInv => NumbersAreTheirs
  BY DEF IInv, Underhand, NumbersAreTheirs, Own
<1> QED BY <1>1, Invariant, PTL

\* Two calls to Anthropic whose answers are kept for TTL are at least ExpireFloor apart,
\* however often the pages ask, expire and give up (Get, Expire).
THEOREM CallsAreSpaced == Spec => CallsSpaced
<1>1. ASSUME IInv, NEW g \in Gets, Calls(g), heard # None PROVE now - heard >= ExpireFloor
  <2>1. leader = g
    BY <1>1 DEF Calls, IInv, TypeOK
  <2> QED BY <1>1, <2>1, Constants DEF IInv, Spaced
<1>2. IInv => [\A g \in Gets : Calls(g) /\ heard # None => now - heard >= ExpireFloor]_pc
  BY <1>1
<1> QED BY <1>2, Invariant, PTL DEF CallsSpaced

\* Nobody is asked while a refusal is waited out, whoever expires what (Expire, waiting).
THEOREM RefusalsAreHonoured == Spec => RefusalHonoured
<1>1. ASSUME IInv, [Next]_vars, NEW g \in Gets, Calls(g) PROVE now >= quiet
  <2>1. pc[g] = "check" /\ pc'[g] = "calling"
    BY <1>1 DEF Calls
  <2>2. ~Waiting
    <3>1. ASSUME NEW x \in Gets, Get(x) \/ Reading(x) \/ GiveUp(x) PROVE ~Waiting
      <4>1. ~(Get(x) \/ ReadCredentials(x) \/ Allowed(x) \/ Refused(x) \/ CallFails(x) \/ Store(x)
              \/ GiveUp(x))
        BY <1>1, <2>1 DEF IInv, TypeOK, Get, ReadCredentials, Allowed, Refused, CallFails, Store,
                          GiveUp, Goto, Find
      <4>2. Check(x)
        BY <3>1, <4>1 DEF Reading
      <4> QED BY <1>1, <2>1, <4>2 DEF Check, Goto, Find, IInv, TypeOK
    <3>2. CASE UNCHANGED pc
      BY <2>1, <3>2
    <3>3. CASE Restart
      BY <2>1, <3>3 DEF Restart
    <3> QED BY <1>1, <3>1, <3>2, <3>3
            DEF Next, vars, caller, Copy, Write, SignIn, Linked, Delete, Remove, Add, Expire, Tick
  <2>3. cooldown # None => cooldown.until \in Nat
    BY <1>1 DEF IInv, TypeOK, Cooldowns
  <2>4. now \in Nat /\ quiet \in Nat
    BY <1>1, Constants DEF IInv, TypeOK
  <2> QED BY <1>1, <2>2, <2>3, <2>4 DEF IInv, Hushed, Waiting
<1>2. IInv /\ [Next]_vars => [\A g \in Gets : Calls(g) => now >= quiet]_pc
  BY <1>1
<1> QED BY <1>2, Invariant, PTL DEF Spec, RefusalHonoured
-----------------------------------------------------------------------------
(* Those who wait have somebody to wait for.                               *)

Accompanied == \A g \in Gets : pc[g] = "wait" => leader # None

LEMMA AccompaniedStep == IInv /\ Accompanied /\ [Next]_vars => Accompanied'
<1> SUFFICES ASSUME IInv, Accompanied, [Next]_vars PROVE Accompanied'
  OBVIOUS
<1> USE DEF account, disk, caller, history
<1>1. ASSUME NEW g \in Gets, Get(g) PROVE Accompanied'
  BY <1>1, Constants DEF Get, Goto, IInv, TypeOK, Accompanied
<1>2. ASSUME NEW g \in Gets,
             ReadCredentials(g) \/ Check(g) \/ Allowed(g) \/ Refused(g) \/ CallFails(g)
      PROVE  Accompanied'
  <2>1. leader' = leader
    BY <1>2 DEF ReadCredentials, Check, Allowed, Refused, CallFails
  <2>2. PICK step \in {"check", "calling", "store"} : pc' = [pc EXCEPT ![g] = step]
    BY <1>2 DEF ReadCredentials, Check, Allowed, Refused, CallFails, Find, Goto
  <2> QED BY <2>1, <2>2 DEF IInv, TypeOK, Accompanied
<1>3. ASSUME NEW g \in Gets, Store(g) PROVE Accompanied'
  BY <1>3 DEF Store, Accompanied
<1>4. ASSUME NEW g \in Gets, GiveUp(g) PROVE Accompanied'
  BY <1>4 DEF GiveUp, Goto, IInv, TypeOK, Accompanied
<1>5. CASE Restart
  BY <1>5 DEF Restart, Accompanied
<1>6. CASE \/ \E s \in Savers : Copy(s) \/ Write(s)
           \/ \E l \in Logins : SignIn(l)
           \/ Linked \/ Delete \/ Remove \/ Add \/ Expire \/ Tick \/ UNCHANGED vars
  <2>1. UNCHANGED <<pc, leader>>
    BY <1>6 DEF Copy, Write, SignIn, Linked, Delete, Remove, Add, Expire, Tick, vars
  <2> QED BY <2>1 DEF Accompanied
<1> QED BY <1>1, <1>2, <1>3, <1>4, <1>5, <1>6 DEF Next, Reading

\* One request reads for everybody, and whoever waits, waits for that one, still at it.
EachWaitIsForTheReader ==
    \A g \in Gets : pc[g] = "wait" =>
        \E x \in Gets : /\ leader = x /\ x # g
                        /\ pc[x] \in {"read", "check", "calling", "store"}
                        /\ \A y \in Gets : pc[y] \notin {"idle", "wait"} => y = x

\* No browser giving up, no Forget and no Expire leaves behind those that share another's
\* read (Get). What is left of GetReturns is that the reader goes on.
THEOREM WaitingHasItsReader == Spec => []EachWaitIsForTheReader
<1>1. Init => Accompanied
  BY DEF Init, Accompanied
<1>2. IInv /\ Accompanied => EachWaitIsForTheReader
  <2> SUFFICES ASSUME IInv, Accompanied, NEW g \in Gets, pc[g] = "wait"
               PROVE  \E x \in Gets : /\ leader = x /\ x # g
                                      /\ pc[x] \in {"read", "check", "calling", "store"}
                                      /\ \A y \in Gets : pc[y] \notin {"idle", "wait"} => y = x
    BY DEF EachWaitIsForTheReader
  <2>1. leader \in Gets
    BY DEF Accompanied, IInv, TypeOK
  <2>2. pc[leader] \in {"read", "check", "calling", "store"} /\ leader # g
    BY <2>1 DEF IInv, TypeOK
  <2>3. \A y \in Gets : pc[y] \notin {"idle", "wait"} => y = leader
    BY DEF IInv, TypeOK
  <2> QED BY <2>1, <2>2, <2>3
<1> QED BY <1>1, <1>2, AccompaniedStep, Invariant, PTL DEF Spec

\* "numbers that outlived that would come back under an account they were never about"
\* (Forget): they cannot, as long as no Forget crossed a read, a write of the file or a
\* restart. When one does, they can (UsageServiceForgotten.cfg).
THEOREM ForgottenUnlessCrossed ==
    Spec => [][~crossed' /\ last' \notin {last, None} =>
                 last' = login \/ forgetting = "linked"]_last
<1>1. ASSUME IInv, IInv', [Next]_vars, ~crossed', last' \notin {last, None}
      PROVE  last' = login \/ forgetting = "linked"
  <2>1. (\E g \in Gets : Allowed(g)) \/ Linked \/ Delete \/ Restart
    BY <1>1 DEF Next, vars, account, disk, caller, history, Get, Reading, ReadCredentials, Check,
       Refused, CallFails, Store, GiveUp, Copy, Write, SignIn, Remove, Add, Expire, Tick
  <2>2. CASE forgetting' # "linked"
    <3>1. last' \in {login', None}
      BY <1>1, <2>2 DEF IInv, Underhand, Own
    <3> QED BY <1>1, <2>1, <3>1 DEF Allowed, Linked, Delete, Restart, account
  <2>3. CASE forgetting' = "linked"
    BY <2>1, <2>3 DEF Allowed, Linked, Delete, Restart, account
  <2> QED BY <2>2, <2>3
<1>2. IInv /\ IInv' /\ [Next]_vars
      => [~crossed' /\ last' \notin {last, None} => last' = login \/ forgetting = "linked"]_last
  BY <1>1
<1> QED BY <1>2, Invariant, PTL DEF Spec
=============================================================================
