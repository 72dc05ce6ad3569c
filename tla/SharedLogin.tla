---------------------------- MODULE SharedLogin ----------------------------
(***************************************************************************)
(* One shared Claude login as the gateway keeps it alive.                  *)
(*                                                                         *)
(* A sign-in is a chain of credentials: each refresh spends the refresh    *)
(* token of the newest credential and issues the next one, and only the    *)
(* newest works.  A credential is <<sign-in, generation>>; expiry[f][g] is *)
(* when the access token of generation g of sign-in f dies, so             *)
(* Len(expiry[f]) is the newest generation and 0 means nobody signed in.   *)
(*                                                                         *)
(* Around the chain stand the actors of the code:                          *)
(*   - requests of members and of the usage poller, which take the account *)
(*     from the gateway's snapshot of the panel, open the account's token  *)
(*     manager and ask it for a token (get) or, after a 401, for another   *)
(*     one (Renew);                                                        *)
(*   - the background re-read of the snapshot (flight) and the background  *)
(*     writer that stores rotations (queue, flushing);                     *)
(*   - the panel database row (db), which other processes change: the      *)
(*     panel when a member's machine contributes a sign-in or the account  *)
(*     is removed, and `clawdh-server diagnose`;                           *)
(*   - the token service, the machine that signed in, stops and crashes.   *)
(***************************************************************************)
EXTENDS Integers, Sequences

CONSTANTS
    Members,       \* requests of members being served at once
    Pollers,       \* the usage poller (none, or its one round)
    Managers,      \* identities for the token managers alive at once
    LastSignIn,    \* bound: sign-ins of the account, numbered as they happen
    Lifetime,      \* how long an access token lasts
    RefreshLead,   \* how long before its expiry a token counts as stale
    MaxNow,        \* bound: the clock stops here
    Events,        \* bound: what else may happen around the gateway
    None,          \* no manager, no credential, no request
    Gone           \* the account is not on the panel

Requests == Members \cup Pollers
SignIns  == 1..LastSignIn

ASSUME ConstantsAssumption ==
    /\ Members \cap Pollers = {}
    /\ \A p, q \in Pollers : p = q
    /\ LastSignIn \in Nat /\ LastSignIn > 0
    /\ Lifetime \in Nat /\ RefreshLead \in Nat /\ RefreshLead < Lifetime
    /\ MaxNow \in Nat
    /\ Events \subseteq {"failure", "firstParty", "end", "remove", "diagnose", "stop", "crash"}
    /\ None \notin Requests \cup Managers \cup (SignIns \X Nat)
    /\ Gone \notin [cred : SignIns \X Nat, end : SignIns]

VARIABLES
    now,       \* the clock; each answer of the token service takes a tick
    expiry,    \* [SignIns -> Seq(Nat)]: the credentials issued so far
    ended,     \* sign-ins whose four weeks are over: refresh is refused
    machine,   \* [SignIns -> Nat]: the generation the signing-in machine holds
    db,        \* the account's row, [cred, end], or Gone
    snap,      \* the same as the gateway last read it
    young,     \* that read was less than freshReadEvery ago
    backingOff,\* the last read failed and retryAt has not passed
    flight,    \* the re-read in progress, [st, data]
    current,   \* u.managers[account]
    cred,      \* [Managers -> credential]: m.cred
    holder,    \* [Managers -> request holding m.mu]
    queue,     \* w.creds[account]: the rotation not yet stored
    flushing,  \* the copy the running flush is storing
    endedLogin,\* u.endedLogins[account]
    stopping,  \* SIGTERM was received
    pc, op, mgr, tok, \* of each request: its step, call, manager, and its token,
               \* the refused one in Renew, or the one in the service's reply
    view,      \* ... the account it resolved
    read,      \* ... what the re-read it waited on found
    diag,      \* `clawdh-server diagnose`, [st, cred]
    lost       \* history: sign-ins whose newest token was lost, or is used elsewhere

tokenService == <<now, expiry, ended>>
upstream     == <<snap, young, backingOff, flight>>
managers     == <<current, cred, holder>>
writer       == <<queue, flushing>>
requests     == <<pc, op, mgr, tok, view, read>>
process      == <<upstream, managers, writer, endedLogin, stopping, requests>>
vars == <<tokenService, machine, db, process, diag, lost>>

Newest(f)   == <<f, Len(expiry[f])>>
IsNewest(c) == c = Newest(c[1])
Exp(c)      == expiry[c[1]][c[2]]
SignedIn    == {f \in SignIns : expiry[f] # <<>>}

\* Credential.stale and Credential.newerThan.
Stale(c)        == now >= Exp(c) - RefreshLead
NewerThan(c, o) == Exp(c) > Exp(o)

\* The token service issues the next credential of a chain.
Issue(f) ==
    /\ now < MaxNow
    /\ now' = now + 1
    /\ expiry' = [expiry EXCEPT ![f] = Append(@, now' + Lifetime)]
    /\ UNCHANGED ended

\* refresh is answered with a new credential, or refused.
Refreshable(c) == IsNewest(c) /\ c[1] \notin ended

-----------------------------------------------------------------------------
(* The panel state the gateway serves from.                                *)

StartFlight == flight.st = "none" /\ flight' = [st |-> "reading", data |-> Gone]

\* snapshot: serve what was read, starting a re-read if it is old enough.
Snapshot == \/ ~young /\ ~backingOff /\ StartFlight
            \/ UNCHANGED flight

\* store.Load in the flight's goroutine.
FlightLoad ==
    /\ flight.st = "reading"
    /\ flight' = [st |-> "read", data |-> db]
    /\ UNCHANGED <<tokenService, machine, db, snap, young, backingOff, managers,
                   writer, endedLogin, stopping, requests, diag, lost>>

\* noteLoadLocked after a successful read, and every request waiting on it.
FlightLand ==
    /\ flight.st = "read"
    /\ snap' = flight.data
    /\ young' = TRUE
    /\ backingOff' = FALSE
    /\ flight' = [st |-> "none", data |-> Gone]
    /\ pc' = [r \in Requests |-> IF pc[r] = "wait" THEN "adopt" ELSE pc[r]]
    /\ read' = [r \in Requests |-> IF pc[r] = "wait" THEN flight.data ELSE read[r]]
    /\ UNCHANGED <<tokenService, machine, db, managers, writer, endedLogin, stopping,
                   op, mgr, tok, view, diag, lost>>

\* noteLoadLocked after a failed read: the waiters fall back to the snapshot.
FlightFail ==
    /\ "failure" \in Events
    /\ flight.st = "reading"
    /\ backingOff' = TRUE
    /\ flight' = [st |-> "none", data |-> Gone]
    /\ pc' = [r \in Requests |-> IF pc[r] = "wait" THEN "current" ELSE pc[r]]
    /\ UNCHANGED <<tokenService, machine, db, snap, young, managers, writer, endedLogin,
                   stopping, op, mgr, tok, view, read, diag, lost>>

\* freshReadEvery, or the backoff, passes.
ReadAges ==
    /\ young \/ backingOff
    /\ \/ young' = FALSE /\ UNCHANGED backingOff
       \/ backingOff' = FALSE /\ UNCHANGED young
    /\ UNCHANGED <<tokenService, machine, db, snap, flight, managers, writer, endedLogin,
                   stopping, requests, diag, lost>>

-----------------------------------------------------------------------------
(* A request: Resolve, the manager's get and Renew, and the forwarding.    *)

Goto(r, step) == pc' = [pc EXCEPT ![r] = step]

\* A request that is over remembers nothing.
Finish(r) ==
    /\ Goto(r, "idle")
    /\ op' = [op EXCEPT ![r] = "token"]
    /\ mgr' = [mgr EXCEPT ![r] = None]
    /\ tok' = [tok EXCEPT ![r] = None]
    /\ view' = [view EXCEPT ![r] = Gone]
    /\ UNCHANGED read

\* Mutant: the poller does not remember the login it found ended.
ResolveAgain(r) ==
    /\ pc[r] = "idle" /\ ~stopping
    /\ Snapshot
    /\ IF snap = Gone
       THEN UNCHANGED <<pc, view>>
       ELSE Goto(r, "open") /\ view' = [view EXCEPT ![r] = snap]
    /\ UNCHANGED <<tokenService, machine, db, snap, young, backingOff, managers, writer,
                   endedLogin, stopping, op, mgr, tok, read, diag, lost>>

\* Resolve up to managerFor, and pollUsageOnce up to pollAccountUsage: the
\* poller skips a login it found ended.
Resolve(r) ==
    /\ pc[r] = "idle" /\ ~stopping
    /\ Snapshot
    /\ IF snap = Gone \/ (r \in Pollers /\ snap.cred = endedLogin)
       THEN UNCHANGED <<pc, view>>
       ELSE Goto(r, "open") /\ view' = [view EXCEPT ![r] = snap]
    /\ UNCHANGED <<tokenService, machine, db, snap, young, backingOff, managers, writer,
                   endedLogin, stopping, op, mgr, tok, read, diag, lost>>

\* managerFor: the account's manager, built from the account as it was read.
ManagerFor(r) ==
    /\ pc[r] = "open"
    /\ IF current # None
       THEN /\ mgr' = [mgr EXCEPT ![r] = current]
            /\ UNCHANGED managers
       ELSE \E m \in Managers :
            /\ \A q \in Requests : mgr[q] # m
            /\ current' = m
            /\ cred' = [cred EXCEPT ![m] = view[r].cred]
            /\ mgr' = [mgr EXCEPT ![r] = m]
            /\ UNCHANGED holder
    /\ view' = IF r \in Pollers THEN view ELSE [view EXCEPT ![r] = Gone]
    /\ Goto(r, "lock")
    /\ UNCHANGED <<tokenService, machine, db, upstream, writer, endedLogin, stopping,
                   op, tok, read, diag, lost>>

\* The managers nobody holds any more are garbage: c is the table before that.
Keep(c) == cred' = [m \in Managers |->
    IF m = current' \/ \E r \in Requests : mgr'[r] = m THEN c[m] ELSE <<1, 1>>]

\* A call answers with token t and releases the manager; c is the table it leaves.
Answer(r, t, c) ==
    /\ tok' = [tok EXCEPT ![r] = t]
    /\ mgr' = [mgr EXCEPT ![r] = None]
    /\ holder' = [holder EXCEPT ![mgr[r]] = None]
    /\ Goto(r, "forward")
    /\ current' = current
    /\ Keep(c)

\* get and Renew take m.mu, and answer at once when there is nothing to do.
\* Otherwise they reload: freshRead joins or starts a read of the panel, or gives
\* up at once when the last one was moments ago or the database is failing.
Lock(r) ==
    /\ pc[r] = "lock" /\ holder[mgr[r]] = None
    /\ IF \/ op[r] = "token" /\ ~Stale(cred[mgr[r]])
          \/ op[r] = "renew" /\ cred[mgr[r]] # tok[r]
       THEN Answer(r, cred[mgr[r]], cred) /\ UNCHANGED flight
       ELSE /\ holder' = [holder EXCEPT ![mgr[r]] = r]
            /\ IF flight.st = "none" /\ (young \/ backingOff)
               THEN Goto(r, "current") /\ UNCHANGED flight
               ELSE /\ Goto(r, "wait")
                    /\ IF flight.st = "none" THEN StartFlight ELSE UNCHANGED flight
            /\ UNCHANGED <<tok, mgr, cred>>
    /\ UNCHANGED <<tokenService, machine, db, snap, young, backingOff, current, writer,
                   endedLogin, stopping, op, view, read, diag, lost>>

\* freshReadWait passes before the read answers.
ReadTimeout(r) ==
    /\ "failure" \in Events
    /\ pc[r] = "wait"
    /\ Goto(r, "current")
    /\ UNCHANGED <<tokenService, machine, db, upstream, managers, writer, endedLogin,
                   stopping, op, mgr, tok, view, read, diag, lost>>

\* Mutant: adopting a stored credential because it differs.
AdoptsAnyOther(r, c, d) ==
    /\ d # Gone
    /\ d.cred # c
    /\ op[r] = "renew" => d.cred # tok[r]

\* The stored credential d replaces the manager's c if it is newer; for Renew it
\* must also not be the refused one.
Adopts(r, c, d) ==
    /\ d # Gone
    /\ NewerThan(d.cred, c)
    /\ op[r] = "renew" => d.cred # tok[r]

\* After the reload: get still needs a token that is not stale.
Adopt(r) ==
    /\ pc[r] \in {"adopt", "current"}
    /\ LET m == mgr[r]
           d == IF pc[r] = "adopt" THEN read[r] ELSE snap
           adopts == Adopts(r, cred[m], d)
           c == IF adopts THEN d.cred ELSE cred[m]
       IN IF adopts /\ (op[r] = "token" => ~Stale(c))
          THEN Answer(r, c, [cred EXCEPT ![m] = c])
          ELSE /\ cred' = [cred EXCEPT ![m] = c]
               /\ Goto(r, "refresh")
               /\ UNCHANGED <<tok, mgr, current, holder>>
    /\ read' = [read EXCEPT ![r] = Gone]
    /\ UNCHANGED <<tokenService, machine, db, upstream, writer, endedLogin,
                   stopping, op, view, diag, lost>>

\* The token service grants the refresh; the new credential is in its reply.
RefreshGranted(r) ==
    /\ pc[r] = "refresh"
    /\ LET c == cred[mgr[r]]
       IN Refreshable(c) /\ Issue(c[1]) /\ tok' = [tok EXCEPT ![r] = <<c[1], c[2] + 1>>]
    /\ Goto(r, "reply")
    /\ UNCHANGED <<machine, db, upstream, managers, writer, endedLogin, stopping,
                   op, mgr, view, read, diag, lost>>

\* The reply arrives: m.cred, then onRefresh queues it for the writer.
RefreshDone(r) ==
    /\ pc[r] = "reply"
    /\ queue' = tok[r]
    /\ Answer(r, tok[r], [cred EXCEPT ![mgr[r]] = tok[r]])
    /\ UNCHANGED <<tokenService, machine, db, upstream, flushing, endedLogin,
                   stopping, op, view, read, diag, lost>>

\* Mutant: get falls back without looking at the clock.
RefreshFailsOntoAnyToken(r, expired) ==
    LET c == cred[mgr[r]]
        poll == r \in Pollers
    IN IF op[r] = "token"
       THEN Answer(r, c, cred) /\ UNCHANGED <<op, view, read, endedLogin>>
       ELSE /\ holder' = [holder EXCEPT ![mgr[r]] = None]
            /\ endedLogin' = IF poll /\ expired THEN view[r].cred ELSE endedLogin
            /\ Goto(r, "forget")
            /\ mgr' = [mgr EXCEPT ![r] = None]
            /\ UNCHANGED <<op, tok, view, read>>
            /\ current' = current
            /\ Keep(cred)

\* Mutant: a failed refresh returns with the manager still locked.
RefreshFailsLocked(r, expired) ==
    LET c == cred[mgr[r]]
    IN IF op[r] = "token" /\ now < Exp(c)
       THEN Answer(r, c, cred) /\ UNCHANGED <<op, view, read, endedLogin>>
       ELSE /\ Goto(r, "forget")
            /\ mgr' = [mgr EXCEPT ![r] = None]
            /\ UNCHANGED <<op, tok, view, read, holder, endedLogin>>
            /\ current' = current
            /\ Keep(cred)

\* After a failed refresh get falls back to a token that has not died yet.
\* Otherwise Resolve and Renew go on to forget the account's manager; the poller
\* does so only for a sign-in that ended, and remembers which login that was.
RefreshFails(r, expired) ==
    LET c == cred[mgr[r]]
        poll == r \in Pollers
    IN IF op[r] = "token" /\ now < Exp(c)
       THEN Answer(r, c, cred) /\ UNCHANGED <<op, view, read, endedLogin>>
       ELSE /\ holder' = [holder EXCEPT ![mgr[r]] = None]
            /\ endedLogin' = IF poll /\ expired THEN view[r].cred ELSE endedLogin
            /\ IF poll /\ op[r] = "token" /\ ~expired
               THEN Finish(r)
               ELSE /\ Goto(r, "forget")
                    /\ mgr' = [mgr EXCEPT ![r] = None]
                    /\ UNCHANGED <<op, tok, view, read>>
            /\ current' = current
            /\ Keep(cred)

\* The token service refuses: already used, or the sign-in has ended.
RefreshRefused(r) ==
    /\ pc[r] = "refresh"
    /\ LET c == cred[mgr[r]] IN ~Refreshable(c) /\ RefreshFails(r, c[1] \in ended)
    /\ UNCHANGED <<tokenService, machine, db, upstream, writer, stopping, diag, lost>>

\* The call dies on the way, before the service saw it or with the reply: the
\* network, the 30s timeout, or the poller's context cancelled by a stop.
RefreshCut(r) ==
    /\ "failure" \in Events
    /\ pc[r] \in {"refresh", "reply"}
    /\ RefreshFails(r, FALSE)
    /\ lost' = IF pc[r] = "reply" THEN lost \cup {cred[mgr[r]][1]} ELSE lost
    /\ UNCHANGED <<tokenService, machine, db, upstream, writer, stopping, diag>>

\* forget, whichever manager the account has by now.
Forget(r) ==
    /\ pc[r] = "forget"
    /\ current' = None
    /\ Finish(r)
    /\ Keep(cred)
    /\ UNCHANGED <<tokenService, machine, db, upstream, holder, writer, endedLogin,
                   stopping, diag, lost>>

\* Mutant: Renew without its check that a manager is open.
ForwardUnopened(r) ==
    /\ pc[r] = "forward"
    /\ IF (IsNewest(tok[r]) /\ now < Exp(tok[r])) \/ op[r] = "renew"
       THEN Finish(r)
       ELSE /\ op' = [op EXCEPT ![r] = "renew"]
            /\ mgr' = [mgr EXCEPT ![r] = current]
            /\ Goto(r, "lock")
            /\ UNCHANGED <<tok, view, read>>
    /\ UNCHANGED <<tokenService, machine, db, upstream, managers, writer, endedLogin,
                   stopping, diag, lost>>

\* Anthropic takes the token, or refuses it: rotated away, or past its expiry.
\* A refused token is renewed once, by the manager the account has now.
Forward(r) ==
    /\ pc[r] = "forward"
    /\ IF (IsNewest(tok[r]) /\ now < Exp(tok[r])) \/ op[r] = "renew" \/ current = None
       THEN Finish(r)
       ELSE /\ op' = [op EXCEPT ![r] = "renew"]
            /\ mgr' = [mgr EXCEPT ![r] = current]
            /\ Goto(r, "lock")
            /\ UNCHANGED <<tok, view, read>>
    /\ UNCHANGED <<tokenService, machine, db, upstream, managers, writer, endedLogin,
                   stopping, diag, lost>>

-----------------------------------------------------------------------------
(* The background writer.                                                  *)

\* Mutant: storeCredential without its newer-than check.
StoreCredentialBlindly(c) ==
    db' = IF db = Gone THEN db ELSE [db EXCEPT !.cred = c]

\* storeCredential, inside the store's Mutate: never over a newer credential.
\* updateCredential keeps the date the stored sign-in ends.
StoreCredential(c) ==
    db' = IF db = Gone \/ NewerThan(db.cred, c) THEN db ELSE [db EXCEPT !.cred = c]

\* Mutant: flush takes the rotation off the queue before it is stored.
FlushTake ==
    /\ flushing = None /\ queue # None
    /\ flushing' = queue
    /\ queue' = None
    /\ UNCHANGED <<tokenService, machine, db, upstream, managers, endedLogin, stopping,
                   requests, diag, lost>>

\* flush copies the queue: a round of the writer, or drain.
FlushStart ==
    /\ flushing = None /\ queue # None
    /\ flushing' = queue
    /\ UNCHANGED <<tokenService, machine, db, upstream, managers, queue, endedLogin,
                   stopping, requests, diag, lost>>

\* The copy is stored, and leaves the queue unless a newer rotation replaced it.
FlushStore ==
    /\ flushing # None
    /\ StoreCredential(flushing)
    /\ queue' = IF queue = flushing THEN None ELSE queue
    /\ flushing' = None
    /\ UNCHANGED <<tokenService, machine, upstream, managers, endedLogin, stopping,
                   requests, diag, lost>>

\* The write fails, or its answer is lost after it was made: everything stays queued.
FlushFail ==
    /\ "failure" \in Events
    /\ flushing # None
    /\ UNCHANGED db \/ StoreCredential(flushing)
    /\ flushing' = None
    /\ UNCHANGED <<tokenService, machine, upstream, managers, queue, endedLogin,
                   stopping, requests, diag, lost>>

-----------------------------------------------------------------------------
(* The rest of the world.                                                  *)

Tick ==
    /\ now < MaxNow
    /\ now' = now + 1
    /\ UNCHANGED <<expiry, ended, machine, db, process, diag, lost>>

\* Someone signs in to the account in a browser on their machine.
SignIn(f) ==
    /\ f \notin SignedIn
    /\ \A e \in SignIns : e < f => e \in SignedIn
    /\ Issue(f)
    /\ machine' = [machine EXCEPT ![f] = 1]
    /\ UNCHANGED <<db, process, diag, lost>>

\* Claude Code on that machine refreshes the sign-in it holds.
FirstParty(f) ==
    /\ "firstParty" \in Events
    /\ f \in SignedIn \ ended /\ machine[f] = Len(expiry[f])
    /\ Issue(f)
    /\ machine' = [machine EXCEPT ![f] = @ + 1]
    /\ lost' = IF db # Gone /\ db.cred[1] = f THEN lost \cup {f} ELSE lost
    /\ UNCHANGED <<db, process, diag>>

\* The four weeks of a sign-in are over.
SignInEnds(f) ==
    /\ "end" \in Events
    /\ f \in SignedIn \ ended
    /\ ended' = ended \cup {f}
    /\ UNCHANGED <<now, expiry, machine, db, process, diag, lost>>

\* Mutant: a contribution taken before its machine has the sign-in.
ContributeUnsigned(f) ==
    /\ db # Gone
    /\ f > db.end
    /\ db' = [cred |-> <<f, machine[f]>>, end |-> f]
    /\ UNCHANGED <<tokenService, machine, process, diag, lost>>

\* handleContribute for a login the panel holds: only a newer sign-in replaces it.
Contribute(f) ==
    /\ f \in SignedIn /\ db # Gone
    /\ f > db.end
    /\ db' = [cred |-> <<f, machine[f]>>, end |-> f]
    /\ UNCHANGED <<tokenService, machine, process, diag, lost>>

\* The account is taken off the panel.
RemoveAccount ==
    /\ "remove" \in Events
    /\ db # Gone
    /\ db' = Gone
    /\ UNCHANGED <<tokenService, machine, process, diag, lost>>

\* runDiagnose: reads the row, refreshes it, stores what it got.
DiagnoseRead ==
    /\ "diagnose" \in Events
    /\ diag.st = "idle" /\ db # Gone
    /\ diag' = [st |-> "refresh", cred |-> db.cred]
    /\ UNCHANGED <<tokenService, machine, db, process, lost>>

DiagnoseRefresh ==
    /\ diag.st = "refresh"
    /\ IF Refreshable(diag.cred)
       THEN /\ Issue(diag.cred[1])
            /\ diag' = [st |-> "store", cred |-> <<diag.cred[1], diag.cred[2] + 1>>]
       ELSE /\ diag' = [st |-> "idle", cred |-> None]
            /\ UNCHANGED tokenService
    /\ UNCHANGED <<machine, db, process, lost>>

DiagnoseStore ==
    /\ diag.st = "store"
    /\ StoreCredential(diag.cred)
    /\ diag' = [st |-> "idle", cred |-> None]
    /\ UNCHANGED <<tokenService, machine, process, lost>>

\* It dies, or the database fails it, before the new credential is stored.
DiagnoseCut ==
    /\ "failure" \in Events
    /\ diag.st # "idle"
    /\ diag' = [st |-> "idle", cred |-> None]
    /\ lost' = IF diag.st = "store" THEN lost \cup {diag.cred[1]} ELSE lost
    /\ UNCHANGED <<tokenService, machine, db, process>>

\* SIGTERM: no new requests, and the poller's context is cancelled.
Stop ==
    /\ "stop" \in Events
    /\ ~stopping
    /\ stopping' = TRUE
    /\ UNCHANGED <<tokenService, machine, db, upstream, managers, writer, endedLogin,
                   requests, diag, lost>>

\* A new process reads the panel once (newUpstream) and starts empty.
Restarted ==
    /\ snap' = db /\ young' = TRUE /\ backingOff' = FALSE
    /\ flight' = [st |-> "none", data |-> Gone]
    /\ current' = None /\ cred' = [m \in Managers |-> <<1, 1>>]
    /\ holder' = [m \in Managers |-> None]
    /\ queue' = None /\ flushing' = None /\ endedLogin' = None /\ stopping' = FALSE
    /\ pc' = [r \in Requests |-> "idle"] /\ op' = [r \in Requests |-> "token"]
    /\ mgr' = [r \in Requests |-> None] /\ tok' = [r \in Requests |-> None]
    /\ view' = [r \in Requests |-> Gone] /\ read' = [r \in Requests |-> Gone]

\* What the process dies with: rotations the database does not have yet.
Replying(S) == {tok[r] : r \in {q \in S : pc[q] = "reply"}}
Unstored    == ({queue, flushing} \ {None}) \cup Replying(Requests)
SignInsOf(C) == {c[1] : c \in C}

\* Mutant: a stop that does not drain the writer.
ExitUndrained ==
    /\ stopping
    /\ \A r \in Members : pc[r] = "idle"
    /\ Restarted
    /\ lost' = lost \cup SignInsOf(Replying(Pollers))
    /\ UNCHANGED <<tokenService, machine, db, diag>>

\* Shutdown waited for the members' requests and drain emptied the queue; nobody
\* waits for the poller.
Exit ==
    /\ stopping /\ queue = None /\ flushing = None
    /\ \A r \in Members : pc[r] = "idle"
    /\ Restarted
    /\ lost' = lost \cup SignInsOf(Replying(Pollers))
    /\ UNCHANGED <<tokenService, machine, db, diag>>

\* Killed, or out of time to drain.
Crash ==
    /\ "crash" \in Events
    /\ Restarted
    /\ lost' = lost \cup SignInsOf(Unstored)
    /\ UNCHANGED <<tokenService, machine, db, diag>>

-----------------------------------------------------------------------------
Init ==
    /\ now = 0
    /\ expiry = [f \in SignIns |-> IF f = 1 THEN <<Lifetime>> ELSE <<>>]
    /\ ended = {}
    /\ machine = [f \in SignIns |-> IF f = 1 THEN 1 ELSE 0]
    /\ db = [cred |-> <<1, 1>>, end |-> 1]
    /\ snap = db /\ young = TRUE /\ backingOff = FALSE
    /\ flight = [st |-> "none", data |-> Gone]
    /\ current = None /\ cred = [m \in Managers |-> <<1, 1>>]
    /\ holder = [m \in Managers |-> None]
    /\ queue = None /\ flushing = None /\ endedLogin = None /\ stopping = FALSE
    /\ pc = [r \in Requests |-> "idle"] /\ op = [r \in Requests |-> "token"]
    /\ mgr = [r \in Requests |-> None] /\ tok = [r \in Requests |-> None]
    /\ view = [r \in Requests |-> Gone] /\ read = [r \in Requests |-> Gone]
    /\ diag = [st |-> "idle", cred |-> None]
    /\ lost = {}

Request(r) ==
    \/ ManagerFor(r) \/ Lock(r) \/ ReadTimeout(r) \/ Adopt(r)
    \/ RefreshGranted(r) \/ RefreshDone(r) \/ RefreshRefused(r)
    \/ RefreshCut(r) \/ Forget(r) \/ Forward(r)

Next ==
    \/ \E r \in Requests : Resolve(r) \/ Request(r)
    \/ FlightLoad \/ FlightLand \/ FlightFail \/ ReadAges
    \/ FlushStart \/ FlushStore \/ FlushFail
    \/ Tick \/ \E f \in SignIns : SignIn(f) \/ FirstParty(f) \/ SignInEnds(f) \/ Contribute(f)
    \/ RemoveAccount
    \/ DiagnoseRead \/ DiagnoseRefresh \/ DiagnoseStore \/ DiagnoseCut
    \/ Stop \/ Exit \/ Crash

Spec == Init /\ [][Next]_vars

\* Goroutines run, a call to the token service answers or times out, and Go's
\* mutex serves whoever waited longest; the panel answers reads or fails them,
\* and does not fail a write that is retried for ever.  Nothing forces a request
\* to arrive, the clock, the machine or an admin.
Fairness ==
    /\ \A r \in Requests : WF_vars(Request(r)) /\ SF_vars(Lock(r))
    /\ WF_vars(FlightLoad \/ FlightFail) /\ WF_vars(FlightLand)
    /\ WF_vars(FlushStart) /\ SF_vars(FlushStore)

FairSpec == Spec /\ Fairness

-----------------------------------------------------------------------------
Credential == SignIns \X (Nat \ {0})
Account    == [cred : Credential, end : SignIns]

TypeOK ==
    /\ now \in Nat
    /\ expiry \in [SignIns -> Seq(Nat)]
    /\ ended \subseteq SignIns /\ lost \subseteq SignIns
    /\ machine \in [SignIns -> Nat]
    /\ db \in Account \cup {Gone} /\ snap \in Account \cup {Gone}
    /\ young \in BOOLEAN /\ backingOff \in BOOLEAN /\ stopping \in BOOLEAN
    /\ flight \in [st : {"none", "reading", "read"}, data : Account \cup {Gone}]
    /\ current \in Managers \cup {None}
    /\ cred \in [Managers -> Credential]
    /\ holder \in [Managers -> Requests \cup {None}]
    /\ queue \in Credential \cup {None} /\ flushing \in Credential \cup {None}
    /\ endedLogin \in Credential \cup {None}
    /\ pc \in [Requests -> {"idle", "open", "lock", "wait", "adopt", "current",
                            "refresh", "reply", "forward", "forget"}]
    /\ op \in [Requests -> {"token", "renew"}]
    /\ mgr \in [Requests -> Managers \cup {None}]
    /\ tok \in [Requests -> Credential \cup {None}]
    /\ view \in [Requests -> Account \cup {Gone}]
    /\ read \in [Requests -> Account \cup {Gone}]
    /\ diag \in [st : {"idle", "refresh", "store"}, cred : Credential \cup {None}]
    /\ diag.st # "idle" => diag.cred # None
    /\ \A r \in Requests :
        /\ pc[r] \in {"lock", "wait", "adopt", "current", "refresh", "reply"} => mgr[r] # None
        /\ pc[r] \in {"reply", "forward"} => tok[r] # None
        /\ pc[r] = "open" \/ (r \in Pollers /\ pc[r] # "idle") => view[r] # Gone

\* The one refresh token that still works is never dropped: unless a call was
\* cut, the process killed, or the sign-in used elsewhere, it is in the database
\* or on its way there (m.onRefresh and the writer's queue, flush, drain at a
\* stop, diagnose storing what it got).
RotationNeverLost ==
    db # Gone /\ db.cred[1] \notin lost =>
        \/ IsNewest(db.cred)
        \/ Newest(db.cred[1]) \in Unstored
        \/ diag.st = "store" /\ diag.cred = Newest(db.cred[1])

\* storeCredential never puts an earlier credential of a sign-in over a later
\* one, whichever of the writer, diagnose and a contribution comes last: its
\* refresh token was spent producing the later one.
StoreNeverGoesBack ==
    [][db # Gone /\ db' # Gone /\ db.cred[1] = db'.cred[1]
         => db'.cred[2] >= db.cred[2]]_db

\* A manager never trades a credential for an earlier one of its sign-in, as
\* adopting a stored credential merely because it differs would (newerThan): the
\* database may have missed rotations.
ManagerNeverGoesBack ==
    [][\A m \in Managers :
          /\ m = current \/ \E r \in Requests : mgr[r] = m
          /\ m = current' \/ \E r \in Requests : mgr'[r] = m
          /\ cred'[m][1] = cred[m][1]
          => cred'[m][2] >= cred[m][2]]_cred

\* get never falls back to a token that is past its expiry: what it hands out
\* is alive, or came in the reply to its own refresh.
TokenHandedOutIsAlive ==
    [][\A r \in Requests : pc[r] # "forward" /\ pc'[r] = "forward" /\ op[r] = "token"
         => \/ now < Exp(tok'[r])
            \/ pc[r] = "reply" /\ tok'[r] = tok[r]]_pc

\* The usage poller leaves a login alone that it found ended (markEnded,
\* knownEnded) until the stored login changes.  Only the poller: Resolve for a
\* member never looks at endedLogins, and asks again.
EndedLoginLeftAlone ==
    \A r \in Pollers : pc[r] \in {"refresh", "reply"} => view[r].cred # endedLogin

\* The stored login the poller marked is one whose sign-in has ended: "this exact
\* stored login was already found to have reached the end of its sign-in"
\* (knownEnded).  False: what is marked is the login as the poller read it, what
\* was refused is the one its manager holds.
MarkedLoginEnded ==
    db # Gone /\ endedLogin = db.cred => endedLogin[1] \in ended

\* Every request that came in is answered, however the manager's mutex, the read
\* of the panel and the token service behave (freshReadWait, the 30s timeouts).
RequestEnds == \A r \in Requests : pc[r] # "idle" ~> pc[r] = "idle"

\* A queued rotation reaches the database, or a newer credential does, unless
\* the process dies first (runWriter retries what a failed flush left queued).
RotationStored ==
    \A c \in SignIns \X (1..MaxNow + 1) :
        queue = c ~> \/ db = Gone \/ c[1] \in lost
                     \/ c[2] \in DOMAIN expiry[c[1]] /\ ~NewerThan(c, db.cred)

\* A sign-in that was replaced by a newer one on the panel does not come back
\* (handleContribute: "Only a newer sign-in replaces the one held").
NewestSignInKept ==
    [][db # Gone /\ db' # Gone => db'.cred[1] >= db.cred[1]]_db

\* The gateway never presents a refresh token it has itself spent: "All members
\* of an account share the same manager, so the token is refreshed once,
\* centrally" (managerFor).
NoSelfCollision ==
    \A r \in Requests : pc[r] = "refresh" /\ cred[mgr[r]][1] \notin lost
                           => IsNewest(cred[mgr[r]])
=============================================================================
