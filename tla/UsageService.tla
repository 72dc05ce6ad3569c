---------------------------- MODULE UsageService ----------------------------
(***************************************************************************)
(* How much of its plan an account has used, as the clawdh page is told.   *)
(*                                                                         *)
(* Service.Get answers from a cache, or waits for the read another request *)
(* of the account has begun, or reads: the login from disk, then Anthropic *)
(* unless the login needs no asking or a rate limit is being waited out.   *)
(* The last good numbers are kept, in memory and in a file, for a card     *)
(* that has nothing newer.  Forget drops all of it when the account is     *)
(* removed or signed in again, since its numbers are then another login's. *)
(*                                                                         *)
(* One account, whose id is its slug, so an account added again under the  *)
(* same name has the same id.  Numbers are the login they are about: what  *)
(* they say, their age and the wording on the card are left out, and       *)
(* numbers too old to show are numbers that are not there.                 *)
(***************************************************************************)
EXTENDS Integers

CONSTANTS
    Gets,          \* requests for the account's usage being served at once
    Logins,        \* the Claude logins its owner signs in to
    Forgetter,     \* the handler that calls Forget, as a writer of the file
    TTL, ShortTTL, \* how long a snapshot is served
    ExpireFloor,   \* how young a snapshot Expire leaves alone
    BackoffFirst, BackoffMax,
    RetryAfters,   \* the Retry-After a refusal comes with, or 0
    MaxNow,        \* bound: the clock stops here
    None           \* no login, no numbers, nothing cached

Savers == Gets \cup {Forgetter}

ASSUME UsageAssumption ==
    /\ Forgetter \notin Gets
    /\ ShortTTL \in Nat /\ TTL \in Nat /\ ExpireFloor \in Nat
    /\ ShortTTL <= ExpireFloor /\ ExpireFloor <= TTL
    /\ BackoffFirst \in Nat /\ BackoffMax \in Nat
    /\ TTL <= BackoffFirst /\ BackoffFirst <= BackoffMax
    /\ RetryAfters \subseteq Nat /\ MaxNow \in Nat
    /\ None \notin Logins \cup Gets

Numbers   == Logins \cup {None}
Snapshots == [usage : Numbers, at : 0..MaxNow, ttl : {TTL, ShortTTL}]
Cooldowns == [until : Nat, step : Nat, failedAt : 0..MaxNow]
ASSUME NoneIsNothing == None \notin Snapshots \cup Cooldowns

VARIABLES
    now,        \* the clock
    present,    \* the account exists
    login,      \* who is signed in to it, or None
    forgetting, \* "no", "linked" (Forget is due), "remove" (Remove is due)
    entry,      \* entries[account]: None or [usage, at, ttl]
    leader,     \* inflight[account]: the Get that reads
    cooldown,   \* cooldowns[account]: None or [until, step, failedAt]
    last,       \* lastReport[account]
    file,       \* the same in usage.json
    save, copy, \* [Savers -> where it is in saveReports, and what it copied]
    pc,         \* [Gets -> where it is]
    cred,       \* [Gets -> the login it read]
    found,      \* [Gets -> the snapshot it will store, [usage, ttl]]
    gone,       \* Gets whose browser gave up
    heard,      \* history: when the last snapshot held for TTL was stored
    quiet,      \* history: until when the last refusal asked for silence
    crossed     \* history: a Forget had somebody working around it

caller  == <<pc, cred, found, gone>>
account == <<present, login, forgetting>>
disk    == <<file, save, copy>>
history == <<heard, quiet, crossed>>
vars == <<now, account, entry, leader, cooldown, last, disk, caller, history>>

Nothing == [usage |-> None, ttl |-> 0]
Goto(g, step) == pc' = [pc EXCEPT ![g] = step]
Find(g, numbers, ttl) ==
    /\ found' = [found EXCEPT ![g] = [usage |-> numbers, ttl |-> ttl]]
    /\ Goto(g, "store")

\* The numbers a card may fall back on, unless they are too old by now.
LastGood == {last, None}

\* The gateway's own reading of the login that is signed in, if it holds it.
GatewayReading == {login} \ {None}

Max2(a, b) == IF a > b THEN a ELSE b
Min2(a, b) == IF a < b THEN a ELSE b

-----------------------------------------------------------------------------
(* Get.                                                                    *)

Cached == entry # None /\ now - entry.at < entry.ttl

\* Nothing cached: wait for the read under way, or begin one.
Get(g) ==
    /\ present /\ pc[g] = "idle" /\ ~Cached
    /\ IF leader # None
       THEN Goto(g, "wait") /\ UNCHANGED leader
       ELSE Goto(g, "read") /\ leader' = g
    /\ UNCHANGED <<now, account, entry, cooldown, last, disk, cred, found, gone, history>>

\* The login on disk: none, or over by its date, which the gateway's reading
\* overrules, or one that may still be good for a call.
ReadCredentials(g) ==
    /\ pc[g] = "read"
    /\ cred' = [cred EXCEPT ![g] = login]
    /\ \/ \E numbers \in GatewayReading \cup {None} : Find(g, numbers, ShortTTL)
       \/ login # None /\ Goto(g, "check") /\ UNCHANGED found
    /\ UNCHANGED <<now, account, entry, leader, cooldown, last, disk, gone, history>>

Waiting == cooldown # None /\ now < cooldown.until

\* A token gone stale until Claude Code runs, or a rate limit being waited out: the
\* last numbers and no call.  Otherwise Anthropic is asked.
Check(g) ==
    /\ pc[g] = "check"
    /\ \/ \E numbers \in LastGood : Find(g, numbers, ShortTTL)
       \/ ~Waiting /\ Goto(g, "calling") /\ UNCHANGED found
    /\ UNCHANGED <<now, account, entry, leader, cooldown, last, disk, cred, gone, history>>

\* Numbers: the cooldown is over and they are kept, in the file too.
Allowed(g) ==
    /\ pc[g] = "calling"
    /\ cooldown' = None
    /\ last' = cred[g]
    /\ save' = [save EXCEPT ![g] = "copy"]
    /\ Find(g, cred[g], TTL)
    /\ quiet' = 0
    /\ UNCHANGED <<now, account, entry, leader, file, copy, cred, gone, heard, crossed>>

\* When Anthropic could next have been asked.
Free(c) == Max2(c.until, IF c.failedAt = 0 THEN 0 ELSE c.failedAt + TTL)

\* Each refusal waits twice as long as the one before it, up to a limit, unless the
\* account was left in peace for longer than that wait.
Step(c) ==
    Min2(BackoffMax,
         IF c = None \/ now - Free(c) > c.step THEN BackoffFirst
         ELSE IF c.step < BackoffMax THEN 2 * c.step ELSE c.step)

Refused(g) ==
    /\ pc[g] = "calling"
    /\ \E retryAfter \in RetryAfters, numbers \in LastGood :
        LET step == Max2(Step(cooldown), retryAfter) IN
        /\ cooldown' = [until |-> now + step, step |-> step, failedAt |-> 0]
        /\ quiet' = now + step
        /\ Find(g, numbers, ShortTTL)
    /\ UNCHANGED <<now, account, entry, leader, last, disk, cred, gone, heard, crossed>>

\* failed: an answer that is neither numbers nor a refusal prolongs the spell.
Failed ==
    cooldown' = IF cooldown = None THEN None ELSE [cooldown EXCEPT !.failedAt = now]

\* The login is rejected, which the gateway's reading overrules; or Anthropic is
\* down, or the browser gave up; or the request never left this machine.
CallFails(g) ==
    /\ pc[g] = "calling"
    /\ \/ \E numbers \in GatewayReading \cup LastGood :
            Find(g, numbers, ShortTTL) /\ UNCHANGED cooldown
       \/ \E numbers \in LastGood : Find(g, numbers, TTL) /\ Failed
    /\ UNCHANGED <<now, account, entry, leader, last, disk, cred, gone, history>>

\* Mutant: a read that was cut short just returns.
StoreUnlessGone(g) ==
    /\ pc[g] = "store" /\ save[g] = "no"
    /\ IF g \in gone
       THEN Goto(g, "idle") /\ UNCHANGED <<entry, heard, leader>>
       ELSE /\ entry' = [usage |-> found[g].usage, at |-> now, ttl |-> found[g].ttl]
            /\ heard' = IF found[g].ttl = TTL THEN now ELSE heard
            /\ leader' = None
            /\ pc' = [x \in Gets |-> IF x = g \/ pc[x] = "wait" THEN "idle" ELSE pc[x]]
    /\ cred' = [cred EXCEPT ![g] = None]
    /\ found' = [found EXCEPT ![g] = Nothing]
    /\ gone' = gone \ {g}
    /\ UNCHANGED <<now, account, cooldown, last, disk, quiet, crossed>>

\* The snapshot is cached, unless the read was cut short, and given to everyone who
\* waited for it.
Store(g) ==
    /\ pc[g] = "store" /\ save[g] = "no"
    /\ IF g \in gone
       THEN UNCHANGED <<entry, heard>>
       ELSE /\ entry' = [usage |-> found[g].usage, at |-> now, ttl |-> found[g].ttl]
            /\ heard' = IF found[g].ttl = TTL THEN now ELSE heard
    /\ leader' = None
    /\ pc' = [x \in Gets |-> IF x = g \/ pc[x] = "wait" THEN "idle" ELSE pc[x]]
    /\ cred' = [cred EXCEPT ![g] = None]
    /\ found' = [found EXCEPT ![g] = Nothing]
    /\ gone' = gone \ {g}
    /\ UNCHANGED <<now, account, cooldown, last, disk, quiet, crossed>>

\* Mutant: a reader that is given up on is not waited for any more.
GiveUpReleases(g) ==
    /\ pc[g] # "idle" /\ g \notin gone
    /\ IF pc[g] = "wait"
       THEN Goto(g, "idle") /\ UNCHANGED <<gone, leader>>
       ELSE gone' = gone \cup {g} /\ leader' = None /\ UNCHANGED pc
    /\ UNCHANGED <<now, account, entry, cooldown, last, disk, cred, found, history>>

\* The browser gives up: one that waits is answered at once, the reader reads on.
GiveUp(g) ==
    /\ pc[g] # "idle" /\ g \notin gone
    /\ IF pc[g] = "wait"
       THEN Goto(g, "idle") /\ UNCHANGED gone
       ELSE gone' = gone \cup {g} /\ UNCHANGED pc
    /\ UNCHANGED <<now, account, entry, leader, cooldown, last, disk, cred, found, history>>

-----------------------------------------------------------------------------
(* saveReports, in whoever calls it.                                       *)

Copy(s) ==
    /\ save[s] = "copy"
    /\ save' = [save EXCEPT ![s] = "write"]
    /\ copy' = [copy EXCEPT ![s] = last]
    /\ UNCHANGED <<now, account, entry, leader, cooldown, last, file, caller, history>>

Write(s) ==
    /\ save[s] = "write"
    /\ file' = copy[s]
    /\ save' = [save EXCEPT ![s] = "no"]
    /\ copy' = [copy EXCEPT ![s] = None]
    /\ UNCHANGED <<now, account, entry, leader, cooldown, last, caller, history>>

-----------------------------------------------------------------------------
(* Forget, Expire, and the account.                                        *)

\* Somebody is working on what Forget drops.
Underway == leader # None \/ \E s \in Savers \ {Forgetter} : save[s] # "no"

\* Mutant: only the snapshot is dropped.
ForgetSnapshot ==
    /\ entry' = None /\ UNCHANGED <<cooldown, last, heard, quiet>>
    /\ save' = [save EXCEPT ![Forgetter] = "copy"]
    /\ crossed' = (crossed \/ Underway)

Forget ==
    /\ entry' = None /\ cooldown' = None /\ last' = None
    /\ save' = [save EXCEPT ![Forgetter] = "copy"]
    /\ heard' = None /\ quiet' = 0
    /\ crossed' = (crossed \/ Underway)

\* A login from the page succeeded: its credentials are in place before anyone is told.
SignIn(l) ==
    /\ present /\ forgetting = "no" /\ save[Forgetter] = "no"
    /\ login' = l
    /\ forgetting' = "linked"
    /\ UNCHANGED <<now, present, entry, leader, cooldown, last, disk, caller, history>>

\* watchLoginOutcome, told that it did.
Linked ==
    /\ forgetting = "linked"
    /\ Forget
    /\ forgetting' = "no"
    /\ UNCHANGED <<now, present, login, leader, file, copy, caller>>

\* handleDeleteAccount: a login under way is cancelled, what is known about the
\* account goes, and then, if it can be, the account.
Delete ==
    /\ present /\ forgetting # "remove" /\ save[Forgetter] = "no"
    /\ Forget
    /\ forgetting' = "remove"
    /\ UNCHANGED <<now, present, login, leader, file, copy, caller>>

Remove ==
    /\ forgetting = "remove" /\ save[Forgetter] = "no"
    /\ forgetting' = "no"
    /\ \/ present' = FALSE /\ login' = None
       \/ UNCHANGED <<present, login>>
    /\ crossed' = (crossed \/ Underway \/ {entry, last, file} # {None})
    /\ UNCHANGED <<now, entry, leader, cooldown, last, disk, caller, heard, quiet>>

\* An account of the same name is added.
Add ==
    /\ ~present
    /\ present' = TRUE
    /\ UNCHANGED <<now, login, forgetting, entry, leader, cooldown, last, disk, caller, history>>

\* Mutant: an Expire that is a Forget, but for the saved numbers.
ExpireAndAsk ==
    /\ entry # None /\ now - entry.at >= ExpireFloor
    /\ entry' = None /\ cooldown' = None
    /\ UNCHANGED <<now, account, leader, last, disk, caller, history>>

\* Mutant: every Expire is honoured.
ExpireAny ==
    /\ entry # None
    /\ entry' = None
    /\ UNCHANGED <<now, account, leader, cooldown, last, disk, caller, history>>

\* The account's numbers have just moved; a snapshot that is young is kept.
Expire ==
    /\ entry # None /\ now - entry.at >= ExpireFloor
    /\ entry' = None
    /\ UNCHANGED <<now, account, leader, cooldown, last, disk, caller, history>>

\* clawdh restarts with the numbers it saved, those too old excepted.  A handler
\* that was about to forget them does not.
Restart ==
    /\ last' \in {file, None}
    /\ entry' = None /\ leader' = None /\ cooldown' = None
    /\ save' = [s \in Savers |-> "no"] /\ copy' = [s \in Savers |-> None]
    /\ pc' = [g \in Gets |-> "idle"] /\ cred' = [g \in Gets |-> None]
    /\ found' = [g \in Gets |-> Nothing] /\ gone' = {}
    /\ forgetting' = "no"
    /\ heard' = None /\ quiet' = 0
    /\ crossed' = (crossed \/ forgetting = "linked" \/ save[Forgetter] # "no")
    /\ UNCHANGED <<now, present, login, file>>

Tick ==
    /\ now < MaxNow
    /\ now' = now + 1
    /\ UNCHANGED <<account, entry, leader, cooldown, last, disk, caller, history>>

-----------------------------------------------------------------------------
Init ==
    /\ now = 0
    /\ present = TRUE /\ login \in Logins /\ forgetting = "no"
    /\ entry = None /\ leader = None /\ cooldown = None /\ last = None /\ file = None
    /\ save = [s \in Savers |-> "no"] /\ copy = [s \in Savers |-> None]
    /\ pc = [g \in Gets |-> "idle"] /\ cred = [g \in Gets |-> None]
    /\ found = [g \in Gets |-> Nothing] /\ gone = {}
    /\ heard = None /\ quiet = 0 /\ crossed = FALSE

Reading(g) ==
    \/ ReadCredentials(g) \/ Check(g)
    \/ Allowed(g) \/ Refused(g) \/ CallFails(g) \/ Store(g)

Next ==
    \/ \E g \in Gets : Get(g) \/ Reading(g) \/ GiveUp(g)
    \/ \E s \in Savers : Copy(s) \/ Write(s)
    \/ \E l \in Logins : SignIn(l)
    \/ Linked \/ Delete \/ Remove \/ Add \/ Expire \/ Restart \/ Tick

Spec == Init /\ [][Next]_vars

\* Goroutines run, a call is answered or times out, and the disk writes.
Fairness ==
    /\ \A g \in Gets : WF_vars(Reading(g))
    /\ \A s \in Gets : WF_vars(Copy(s) \/ Write(s))

FairSpec == Spec /\ Fairness

-----------------------------------------------------------------------------
TypeOK ==
    /\ now \in 0..MaxNow /\ present \in BOOLEAN /\ login \in Numbers
    /\ forgetting \in {"no", "linked", "remove"}
    /\ entry \in Snapshots \cup {None}
    /\ leader \in Gets \cup {None}
    /\ cooldown \in Cooldowns \cup {None}
    /\ last \in Numbers /\ file \in Numbers
    /\ save \in [Savers -> {"no", "copy", "write"}] /\ copy \in [Savers -> Numbers]
    /\ pc \in [Gets -> {"idle", "wait", "read", "check", "calling", "store"}]
    /\ cred \in [Gets -> Numbers] /\ gone \subseteq Gets
    /\ found \in [Gets -> [usage : Numbers, ttl : {0, TTL, ShortTTL}]]
    /\ heard \in 0..MaxNow \cup {None} /\ quiet \in Nat /\ crossed \in BOOLEAN
    /\ \A g \in Gets :
        /\ pc[g] \notin {"idle", "wait"} <=> leader = g
        /\ pc[g] \in {"check", "calling"} => cred[g] # None

\* A call to Anthropic goes out.
Calls(g) == pc[g] = "check" /\ pc'[g] = "calling"

\* However often pages ask, expire and give up, two snapshots that Anthropic was
\* asked for and that are kept for TTL are at least ExpireFloor apart ("every one
\* of them honoured would be another upstream call").
CallsSpaced ==
    [][\A g \in Gets : Calls(g) /\ heard # None => now - heard >= ExpireFloor]_pc

\* Nobody is asked while a refusal is waited out: "asking for newer numbers must
\* never become a way to ask Anthropic sooner than a rate limit allows" (Expire).
RefusalHonoured == [][\A g \in Gets : Calls(g) => now >= quiet]_pc

\* What is known of an account is about who is signed in to it, in memory, in the
\* file and after restarts, unless its Forget crossed somebody's work.
NumbersAreTheirs ==
    forgetting = "no" /\ save[Forgetter] = "no" /\ ~crossed =>
        {last, file, IF entry = None THEN None ELSE entry.usage} \subseteq {login, None}

\* Every request is answered, whoever of those it shares a read with gives up.
GetReturns == \A g \in Gets : pc[g] # "idle" ~> pc[g] = "idle"

\* "numbers that outlived that would come back under an account they were never
\* about" (Forget): numbers that come, once it has run, are about who is signed in.
ForgottenStaysForgotten ==
    [][last' \notin {last, None} => last' = login \/ forgetting = "linked"]_last
=============================================================================
