------------------------------- MODULE Panel -------------------------------
(***************************************************************************)
(* What the panel keeps, and the decisions it makes about it: who is on    *)
(* it, their machines, the invite codes, the logins it lends, and who may  *)
(* use which.  Each decision is the function a handler gives to the        *)
(* store's Mutate, from the panel it reads to the panel it writes.         *)
(*                                                                         *)
(* A call mints the ids of what it creates before or while it decides, and *)
(* makes at most one thing of a kind, so the call's own name stands for    *)
(* them.  Names, keys, presence and the activity log are left out, and an  *)
(* account is known by one name for its login.                             *)
(***************************************************************************)
EXTENDS Integers

CONSTANTS
    Calls,         \* calls of the panel's API, each made once
    Ids,           \* ids of people, machines, accounts, codes and shares
    Logins,        \* the Claude logins there are
    LastEnd,       \* bound: when the last sign-in ends
    Hours,         \* how long access is given for; 0 is until revoked
    InviteLife,    \* how long an invite link works
    Opening        \* the panel as the calls find it

ASSUME PanelAssumption ==
    /\ Calls \subseteq Ids
    /\ LastEnd \in Nat /\ Hours \subseteq Nat /\ InviteLife \in Nat

Share    == [id : Ids, account : Ids, person : Ids, until : Nat]
Device   == [id : Ids, person : Ids]
JoinCode == [id : Ids, person : Ids, expires : Nat, used : BOOLEAN]
Account  == [id : Ids, login : Logins, addedBy : Ids, end : Nat]
Data     == [people : SUBSET Ids, devices : SUBSET Device, accounts : SUBSET Account,
             codes : SUBSET JoinCode, shares : SUBSET Share]

Named(S) == {x.id : x \in S}

\* One account for a login, one share for a person on an account.
UniquelyIndexed(d) ==
    /\ \A a, b \in d.accounts : a.login = b.login => a = b
    /\ \A x, y \in d.shares : x.account = y.account /\ x.person = y.person => x = y

ASSUME OpeningAssumption == Opening \in Data /\ UniquelyIndexed(Opening)

\* What a caller can ask for at t who sees panel d: the admin and a member's
\* machine name what the panel shows them, and a machine is let in by device.
Asks(d, t) ==
    UNION {[kind : {"addPerson", "look"}],
           [kind : {"removePerson"}, person : d.people],
           [kind : {"invite"}, person : d.people, expires : {t + InviteLife}],
           [kind : {"enroll"}, code : Named(d.codes)],
           [kind : {"removeDevice"}, device : Named(d.devices)],
           [kind : {"contribute"}, by : {x.person : x \in d.devices},
                                   login : Logins, end : 1..LastEnd],
           [kind : {"withdraw"}, by : {x.person : x \in d.devices},
                                 account : Named(d.accounts)],
           [kind : {"removeAccount"}, account : Named(d.accounts)],
           [kind : {"share"}, account : Named(d.accounts), person : d.people, hours : Hours],
           [kind : {"revoke"}, share : Named(d.shares)]}

\* Share.Live, and expireShares, which Mutate runs before every decision.
Live(sh, t)        == sh.until = 0 \/ t < sh.until
ExpireShares(d, t) == [d EXCEPT !.shares = {sh \in @ : Live(sh, t)}]

-----------------------------------------------------------------------------
(* The decisions, each about a panel whose shares are settled at t.        *)

\* The decision returns an error, and nothing is written.
Refused(o, d, t) ==
    \/ o.kind \in {"removePerson", "invite"} /\ o.person \notin d.people
    \/ o.kind = "enroll" /\ ~\E c \in d.codes : c.id = o.code /\ ~c.used /\ t <= c.expires
    \/ o.kind = "removeDevice" /\ o.device \notin Named(d.devices)
    \/ o.kind = "contribute" /\ \E a \in d.accounts : a.login = o.login /\ o.end <= a.end
    \/ o.kind = "withdraw" /\ ~\E a \in d.accounts : a.id = o.account /\ a.addedBy = o.by
    \/ o.kind = "removeAccount" /\ o.account \notin Named(d.accounts)
    \/ o.kind = "share" /\ (o.account \notin Named(d.accounts) \/ o.person \notin d.people)

\* Their shares and machines go with them; invites made for them stay.
RemovePerson(p, d) ==
    [d EXCEPT !.people  = @ \ {p},
              !.devices = {x \in @ : x.person # p},
              !.shares  = {sh \in @ : sh.person # p}]

Enroll(c, code, d) ==
    LET found == CHOOSE x \in d.codes : x.id = code IN
    [d EXCEPT !.codes   = (@ \ {found}) \cup {[found EXCEPT !.used = TRUE]},
              !.devices = @ \cup {[id |-> c, person |-> found.person]}]

\* Mutant: re-issuing a key leaves the one it replaces.
PutShareBeside(sh, d) == [d EXCEPT !.shares = @ \cup {sh}]

\* putShare: a new key replaces the one the person had on the account.
PutShare(sh, d) ==
    [d EXCEPT !.shares = {x \in @ : x.account # sh.account \/ x.person # sh.person}
                         \cup {sh}]

\* handleContribute: a login the panel holds is replaced by the newer sign-in and
\* stays its adder's; the contributor gets access unless they have it.
Contribute(c, o, d) ==
    LET held == {a \in d.accounts : a.login = o.login}
        new  == [id |-> c, login |-> o.login, addedBy |-> o.by, end |-> o.end]
        old  == CHOOSE a \in held : TRUE
        acct == IF held = {} THEN new ELSE [old EXCEPT !.end = o.end]
        kept == [d EXCEPT !.accounts = (IF held = {} THEN @ ELSE @ \ {old}) \cup {acct}]
    IN IF \E sh \in d.shares : sh.account = acct.id /\ sh.person = o.by
       THEN kept
       ELSE PutShare([id |-> c, account |-> acct.id, person |-> o.by, until |-> 0], kept)

\* removeAccount, whoever asked for it: every share on it goes too.
RemoveAccount(a, d) ==
    [d EXCEPT !.accounts = {x \in @ : x.id # a}, !.shares = {sh \in @ : sh.account # a}]

\* What call c makes of panel d.  A share revoked already is revoked again.
Result(c, o, d, t) ==
    CASE o.kind = "addPerson"     -> [d EXCEPT !.people = @ \cup {c}]
      [] o.kind = "removePerson"  -> RemovePerson(o.person, d)
      [] o.kind = "invite"        -> [d EXCEPT !.codes = @ \cup
            {[id |-> c, person |-> o.person, expires |-> o.expires, used |-> FALSE]}]
      [] o.kind = "enroll"        -> Enroll(c, o.code, d)
      [] o.kind = "removeDevice"  -> [d EXCEPT !.devices = {x \in @ : x.id # o.device}]
      [] o.kind = "contribute"    -> Contribute(c, o, d)
      [] o.kind \in {"withdraw", "removeAccount"} -> RemoveAccount(o.account, d)
      [] o.kind = "share"         -> PutShare([id |-> c, account |-> o.account,
            person |-> o.person, until |-> IF o.hours = 0 THEN 0 ELSE t + o.hours], d)
      [] o.kind = "revoke"        -> [d EXCEPT !.shares = {sh \in @ : sh.id # o.share}]
      [] OTHER                    -> d
=============================================================================
