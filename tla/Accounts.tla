------------------------------ MODULE Accounts ------------------------------
(* The accounts of a machine and the logins that fill them: adding and removing,
   connecting one through a `claude auth login` whose terminal the service drives,
   and adopting the account plain `claude` uses (internal/accounts/manager.go,
   store.go, default.go, probe.go, capture.go; internal/ptyauth/session.go;
   internal/httpserver/handlers_accounts.go, handlers_login.go, loginbroadcast.go,
   defaultaccount.go).

   Every account made has a number; a slug names one at a time, and its directory.
   A login found at a slug carries the number of the account that was listed there
   when the person finished signing in. Names, aliases and usage are left out.
 *)
EXTENDS Naturals, FiniteSets

CONSTANTS
  Slugs,        \* names an account can get
  MaxAccounts,  \* bound: accounts added
  MaxLogins,    \* bound: logins started
  MaxRestarts,  \* bound: restarts of the service
  Keychain,     \* logins are kept outside the directories (macOS)
  None          \* no slug

ASSUME AccountsAssumption ==
  /\ IsFiniteSet(Slugs) /\ None \notin Slugs /\ Keychain \in BOOLEAN
  /\ {MaxAccounts, MaxLogins, MaxRestarts} \subseteq Nat

VARIABLES
  listed,     \* accounts.json: [Slugs -> the account's number, 0 for none]
  linked,     \* accounts.json: slugs whose account has status linked
  added,      \* accounts added so far
  dirs,       \* slugs whose directory exists
  login,      \* [Slugs -> whose login is there, 0 for none]
  removing,   \* [Slugs -> a removal under way]
  starting,   \* the slug a start of a login holds startMu for
  logins,     \* s.logins: [Slugs -> the login the page knows, 0 for none]
  attempt,    \* logins: slug, place, claude running, found by the probe, outcome
  started,    \* logins started so far
  default,    \* accounts.json: the default account is listed
  dismissed,  \* accounts.json: defaultDismissed
  forgetting, \* a removal of the default account between its two writes
  checking,   \* EnsureDefault: what the check under way has read
  restarts    \* restarts so far

file == <<listed, linked, added>>
disk == <<dirs, login>>
page == <<removing, starting, logins, attempt, started>>
plain == <<default, dismissed, forgetting, checking>>
vars == <<file, disk, page, plain, restarts>>

Numbers == 1..MaxLogins
Stranger == MaxAccounts + 1
Unborn == [slug |-> None, at |-> "none", claude |-> FALSE, found |-> FALSE, linked |-> FALSE]

Init ==
  /\ listed = [s \in Slugs |-> 0] /\ linked = {} /\ added = 0
  /\ dirs = {} /\ login = [s \in Slugs |-> 0]
  /\ removing = [s \in Slugs |-> "no"] /\ starting = None
  /\ logins = [s \in Slugs |-> 0]
  /\ attempt = [l \in Numbers |-> Unborn] /\ started = 0
  /\ default = FALSE /\ dismissed = FALSE /\ forgetting = FALSE /\ checking = "no"
  /\ restarts = 0

IsLinked(s) == login[s] # 0    \* `claude auth status` in its directory

(* One read, change and rename of accounts.json. *)
Mutate(nowListed, nowLinked) == listed' = nowListed /\ linked' = nowLinked

(* The accounts the page shows as linked: those recorded so whose login is still
   there. *)
withLoginState == {s \in linked : IsLinked(s)}
-----------------------------------------------------------------------------
(* Adding and removing. *)

(* mistaken: a directory left behind is taken over *)
AddOver(s) ==
  /\ listed[s] = 0 /\ added < MaxAccounts
  /\ dirs' = dirs \cup {s}
  /\ added' = added + 1
  /\ Mutate([listed EXCEPT ![s] = added + 1], linked \ {s})
  /\ UNCHANGED <<login, page, plain, restarts>>

(* Add makes the directory and accepts none that is there; the record may then fail
   to be saved. *)
Add(s) ==
  /\ listed[s] = 0 /\ s \notin dirs /\ added < MaxAccounts
  /\ dirs' = dirs \cup {s} /\ added' = added + 1
  /\ \/ Mutate([listed EXCEPT ![s] = added + 1], linked \ {s})
     \/ UNCHANGED <<listed, linked>>
  /\ UNCHANGED <<login, page, plain, restarts>>

handleCreateAccount(s) == Add(s)

(* broadcast.stop: the session's context ends and its claude is gone. *)
Stop(l) == [attempt EXCEPT ![l] = [@ EXCEPT !.claude = FALSE]]
cancelLogin(s) ==
  /\ logins' = [logins EXCEPT ![s] = 0]
  /\ attempt' = IF logins[s] = 0 THEN attempt ELSE Stop(logins[s])

handleDeleteAccount(s) ==
  /\ removing[s] = "no" /\ listed[s] # 0
  /\ cancelLogin(s)
  /\ removing' = [removing EXCEPT ![s] = "cancelled"]
  /\ UNCHANGED <<file, disk, starting, started, plain, restarts>>

(* Remove: the record first, then the directory, whose deletion may fail midway. *)
Remove(s) ==
  /\ removing[s] = "cancelled"
  /\ Mutate([listed EXCEPT ![s] = 0], linked \ {s})
  /\ removing' = [removing EXCEPT ![s] = "unlisted"]
  /\ UNCHANGED <<added, disk, starting, logins, attempt, started, plain, restarts>>

RemoveAll(s) ==
  /\ removing[s] = "unlisted"
  /\ \/ dirs' = dirs \ {s}
     \/ UNCHANGED dirs
  /\ \/ ~Keychain /\ login' = [login EXCEPT ![s] = 0]
     \/ (Keychain \/ s \in dirs') /\ UNCHANGED login
  /\ removing' = [removing EXCEPT ![s] = "no"]
  /\ UNCHANGED <<file, starting, logins, attempt, started, plain, restarts>>
-----------------------------------------------------------------------------
(* Connecting an account. *)

handleStartLogin(s) ==
  /\ starting = None /\ listed[s] # 0 /\ started < MaxLogins
  /\ starting' = s
  /\ UNCHANGED <<file, disk, removing, logins, attempt, started, plain, restarts>>

inProgress(s) == logins[s] # 0 /\ attempt[logins[s]].at \in {"running", "ending", "said"}

Session(s) ==    \* ptyauth.Start and its place in s.logins
  /\ started' = started + 1
  /\ logins' = [logins EXCEPT ![s] = started + 1]
  /\ attempt' = [attempt EXCEPT ![started + 1] =
                   [Unborn EXCEPT !.slug = s, !.at = "running", !.claude = TRUE]]
  /\ dirs' = dirs \cup {s}

(* mistaken: a login under way is replaced and not reused *)
StartAnyway ==
  /\ starting # None /\ starting' = None
  /\ Session(starting)
  /\ UNCHANGED <<file, login, removing, plain, restarts>>

(* The rest of handleStartLogin: a login under way is reused, and claude may not
   start. *)
Start ==
  /\ starting # None /\ starting' = None
  /\ LET s == starting
         retired == [logins EXCEPT ![s] = 0]    \* it has finished: nothing to stop
     IN \/ /\ inProgress(s)
           /\ UNCHANGED <<logins, attempt, started, dirs>>
        \/ /\ ~inProgress(s)
           /\ \/ Session(s)
              \/ logins' = retired /\ UNCHANGED <<attempt, started, dirs>>
  /\ UNCHANGED <<file, login, removing, plain, restarts>>

handleCancelLogin(s) ==
  /\ logins[s] # 0
  /\ cancelLogin(s)
  /\ UNCHANGED <<file, disk, removing, starting, started, plain, restarts>>

(* The person signs in. *)
SignIn(l) ==
  /\ attempt[l].claude
  /\ LET s == attempt[l].slug
     IN /\ login' = [login EXCEPT ![s] = IF listed[s] = 0 THEN Stranger ELSE listed[s]]
        /\ dirs' = dirs \cup {s}
  /\ UNCHANGED <<file, page, plain, restarts>>

Becomes(l, how) ==
  /\ attempt' = [attempt EXCEPT ![l] = how]
  /\ UNCHANGED <<file, disk, removing, starting, logins, started, plain, restarts>>

(* claude ended, by itself or stopped, or the time is up: the loop of run notices. *)
OutputEnds(l) ==
  /\ attempt[l].at = "running"
  /\ \E up \in {FALSE, attempt[l].claude} :
       Becomes(l, [attempt[l] EXCEPT !.at = "ending", !.claude = up])
Probe(l) ==
  /\ attempt[l].at = "running" /\ ~attempt[l].found
  /\ IsLinked(attempt[l].slug)
  /\ Becomes(l, [attempt[l] EXCEPT !.found = TRUE])

Ended(l, islinked) == Becomes(l, [attempt[l] EXCEPT !.at = "said", !.claude = FALSE,
                                                    !.linked = islinked])
SaysLinked(l) ==
  /\ attempt[l].at = "running" /\ attempt[l].found
  /\ Ended(l, TRUE)

(* The last probe has five seconds, and may not answer in them. *)
FinalProbe(l) ==
  /\ attempt[l].at = "ending"
  /\ \/ IsLinked(attempt[l].slug) /\ Ended(l, TRUE)
     \/ Ended(l, FALSE)

(* The broadcast publishes the outcome and is done. *)
publish(l) ==
  /\ attempt[l].at = "said"
  /\ Becomes(l, [attempt[l] EXCEPT !.at = "done"])

(* mistaken: the outcome counts only while the page has the login *)
watchWhileListed(l) ==
  /\ attempt[l].at = "done"
  /\ attempt' = [attempt EXCEPT ![l].at = "over"]
  /\ Mutate(listed, IF attempt[l].linked /\ logins[attempt[l].slug] = l
                    THEN linked \cup {attempt[l].slug} ELSE linked)
  /\ UNCHANGED <<added, disk, removing, starting, logins, started, plain, restarts>>

watchLoginOutcome(l) ==
  /\ attempt[l].at = "done"
  /\ attempt' = [attempt EXCEPT ![l].at = "over"]
  /\ Mutate(listed, IF attempt[l].linked /\ listed[attempt[l].slug] # 0
                    THEN linked \cup {attempt[l].slug} ELSE linked)
  /\ UNCHANGED <<added, disk, removing, starting, logins, started, plain, restarts>>

(* Half a minute later, unless another login has its place. *)
Retire(l) ==
  /\ attempt[l].at = "over"
  /\ attempt' = [attempt EXCEPT ![l] = Unborn]
  /\ logins' = [s \in Slugs |-> IF logins[s] = l THEN 0 ELSE logins[s]]
  /\ UNCHANGED <<file, disk, removing, starting, started, plain, restarts>>
-----------------------------------------------------------------------------
(* The account plain `claude` uses, adopted once a minute while somebody is signed
   in to it. *)

(* mistaken: it is adopted again whatever the person decided *)
EnsureAnyway ==
  /\ checking = "no" /\ ~default
  /\ checking' = "absent"
  /\ UNCHANGED <<file, disk, page, default, dismissed, forgetting, restarts>>

EnsureDefault ==
  /\ checking = "no" /\ ~dismissed /\ ~default
  /\ checking' = "absent"
  /\ UNCHANGED <<file, disk, page, default, dismissed, forgetting, restarts>>

Adopt ==     \* the probe has answered: nobody is signed in, or somebody is
  /\ checking = "absent" /\ checking' = "no"
  /\ default' \in {default, TRUE}
  /\ UNCHANGED <<file, disk, page, dismissed, forgetting, restarts>>

RemoveDefault ==
  /\ default /\ ~forgetting
  /\ default' = FALSE /\ forgetting' = TRUE
  /\ UNCHANGED <<file, disk, page, dismissed, checking, restarts>>

SetDefaultDismissed ==
  /\ forgetting /\ forgetting' = FALSE /\ dismissed' = TRUE
  /\ UNCHANGED <<file, disk, page, default, checking, restarts>>
-----------------------------------------------------------------------------
(* The service is killed or restarted: the terminals close, and what it had begun
   stays as it is. *)
Restart ==
  /\ restarts < MaxRestarts /\ restarts' = restarts + 1
  /\ removing' = [s \in Slugs |-> "no"] /\ starting' = None
  /\ logins' = [s \in Slugs |-> 0] /\ attempt' = [l \in Numbers |-> Unborn]
  /\ checking' = "no" /\ forgetting' = FALSE
  /\ UNCHANGED <<file, disk, started, default, dismissed>>

Next ==
  \/ \E s \in Slugs : \/ handleCreateAccount(s) \/ handleDeleteAccount(s) \/ Remove(s) \/ RemoveAll(s)
                      \/ handleStartLogin(s) \/ handleCancelLogin(s)
  \/ \E l \in Numbers : \/ SignIn(l) \/ OutputEnds(l) \/ Probe(l) \/ SaysLinked(l)
                        \/ FinalProbe(l) \/ publish(l) \/ watchLoginOutcome(l) \/ Retire(l)
  \/ Start \/ EnsureDefault \/ Adopt \/ RemoveDefault \/ SetDefaultDismissed
  \/ Restart

(* The goroutines of a login run on and its time runs out; nobody need sign in. *)
Fairness ==
  \A l \in Numbers :
    /\ WF_vars(OutputEnds(l)) /\ WF_vars(FinalProbe(l)) /\ WF_vars(publish(l))
    /\ WF_vars(watchLoginOutcome(l)) /\ WF_vars(Retire(l))

Spec == Init /\ [][Next]_vars /\ Fairness
-----------------------------------------------------------------------------
(* "a leftover from a removal that failed ... would otherwise be adopted silently, and
   the new account would already be signed in as the identity the user thought they
   had deleted" (manager.go:91-95): the login found at an account was made for it,
   through removals that fail midway, restarts and logins that outlive a removal. *)
OldLoginNeverSurfaces ==
  \A s \in Slugs : listed[s] # 0 /\ login[s] # 0 => login[s] = listed[s]

(* A claude the service runs for a login is one the page can reach: it can be given a
   code, cancelled, and is not started a second time beside it (handlers_login.go:34-37). *)
NoStrayLogin ==
  \A l \in Numbers :
    attempt[l].at = "running" /\ attempt[l].claude => logins[attempt[l].slug] = l

(* A login that is started ends, and leaves the account's place free for the next; and
   one that ended signed in shows as linked, although the page may have closed or
   cancelled it meanwhile, unless the account is removed or the service restarts first. *)
LoginSettles ==
  \A l \in Numbers :
    /\ attempt[l].at = "running" ~> attempt[l].at = "none"
    /\ \A s \in Slugs, n \in 1..MaxAccounts, r \in 0..MaxRestarts :
         (attempt[l].at = "said" /\ attempt[l].linked /\ attempt[l].slug = s
            /\ IsLinked(s) /\ listed[s] = n /\ restarts = r)
           ~> (s \in withLoginState \/ listed[s] # n \/ restarts # r)

(* A default account the person had clawdh forget stays forgotten (default.go:20-21):
   only a check that was already under way brings it back. *)
DismissedStaysAway ==
  [](dismissed /\ ~default /\ checking = "no" => []~default)
=============================================================================
