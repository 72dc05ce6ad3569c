--------------------------- MODULE ServiceProofs ---------------------------
(***************************************************************************)
(* Proofs about two parts of the service of a machine.                     *)
(*                                                                         *)
(* Accounts, for any names, accounts, logins and restarts: where logins    *)
(* are files of the account's directory, an account never shows a login    *)
(* made for another; every claude the service runs can be reached from the *)
(* page; and what the person forgot stays forgotten.                       *)
(*                                                                         *)
(* CheckIn, for any number of keys, enrolments, presses and failures and   *)
(* any longest wait: the loop is never further behind than that wait.      *)
(***************************************************************************)
EXTENDS Accounts, CheckIn, TLAPS

(* Accounts. *)

Attempts == [slug : Slugs \cup {None}, at : {"none", "running", "ending", "said", "done", "over"},
             claude : BOOLEAN, found : BOOLEAN, linked : BOOLEAN]

Types ==
    /\ listed \in [Slugs -> Nat] /\ added \in Nat
    /\ dirs \subseteq Slugs /\ login \in [Slugs -> Nat]
    /\ starting \in Slugs \cup {None}
    /\ logins \in [Slugs -> 0..MaxLogins] /\ started \in 0..MaxLogins
    /\ attempt \in [Numbers -> Attempts]

\* Only one start at a time, and there is room for it.
Room == starting # None => started < MaxLogins

\* A claude runs for an account's login.
Runs == \A l \in Numbers : attempt[l].claude => attempt[l].slug \in Slugs

\* Where logins are files, one has a directory to be in.
Housed == ~Keychain => \A s \in Slugs : login[s] # 0 => s \in dirs

IInv ==
    /\ Types /\ Room /\ Runs /\ NoStrayLogin
    /\ Housed /\ (~Keychain => OldLoginNeverSurfaces)

-----------------------------------------------------------------------------
LEMMA Constants ==
    /\ MaxLogins \in Nat /\ MaxAccounts \in Nat /\ MaxRestarts \in Nat /\ None \notin Slugs
    /\ Keychain \in BOOLEAN /\ Numbers \subseteq 0..MaxLogins /\ 0 \notin Numbers
    /\ Unborn \in Attempts /\ Unborn.at = "none" /\ ~Unborn.claude
BY AccountsAssumption DEF Numbers, Unborn, Attempts

LEMMA InitInv == Init => IInv
<1> SUFFICES ASSUME Init PROVE IInv
  OBVIOUS
<1>1. Types
  BY Constants DEF Init, Types
<1>2. Room /\ Runs /\ NoStrayLogin
  BY Constants DEF Init, Room, Runs, NoStrayLogin
<1>3. Housed /\ OldLoginNeverSurfaces
  BY DEF Init, Housed, OldLoginNeverSurfaces
<1> QED BY <1>1, <1>2, <1>3 DEF IInv

-----------------------------------------------------------------------------
\* Accounts come and go; nothing happens to their logins but where the files are.
LEMMA AddStep == ASSUME IInv, NEW s \in Slugs, Add(s) PROVE IInv'
<1>1. /\ UNCHANGED <<login, removing, starting, logins, attempt, started>>
      /\ s \notin dirs /\ dirs' = dirs \cup {s} /\ added' = added + 1
      /\ listed' = listed \/ listed' = [listed EXCEPT ![s] = added + 1]
  BY DEF Add, Mutate, page
<1>2. Types'
  BY <1>1 DEF IInv, Types
<1>3. Room' /\ Runs' /\ NoStrayLogin'
  BY <1>1 DEF IInv, Room, Runs, NoStrayLogin
<1>4. Housed' /\ (~Keychain => OldLoginNeverSurfaces')
  BY <1>1 DEF IInv, Housed, OldLoginNeverSurfaces, Types
<1> QED BY <1>2, <1>3, <1>4 DEF IInv

LEMMA RemoveStep == ASSUME IInv, NEW s \in Slugs, Remove(s) \/ RemoveAll(s) PROVE IInv'
<1>1. /\ UNCHANGED <<added, starting, logins, attempt, started>>
      /\ \/ /\ dirs' = dirs /\ login' = login /\ listed' = [listed EXCEPT ![s] = 0]
         \/ /\ listed' = listed /\ dirs' \in {dirs, dirs \ {s}}
            /\ \/ login' = [login EXCEPT ![s] = 0]
               \/ login' = login /\ (Keychain \/ s \in dirs')
  BY DEF Remove, RemoveAll, Mutate, disk, file
<1>2. Types'
  BY <1>1 DEF IInv, Types
<1>3. Room' /\ Runs' /\ NoStrayLogin'
  BY <1>1 DEF IInv, Room, Runs, NoStrayLogin
<1>4. Housed' /\ (~Keychain => OldLoginNeverSurfaces')
  BY <1>1 DEF IInv, Housed, OldLoginNeverSurfaces, Types
<1> QED BY <1>2, <1>3, <1>4 DEF IInv

-----------------------------------------------------------------------------
\* A login moves on towards its end, and what the page has of it stays or ends with it.
LEMMA Onward ==
    ASSUME IInv, UNCHANGED <<listed, added, dirs, login, started>>,
           attempt' \in [Numbers -> Attempts],
           logins' \in [Slugs -> 0..MaxLogins],
           starting' \in Slugs \cup {None}, starting' # None => started < MaxLogins,
           \A l \in Numbers : attempt'[l].claude =>
             /\ attempt[l].claude /\ attempt'[l].slug = attempt[l].slug
             /\ attempt'[l].at = "running" =>
                  /\ attempt[l].at = "running"
                  /\ logins[attempt[l].slug] = l => logins'[attempt[l].slug] = l
    PROVE  IInv'
<1>1. Types'
  BY DEF IInv, Types
<1>2. Room' /\ Runs'
  BY DEF IInv, Room, Runs
<1>3. NoStrayLogin'
  BY DEF IInv, NoStrayLogin
<1>4. Housed' /\ (~Keychain => OldLoginNeverSurfaces')
  BY DEF IInv, Housed, OldLoginNeverSurfaces
<1> QED BY <1>1, <1>2, <1>3, <1>4 DEF IInv

\* The login of an account is stopped.
LEMMA CancelStep ==
    ASSUME IInv, NEW s \in Slugs, cancelLogin(s),
           UNCHANGED <<listed, added, dirs, login, starting, started>>
    PROVE  IInv'
<1>1. logins' = [logins EXCEPT ![s] = 0] /\ logins' \in [Slugs -> 0..MaxLogins]
  BY Constants DEF cancelLogin, IInv, Types
<1>2. CASE logins[s] = 0
  <2>1. attempt' = attempt
    BY <1>2 DEF cancelLogin
  <2>2. \A l \in Numbers : logins[attempt[l].slug] = l /\ attempt[l].slug \in Slugs
                            => logins'[attempt[l].slug] = l
    BY <1>1, <1>2, Constants DEF IInv, Types
  <2> QED BY <1>1, <2>1, <2>2, Onward DEF IInv, Types, Room, Runs
<1>3. CASE logins[s] # 0
  <2> DEFINE k == logins[s]
  <2>1. k \in Numbers /\ attempt' = [attempt EXCEPT ![k] = [@ EXCEPT !.claude = FALSE]]
    BY <1>3, Constants DEF cancelLogin, Stop, IInv, Types, Numbers
  <2>2. [attempt[k] EXCEPT !.claude = FALSE] \in Attempts
        /\ ~[attempt[k] EXCEPT !.claude = FALSE].claude
    <3>1. attempt[k] \in Attempts
      BY <2>1 DEF IInv, Types
    <3> HIDE DEF k
    <3> QED BY <3>1 DEF Attempts
  <2> HIDE DEF k
  <2>3. attempt' \in [Numbers -> Attempts] /\ ~attempt'[k].claude
        /\ \A l \in Numbers : l # k => attempt'[l] = attempt[l]
    BY <2>1, <2>2 DEF IInv, Types
  <2>4. ASSUME NEW l \in Numbers, l # k, attempt[l].slug \in Slugs, logins[attempt[l].slug] = l
        PROVE  logins'[attempt[l].slug] = l
    BY <1>1, <2>4 DEF k, IInv, Types
  <2> QED BY <1>1, <2>3, <2>4, Onward DEF IInv, Types, Room, Runs
<1> QED BY <1>2, <1>3

\* The goroutines of a login, and the person who signs in.
LEMMA AttemptStep ==
    ASSUME IInv, NEW l \in Numbers,
           \/ OutputEnds(l) \/ Probe(l) \/ SaysLinked(l) \/ FinalProbe(l)
           \/ publish(l) \/ watchLoginOutcome(l)
    PROVE  IInv'
<1>1. attempt[l] \in Attempts
  BY DEF IInv, Types
<1>2. /\ UNCHANGED <<listed, added, dirs, login, logins, starting, started>>
  BY DEF OutputEnds, Probe, SaysLinked, FinalProbe, publish, watchLoginOutcome, Becomes, Ended,
         Mutate, file, disk
<1>3. PICK how \in Attempts :
        /\ attempt' = [attempt EXCEPT ![l] = how]
        /\ how.slug = attempt[l].slug /\ (how.claude => attempt[l].claude)
        /\ how.at = "running" => attempt[l].at = "running"
  <2>1. CASE OutputEnds(l)
    <3>1. PICK up \in {FALSE, attempt[l].claude} :
            attempt' = [attempt EXCEPT ![l] = [attempt[l] EXCEPT !.at = "ending", !.claude = up]]
      BY <2>1 DEF OutputEnds, Becomes
    <3>2. LET how == [attempt[l] EXCEPT !.at = "ending", !.claude = up]
          IN  how \in Attempts /\ how.slug = attempt[l].slug /\ how.claude = up /\ how.at = "ending"
      BY <1>1, <3>1 DEF Attempts
    <3> QED BY <3>1, <3>2
  <2>2. CASE Probe(l)
    <3>1. LET how == [attempt[l] EXCEPT !.found = TRUE]
          IN  /\ how \in Attempts /\ how.slug = attempt[l].slug
              /\ how.claude = attempt[l].claude /\ how.at = attempt[l].at
      BY <1>1 DEF Attempts
    <3> QED BY <2>2, <3>1 DEF Probe, Becomes
  <2>3. CASE SaysLinked(l) \/ FinalProbe(l)
    <3>1. PICK islinked \in BOOLEAN :
            attempt' = [attempt EXCEPT ![l] = [attempt[l] EXCEPT !.at = "said", !.claude = FALSE,
                                                                 !.linked = islinked]]
      BY <2>3 DEF SaysLinked, FinalProbe, Ended, Becomes
    <3>2. LET how == [attempt[l] EXCEPT !.at = "said", !.claude = FALSE, !.linked = islinked]
          IN  how \in Attempts /\ how.slug = attempt[l].slug /\ how.claude = FALSE /\ how.at = "said"
      BY <1>1, <3>1 DEF Attempts
    <3> QED BY <3>1, <3>2
  <2>4. CASE publish(l)
    <3>1. LET how == [attempt[l] EXCEPT !.at = "done"]
          IN  /\ how \in Attempts /\ how.slug = attempt[l].slug
              /\ how.claude = attempt[l].claude /\ how.at = "done"
      BY <1>1 DEF Attempts
    <3> QED BY <2>4, <3>1 DEF publish, Becomes
  <2>5. CASE watchLoginOutcome(l)
    <3>1. LET how == [attempt[l] EXCEPT !.at = "over"]
          IN  /\ how \in Attempts /\ how.slug = attempt[l].slug
              /\ how.claude = attempt[l].claude /\ how.at = "over"
      BY <1>1 DEF Attempts
    <3>2. attempt' = [attempt EXCEPT ![l] = [attempt[l] EXCEPT !.at = "over"]]
      BY <2>5 DEF watchLoginOutcome, IInv, Types
    <3> QED BY <3>1, <3>2
  <2> QED BY <2>1, <2>2, <2>3, <2>4, <2>5
<1>4. attempt' \in [Numbers -> Attempts]
      /\ \A x \in Numbers : attempt'[x] = IF x = l THEN how ELSE attempt[x]
  BY <1>3 DEF IInv, Types
<1> QED BY <1>2, <1>3, <1>4, Onward DEF IInv, Types, Room

\* Half a minute after its end a login leaves the page.
LEMMA RetireStep == ASSUME IInv, NEW l \in Numbers, Retire(l) PROVE IInv'
<1>1. /\ UNCHANGED <<listed, added, dirs, login, starting, started>>
      /\ attempt' = [attempt EXCEPT ![l] = Unborn]
      /\ logins' = [s \in Slugs |-> IF logins[s] = l THEN 0 ELSE logins[s]]
  BY DEF Retire, file, disk
<1>2. logins' \in [Slugs -> 0..MaxLogins] /\ attempt' \in [Numbers -> Attempts]
      /\ \A x \in Numbers : attempt'[x] = IF x = l THEN Unborn ELSE attempt[x]
  BY <1>1, Constants DEF IInv, Types
<1>3. ASSUME NEW x \in Numbers, x # l, attempt[x].slug \in Slugs, logins[attempt[x].slug] = x
      PROVE  logins'[attempt[x].slug] = x
  BY <1>1, <1>3
<1> QED BY <1>1, <1>2, <1>3, Constants, Onward DEF IInv, Types, Room, Runs

\* The person signs in, where the account is.
LEMMA SignInStep == ASSUME IInv, NEW l \in Numbers, SignIn(l) PROVE IInv'
<1>1. PICK s \in Slugs :
        /\ UNCHANGED <<listed, added, removing, starting, logins, attempt, started>>
        /\ login' = [login EXCEPT ![s] = IF listed[s] = 0 THEN Stranger ELSE listed[s]]
        /\ dirs' = dirs \cup {s}
  BY DEF SignIn, IInv, Runs, file, page
<1>2. Types'
  BY <1>1, Constants DEF IInv, Types, Stranger
<1>3. Room' /\ Runs' /\ NoStrayLogin'
  BY <1>1 DEF IInv, Room, Runs, NoStrayLogin
<1>4. Housed' /\ (~Keychain => OldLoginNeverSurfaces')
  BY <1>1 DEF IInv, Housed, OldLoginNeverSurfaces, Types
<1> QED BY <1>2, <1>3, <1>4 DEF IInv

\* A login is started, unless one is under way.
LEMMA StartStep == ASSUME IInv, Start PROVE IInv'
<1> DEFINE s == starting
           new == [Unborn EXCEPT !.slug = s, !.at = "running", !.claude = TRUE]
<1>1. /\ UNCHANGED <<listed, added, login>>
      /\ s \in Slugs /\ starting' = None /\ started < MaxLogins
  BY DEF Start, IInv, Types, Room, file
<1>2. CASE UNCHANGED <<logins, attempt, started, dirs>>
  BY <1>1, <1>2, Onward DEF IInv, Types, Runs
<1>3. ASSUME ~inProgress(s)
      PROVE  \A l \in Numbers : attempt[l].at = "running" /\ attempt[l].claude
                                => attempt[l].slug # s
  <2>1. ASSUME NEW l \in Numbers, attempt[l].at = "running", attempt[l].claude, attempt[l].slug = s
        PROVE  FALSE
    <3>1. logins[s] = l
      BY <2>1 DEF IInv, NoStrayLogin
    <3> QED BY <1>3, <2>1, <3>1, Constants DEF inProgress
  <2> QED BY <2>1
<1>4. CASE /\ ~inProgress(s) /\ logins' = [logins EXCEPT ![s] = 0]
           /\ UNCHANGED <<attempt, started, dirs>>
  <2>1. logins' \in [Slugs -> 0..MaxLogins]
    <3>1. 0 \in 0..MaxLogins
      BY Constants
    <3> QED BY <1>4, <3>1 DEF IInv, Types
  <2>2. \A l \in Numbers : attempt[l].at = "running" /\ attempt[l].claude =>
          (logins[attempt[l].slug] = l => logins'[attempt[l].slug] = l)
    BY <1>3, <1>4 DEF IInv, Types, Runs
  <2> QED BY <1>1, <1>4, <2>1, <2>2, Onward DEF IInv, Types
<1>5. CASE ~inProgress(s) /\ Session(s)
  <2> DEFINE n == started + 1
  <2>1. n \in Numbers /\ n \in 0..MaxLogins
    BY <1>1, Constants DEF IInv, Types, Numbers
  <2>2. started' = n /\ logins' = [logins EXCEPT ![s] = n] /\ dirs' = dirs \cup {s}
        /\ attempt' = [attempt EXCEPT ![n] = new]
    BY <1>5 DEF Session
  <2>3. new \in Attempts /\ new.slug = s /\ new.at = "running" /\ new.claude
    BY <1>1, Constants DEF Attempts
  <2> HIDE DEF n, new
  <2>4. attempt' \in [Numbers -> Attempts] /\ attempt'[n] = new
        /\ \A l \in Numbers : l # n => attempt'[l] = attempt[l]
    BY <2>1, <2>2, <2>3 DEF IInv, Types
  <2>5. logins' \in [Slugs -> 0..MaxLogins] /\ logins'[s] = n
        /\ \A t \in Slugs : t # s => logins'[t] = logins[t]
    BY <1>1, <2>1, <2>2 DEF IInv, Types
  <2>6. Types'
    BY <1>1, <2>1, <2>2, <2>4, <2>5 DEF IInv, Types
  <2>7. Room' /\ Runs'
    BY <1>1, <2>3, <2>4 DEF IInv, Room, Runs
  <2>8. NoStrayLogin'
    <3>1. ASSUME NEW l \in Numbers, l # n, attempt'[l].at = "running", attempt'[l].claude
          PROVE  logins'[attempt'[l].slug] = l
      BY <1>3, <1>5, <2>4, <2>5, <3>1 DEF IInv, NoStrayLogin, Runs
    <3>2. logins'[attempt'[n].slug] = n
      BY <2>3, <2>4, <2>5
    <3> QED BY <3>1, <3>2 DEF NoStrayLogin
  <2>9. Housed' /\ (~Keychain => OldLoginNeverSurfaces')
    BY <1>1, <2>2 DEF IInv, Housed, OldLoginNeverSurfaces
  <2> QED BY <2>6, <2>7, <2>8, <2>9 DEF IInv
<1> QED BY <1>2, <1>4, <1>5 DEF Start

\* What leaves accounts, logins and claudes as they are; a restart, which ends the latter.
LEMMA AsideStep ==
    ASSUME IInv,
           \/ EnsureDefault \/ Adopt \/ RemoveDefault \/ SetDefaultDismissed \/ Restart
           \/ \E s \in Slugs : handleStartLogin(s) \/ handleDeleteAccount(s) \/ handleCancelLogin(s)
           \/ UNCHANGED vars
    PROVE  IInv'
<1> USE DEF file, disk, page, plain
<1>1. CASE Restart
  <2>1. /\ UNCHANGED <<listed, added, dirs, login, started>> /\ starting' = None
        /\ attempt' = [l \in Numbers |-> Unborn] /\ logins' = [s \in Slugs |-> 0]
    BY <1>1 DEF Restart
  <2> QED BY <2>1, Constants, Onward
<1>2. CASE \E s \in Slugs : handleStartLogin(s)
  <2>1. /\ UNCHANGED <<listed, added, dirs, login, started, attempt, logins>>
        /\ starting' \in Slugs /\ started < MaxLogins
    BY <1>2 DEF handleStartLogin
  <2> QED BY <2>1, Onward DEF IInv, Types, Runs
<1>3. CASE \E s \in Slugs : handleDeleteAccount(s) \/ handleCancelLogin(s)
  BY <1>3, CancelStep DEF handleDeleteAccount, handleCancelLogin
<1>4. CASE UNCHANGED <<file, disk, page>>
  BY <1>4 DEF IInv, Types, Room, Runs, NoStrayLogin, Housed, OldLoginNeverSurfaces
<1> QED BY <1>1, <1>2, <1>3, <1>4 DEF EnsureDefault, Adopt, RemoveDefault, SetDefaultDismissed, vars

LEMMA StepInv == IInv /\ [Next]_vars => IInv'
<1> SUFFICES ASSUME IInv, [Next]_vars PROVE IInv'
  OBVIOUS
<1>1. ASSUME NEW s \in Slugs, handleCreateAccount(s) \/ Remove(s) \/ RemoveAll(s) PROVE IInv'
  BY <1>1, AddStep, RemoveStep DEF handleCreateAccount
<1>2. ASSUME NEW l \in Numbers,
             \/ SignIn(l) \/ Retire(l)
             \/ OutputEnds(l) \/ Probe(l) \/ SaysLinked(l) \/ FinalProbe(l)
             \/ publish(l) \/ watchLoginOutcome(l)
      PROVE  IInv'
  BY <1>2, SignInStep, RetireStep, AttemptStep
<1>3. CASE Start
  BY <1>3, StartStep
<1> QED BY <1>1, <1>2, <1>3, AsideStep DEF Next

LEMMA Invariant == Spec => []IInv
<1> QED BY InitInv, StepInv, PTL DEF Spec

\* "a leftover from a removal that failed ... would otherwise be adopted silently"
\* (manager.go:91-95): where logins are files of the account's directory, the login found
\* at an account was made for it.
THEOREM LoginsAreTheirOwn == ~Keychain => (Spec => []OldLoginNeverSurfaces)
<1> SUFFICES ASSUME ~Keychain PROVE Spec => []OldLoginNeverSurfaces
  OBVIOUS
<1>1. IInv => OldLoginNeverSurfaces
  BY DEF IInv
<1> QED BY <1>1, Invariant, PTL

\* A claude the service runs for a login is one the page can reach (handleStartLogin,
\* cancelLogin, Retire), on any system.
THEOREM EveryLoginReached == Spec => []NoStrayLogin
<1>1. IInv => NoStrayLogin
  BY DEF IInv
<1> QED BY <1>1, Invariant, PTL

\* A default account the person had clawdh forget stays forgotten (EnsureDefault).
THEOREM ForgottenStaysForgotten == Spec => DismissedStaysAway
<1> DEFINE Away == dismissed /\ ~default /\ checking = "no"
<1>1. Away /\ [Next]_vars => Away'
  <2> SUFFICES ASSUME Away, [Next]_vars PROVE Away'
    OBVIOUS
  <2>1. CASE UNCHANGED plain
    BY <2>1 DEF plain
  <2>2. ~EnsureDefault /\ ~Adopt /\ ~RemoveDefault
    BY DEF EnsureDefault, Adopt, RemoveDefault
  <2>3. CASE SetDefaultDismissed
    <3>1. dismissed' = TRUE /\ default' = default /\ checking' = checking
      BY <2>3 DEF SetDefaultDismissed
    <3> QED BY <3>1, Zenon
  <2>4. CASE Restart
    <3>1. dismissed' = dismissed /\ default' = default /\ checking' = "no"
      BY <2>4 DEF Restart
    <3> QED BY <3>1, Zenon
  <2> QED BY <2>1, <2>2, <2>3, <2>4
      DEF Next, vars, handleCreateAccount, Add, handleDeleteAccount, Remove, RemoveAll,
          handleStartLogin, handleCancelLogin, SignIn, OutputEnds, Probe, SaysLinked, FinalProbe,
          publish, watchLoginOutcome, Retire, Becomes, Ended, Start
<1> QED BY <1>1, PTL DEF Spec, DismissedStaysAway

-----------------------------------------------------------------------------
\* A removal of an account is between its record and its directory, which is there.
Removals ==
    \A s \in Slugs :
        /\ listed[s] # 0 => s \in dirs
        /\ removing[s] = "cancelled" => listed[s] # 0
        /\ removing[s] = "unlisted" => listed[s] = 0 /\ s \in dirs

RemovalsInv ==
    /\ Removals
    /\ removing \in [Slugs -> {"no", "cancelled", "unlisted"}]

\* Login l ended signed in to account s, and its goroutine has yet to record it.
ToRecord(l, s) ==
    /\ attempt[l].at \in {"said", "done"} /\ attempt[l].linked /\ attempt[l].slug = s
    /\ IsLinked(s) /\ listed[s] # 0

\* What a login ended with is not forgotten before it is recorded.
NotForgotten ==
    \A l \in Numbers, s \in Slugs :
        ToRecord(l, s) =>
            ToRecord(l, s)' \/ s \in withLoginState' \/ listed'[s] = 0 \/ restarts' # restarts

LEMMA RemovalsStep == IInv /\ RemovalsInv /\ [Next]_vars => RemovalsInv'
<1> SUFFICES ASSUME IInv, RemovalsInv, [Next]_vars PROVE RemovalsInv'
  OBVIOUS
<1> USE DEF RemovalsInv, Removals, file, disk, page, plain
<1>1. listed \in [Slugs -> Nat] /\ added \in Nat /\ dirs \subseteq Slugs
  BY DEF IInv, Types
<1>2. ASSUME NEW s \in Slugs, handleCreateAccount(s) PROVE RemovalsInv'
  BY <1>1, <1>2 DEF handleCreateAccount, Add, Mutate
<1>3. ASSUME NEW s \in Slugs, handleDeleteAccount(s) PROVE RemovalsInv'
  BY <1>1, <1>3 DEF handleDeleteAccount
<1>4. ASSUME NEW s \in Slugs, Remove(s) PROVE RemovalsInv'
  BY <1>1, <1>4 DEF Remove, Mutate
<1>5. ASSUME NEW s \in Slugs, RemoveAll(s) PROVE RemovalsInv'
  BY <1>1, <1>5 DEF RemoveAll
<1>6. ASSUME UNCHANGED <<listed, removing>>, dirs \subseteq dirs' PROVE RemovalsInv'
  BY <1>6
<1>7. CASE Restart
  BY <1>7 DEF Restart
<1>8. ASSUME NEW s \in Slugs, handleStartLogin(s) \/ handleCancelLogin(s) PROVE RemovalsInv'
  BY <1>6, <1>8 DEF handleStartLogin, handleCancelLogin
<1>9. ASSUME NEW l \in Numbers,
             \/ SignIn(l) \/ Retire(l) \/ watchLoginOutcome(l)
             \/ OutputEnds(l) \/ Probe(l) \/ SaysLinked(l) \/ FinalProbe(l) \/ publish(l)
      PROVE  RemovalsInv'
  BY <1>6, <1>9 DEF SignIn, Retire, watchLoginOutcome, Mutate, OutputEnds, Probe, SaysLinked,
     FinalProbe, publish, Ended, Becomes
<1>10. CASE Start
  BY <1>6, <1>10 DEF Start, Session
<1>11. CASE EnsureDefault \/ Adopt \/ RemoveDefault \/ SetDefaultDismissed \/ UNCHANGED vars
  BY <1>6, <1>11 DEF EnsureDefault, Adopt, RemoveDefault, SetDefaultDismissed, vars
<1> QED BY <1>2, <1>3, <1>4, <1>5, <1>7, <1>8, <1>9, <1>10, <1>11 DEF Next

\* Logins that were not started yet have no outcome.
Unbegun == \A l \in Numbers : l > started => attempt[l].at = "none"

LEMMA UnbegunStep == IInv /\ Unbegun /\ [Next]_vars => Unbegun'
<1> SUFFICES ASSUME IInv, Unbegun, [Next]_vars PROVE Unbegun'
  OBVIOUS
<1> USE DEF file, disk, page, plain
<1>1. attempt \in [Numbers -> Attempts] /\ started \in 0..MaxLogins /\ Numbers \subseteq Nat
  BY Constants DEF IInv, Types, Numbers
<1>2. ASSUME started' = started, \A l \in Numbers : attempt[l].at = "none" => attempt'[l].at = "none"
      PROVE  Unbegun'
  BY <1>2 DEF Unbegun
<1>3. ASSUME UNCHANGED <<started, attempt>> PROVE Unbegun'
  BY <1>2, <1>3
<1>4. ASSUME NEW s \in Slugs, handleDeleteAccount(s) \/ handleCancelLogin(s) PROVE Unbegun'
  <2>1. started' = started /\ (attempt' = attempt \/ attempt' = Stop(logins[s]))
    BY <1>4 DEF handleDeleteAccount, handleCancelLogin, cancelLogin
  <2>2. \A l \in Numbers : attempt'[l].at = attempt[l].at
    BY <1>1, <2>1 DEF Stop, Attempts
  <2> QED BY <1>2, <2>1, <2>2
<1>5. ASSUME NEW l \in Numbers,
             \/ OutputEnds(l) \/ Probe(l) \/ SaysLinked(l) \/ FinalProbe(l)
             \/ publish(l) \/ watchLoginOutcome(l)
      PROVE  Unbegun'
  <2>1. /\ started' = started /\ attempt[l].at # "none"
        /\ \A k \in Numbers \ {l} : attempt'[k] = attempt[k]
    BY <1>1, <1>5 DEF OutputEnds, Probe, SaysLinked, FinalProbe, publish, watchLoginOutcome,
       Becomes, Ended
  <2> QED BY <1>2, <2>1
<1>6. ASSUME NEW l \in Numbers, Retire(l) PROVE Unbegun'
  <2>1. started' = started /\ attempt' = [attempt EXCEPT ![l] = Unborn]
    BY <1>6 DEF Retire
  <2> QED BY <1>1, <1>2, <2>1, Constants
<1>7. CASE Restart
  BY <1>2, <1>7, Constants DEF Restart
<1>8. CASE Start
  <2>1. CASE UNCHANGED <<started, attempt>>
    BY <1>3, <2>1
  <2>2. CASE Session(starting)
    <3>1. /\ started' = started + 1
          /\ \A l \in Numbers \ {started + 1} : attempt'[l] = attempt[l]
      BY <1>1, <2>2 DEF Session
    <3> QED BY <1>1, <3>1 DEF Unbegun
  <2> QED BY <1>8, <2>1, <2>2 DEF Start
<1>9. ASSUME NEW s \in Slugs,
             handleCreateAccount(s) \/ Remove(s) \/ RemoveAll(s) \/ handleStartLogin(s)
      PROVE  Unbegun'
  BY <1>3, <1>9 DEF handleCreateAccount, Add, Remove, RemoveAll, handleStartLogin
<1>10. ASSUME NEW l \in Numbers, SignIn(l) PROVE Unbegun'
  BY <1>3, <1>10 DEF SignIn
<1>11. CASE EnsureDefault \/ Adopt \/ RemoveDefault \/ SetDefaultDismissed \/ UNCHANGED vars
  BY <1>3, <1>11 DEF EnsureDefault, Adopt, RemoveDefault, SetDefaultDismissed, vars
<1> QED BY <1>4, <1>5, <1>6, <1>7, <1>8, <1>9, <1>10, <1>11 DEF Next

\* A login that ended signed in is recorded (watchLoginOutcome), whoever closes the page,
\* cancels it, starts another or signs in again: nothing but the account's removal or the
\* end of the service comes in between, and a removal under way takes no login of an
\* account that was added since.
THEOREM SignedInIsRecorded == Spec => [][NotForgotten]_vars
<1>1. Init => RemovalsInv /\ Unbegun
  BY Constants DEF Init, RemovalsInv, Removals, Unbegun
<1>2. IInv /\ RemovalsInv /\ Unbegun /\ [Next]_vars => [NotForgotten]_vars
  <2> SUFFICES ASSUME IInv, RemovalsInv, Unbegun, Next,
                      NEW l \in Numbers, NEW s \in Slugs, ToRecord(l, s)
               PROVE  \/ ToRecord(l, s)' \/ s \in withLoginState'
                      \/ listed'[s] = 0 \/ restarts' # restarts
    BY DEF NotForgotten
  <2> USE DEF file, disk, page, plain
  <2>1. /\ attempt \in [Numbers -> Attempts] /\ started \in 0..MaxLogins /\ Numbers \subseteq Nat
        /\ listed \in [Slugs -> Nat] /\ login \in [Slugs -> Nat] /\ added \in Nat
        /\ MaxAccounts \in Nat
    BY Constants DEF IInv, Types, Numbers
  <2>2. ASSUME attempt'[l].at \in {"said", "done"}, attempt'[l].linked, attempt'[l].slug = s,
               login'[s] # 0, listed'[s] = listed[s]
        PROVE  ToRecord(l, s)'
    BY <2>2 DEF ToRecord, IsLinked
  <2>3. ASSUME UNCHANGED <<attempt, login, listed>> PROVE ToRecord(l, s)'
    BY <2>2, <2>3 DEF ToRecord, IsLinked
  <2>4. ASSUME NEW t \in Slugs, handleCreateAccount(t) PROVE ToRecord(l, s)'
    <3>1. t # s
      BY <2>4 DEF handleCreateAccount, Add, ToRecord
    <3>2. UNCHANGED <<attempt, login>> /\ listed'[s] = listed[s]
      BY <2>1, <2>4, <3>1 DEF handleCreateAccount, Add, Mutate
    <3> QED BY <2>2, <3>2 DEF ToRecord, IsLinked
  <2>5. ASSUME NEW t \in Slugs, handleDeleteAccount(t) \/ handleCancelLogin(t) PROVE ToRecord(l, s)'
    <3>1. /\ UNCHANGED <<login, listed>>
          /\ attempt' = attempt \/ attempt' = Stop(logins[t])
      BY <2>5 DEF handleDeleteAccount, handleCancelLogin, cancelLogin
    <3>2. /\ attempt'[l].at = attempt[l].at /\ attempt'[l].slug = attempt[l].slug
          /\ attempt'[l].linked = attempt[l].linked
      BY <2>1, <3>1 DEF Stop, Attempts
    <3> QED BY <2>2, <3>1, <3>2 DEF ToRecord, IsLinked
  <2>6. ASSUME NEW t \in Slugs, Remove(t) PROVE ToRecord(l, s)' \/ listed'[s] = 0
    <3>1. UNCHANGED <<attempt, login>> /\ listed' = [listed EXCEPT ![t] = 0]
      BY <2>6 DEF Remove, Mutate
    <3>2. CASE t = s
      BY <2>1, <3>1, <3>2
    <3>3. CASE t # s
      BY <2>1, <2>2, <3>1, <3>3 DEF ToRecord, IsLinked
    <3> QED BY <3>2, <3>3
  <2>7. ASSUME NEW t \in Slugs, RemoveAll(t) PROVE ToRecord(l, s)'
    <3>1. t # s
      BY <2>7 DEF RemoveAll, RemovalsInv, Removals, ToRecord
    <3>2. UNCHANGED <<attempt, listed>> /\ login' \in {login, [login EXCEPT ![t] = 0]}
      BY <2>7 DEF RemoveAll
    <3> QED BY <2>1, <2>2, <3>1, <3>2 DEF ToRecord, IsLinked
  <2>8. ASSUME NEW k \in Numbers, SignIn(k) PROVE ToRecord(l, s)'
    <3>1. UNCHANGED <<attempt, listed>> /\ login'[s] # 0
      BY <2>1, <2>8 DEF SignIn, ToRecord, IsLinked, Stranger
    <3> QED BY <2>2, <3>1 DEF ToRecord, IsLinked
  <2>9. ASSUME NEW k \in Numbers, OutputEnds(k) \/ Probe(k) \/ SaysLinked(k) \/ FinalProbe(k)
        PROVE  ToRecord(l, s)'
    <3>1. /\ UNCHANGED <<login, listed>> /\ k # l
          /\ \A i \in Numbers \ {k} : attempt'[i] = attempt[i]
      BY <2>1, <2>9 DEF OutputEnds, Probe, SaysLinked, FinalProbe, Becomes, Ended, ToRecord
    <3> QED BY <2>2, <3>1 DEF ToRecord, IsLinked
  <2>10. ASSUME NEW k \in Numbers, publish(k) PROVE ToRecord(l, s)'
    <3>1. /\ UNCHANGED <<login, listed>>
          /\ attempt' = [attempt EXCEPT ![k] = [attempt[k] EXCEPT !.at = "done"]]
      BY <2>10 DEF publish, Becomes
    <3>2. /\ attempt'[l].at \in {"said", "done"} /\ attempt'[l].slug = attempt[l].slug
          /\ attempt'[l].linked = attempt[l].linked
      BY <2>1, <3>1 DEF Attempts, ToRecord
    <3> QED BY <2>2, <3>1, <3>2 DEF ToRecord, IsLinked
  <2>11. ASSUME NEW k \in Numbers, watchLoginOutcome(k)
         PROVE  ToRecord(l, s)' \/ s \in withLoginState'
    <3>1. UNCHANGED <<login, listed>>
      BY <2>11 DEF watchLoginOutcome, Mutate
    <3>2. CASE k = l
      <4>1. s \in linked'
        BY <2>11, <3>2 DEF watchLoginOutcome, Mutate, ToRecord
      <4> QED BY <3>1, <4>1 DEF withLoginState, IsLinked, ToRecord
    <3>3. CASE k # l
      <4>1. attempt'[l] = attempt[l]
        BY <2>1, <2>11, <3>3 DEF watchLoginOutcome
      <4> QED BY <2>2, <3>1, <4>1 DEF ToRecord, IsLinked
    <3> QED BY <3>2, <3>3
  <2>12. ASSUME NEW k \in Numbers, Retire(k) PROVE ToRecord(l, s)'
    <3>1. k # l /\ UNCHANGED <<login, listed>> /\ attempt' = [attempt EXCEPT ![k] = Unborn]
      BY <2>12 DEF Retire, ToRecord
    <3> QED BY <2>1, <2>2, <3>1 DEF ToRecord, IsLinked
  <2>13. CASE Start
    <3>1. UNCHANGED <<login, listed>>
      BY <2>13 DEF Start
    <3>2. attempt'[l] = attempt[l]
      <4>1. l # started + 1
        BY <2>1 DEF Unbegun, ToRecord
      <4> QED BY <2>1, <2>13, <4>1 DEF Start, Session
    <3> QED BY <2>2, <3>1, <3>2 DEF ToRecord, IsLinked
  <2>14. CASE Restart
    BY <2>14, Constants, AccountsAssumption DEF Restart
  <2>15. ASSUME \/ EnsureDefault \/ Adopt \/ RemoveDefault \/ SetDefaultDismissed
                \/ \E t \in Slugs : handleStartLogin(t)
         PROVE  ToRecord(l, s)'
    BY <2>3, <2>15 DEF EnsureDefault, Adopt, RemoveDefault, SetDefaultDismissed, handleStartLogin
  <2> QED BY <2>4, <2>5, <2>6, <2>7, <2>8, <2>9, <2>10, <2>11, <2>12, <2>13, <2>14, <2>15 DEF Next
<1> QED BY <1>1, <1>2, RemovalsStep, UnbegunStep, Invariant, PTL DEF Spec

-----------------------------------------------------------------------------
(* CheckIn. *)

Sayings == [kind : {"none", "ok", "refused", "failed"}, share : Nat, notices : SUBSET Nat]
Asks == [at : {"idle", "asking", "known", "answered", "over", "joined", "adding", "taking"},
         as : Nat, answer : Sayings]

ExchangeTypes ==
    /\ share \in Nat /\ minted \in Nat /\ enrolled \in Nat /\ config \in Nat
    /\ pressed \in Nat /\ presses \in Nat /\ cache \in Nat /\ failures \in Nat
    /\ behind \in Nat /\ trouble \in Nat /\ wait \in 0..CheckInBackoffMax
    /\ devices \subseteq Nat /\ told \subseteq Nat /\ reachable \in BOOLEAN
    /\ ask \in [Askers -> Asks]

\* Nothing counts as behind before the loop begins to wait, and what does is behind
\* a check-in that is due or under way.
OnTheBeat ==
    /\ ~reachable \/ config = 0 => behind = 0
    /\ ask["loop"].at = "answered" /\ ask["loop"].answer.kind = "failed" => behind = 0
    /\ ask["loop"].at = "idle" /\ wait > 0 => behind = 0

\* Who has just joined has an enrolment.
Joins == ask["page"].at = "joined" => ask["page"].as # 0

BeatInv == ExchangeTypes /\ OnTheBeat /\ Joins /\ FiveMinutesBehindAtMost

-----------------------------------------------------------------------------
LEMMA BackoffBounds ==
    ASSUME NEW n \in Nat
    PROVE  checkInBackoff(n) \in 1..CheckInBackoffMax
<1>1. CheckInBackoffMax \in Nat /\ CheckInBackoffMax >= 1
  BY CheckInAssumption
<1>2. CASE n <= 1
  BY <1>1, <1>2 DEF checkInBackoff
<1>3. CASE ~(n <= 1)
  <2>1. CASE 2^(n - 1) \in 1..CheckInBackoffMax
    BY <1>3, <2>1 DEF checkInBackoff
  <2>2. CASE 2^(n - 1) \notin 1..CheckInBackoffMax
    BY <1>1, <1>3, <2>2 DEF checkInBackoff
  <2> QED BY <2>1, <2>2
<1> QED BY <1>2, <1>3

\* What a question or an answer is made of.
LEMMA AskParts ==
    /\ Nothing \in Sayings /\ Says("refused") \in Sayings /\ Says("ok") \in Sayings
    /\ Says("failed") \in Sayings /\ Says("failed").kind = "failed"
    /\ Idle \in Asks /\ Idle.at = "idle" /\ "loop" \in Askers /\ "page" \in Askers
    /\ \A e \in Nat, at \in {"idle", "asking", "over", "joined", "adding", "taking"} :
         At(at, e) \in Asks /\ At(at, e).at = at
<1>1. Nothing \in Sayings
  BY DEF Nothing, Sayings
<1>2. /\ Says("refused") \in Sayings /\ Says("ok") \in Sayings
      /\ Says("failed") \in Sayings /\ Says("failed").kind = "failed"
  BY DEF Says, Nothing, Sayings
<1>3. \A e \in Nat, at \in {"idle", "asking", "over", "joined", "adding", "taking"} :
        At(at, e) \in Asks /\ At(at, e).at = at
  BY <1>1 DEF At, Asks
<1> QED BY <1>1, <1>2, <1>3 DEF Idle, Askers

\* A step of the page, or of the world, that lets the loop and its wait be.
LEMMA Beside ==
    ASSUME BeatInv, UNCHANGED <<wait, failures>>,
           share' \in Nat, minted' \in Nat, enrolled' \in Nat, config' \in Nat,
           pressed' \in Nat, presses' \in Nat, cache' \in Nat, trouble' \in Nat,
           devices' \subseteq Nat, told' \subseteq Nat, reachable' \in BOOLEAN,
           ask' \in [Askers -> Asks], ask'["loop"] = ask["loop"],
           behind' \in {behind, 0},
           ~reachable' \/ config' = 0 => behind' = 0,
           ask'["page"] = ask["page"] \/ Joins'
    PROVE  BeatInv'
<1>1. ExchangeTypes'
  BY DEF BeatInv, ExchangeTypes
<1>2. OnTheBeat' /\ FiveMinutesBehindAtMost'
  BY CheckInAssumption DEF BeatInv, ExchangeTypes, OnTheBeat, FiveMinutesBehindAtMost
<1>3. Joins'
  BY DEF BeatInv, Joins
<1> QED BY <1>1, <1>2, <1>3 DEF BeatInv

\* The panel's people, the world, and the switch for remote help.
LEMMA WorldStep ==
    ASSUME BeatInv,
           \/ Grant \/ RevokeShare \/ Outage \/ OutageEnds \/ \E e \in devices : CutOff(e)
           \/ handlePanelDisconnect \/ RemoteSwitchReads \/ handleRemoteEnable
    PROVE  BeatInv'
<1> USE DEF panelState, machine, switch, beat
<1> DEFINE Mild ==
             /\ UNCHANGED <<ask, wait, failures, cache, told, enrolled>>
             /\ share' \in Nat /\ minted' \in Nat /\ devices' \subseteq Nat
             /\ config' \in Nat /\ pressed' \in Nat /\ presses' \in Nat /\ trouble' \in Nat
             /\ reachable' \in BOOLEAN /\ behind' \in {behind, 0}
             /\ ~reachable' \/ config' = 0 => behind' = 0
<1>1. CASE Grant
  <2>1. Mild
    BY <1>1 DEF Grant, BeatInv, ExchangeTypes, OnTheBeat
  <2> QED BY <2>1, Beside DEF BeatInv, ExchangeTypes
<1>2. CASE RevokeShare
  <2>1. Mild
    BY <1>2 DEF RevokeShare, BeatInv, ExchangeTypes, OnTheBeat
  <2> QED BY <2>1, Beside DEF BeatInv, ExchangeTypes
<1>3. ASSUME NEW e \in devices, CutOff(e) PROVE BeatInv'
  <2>1. Mild
    BY <1>3 DEF CutOff, BeatInv, ExchangeTypes, OnTheBeat
  <2> QED BY <2>1, Beside DEF BeatInv, ExchangeTypes
<1>4. CASE Outage
  <2>2. behind' = 0 /\ reachable' \in BOOLEAN
    BY <1>4 DEF Outage
  <2>1. Mild
    BY <1>4, <2>2 DEF Outage, BeatInv, ExchangeTypes
  <2> QED BY <2>1, Beside DEF BeatInv, ExchangeTypes
<1>5. CASE OutageEnds
  <2>1. config' = 0 => behind' = 0
    BY <1>5 DEF OutageEnds, BeatInv, OnTheBeat
  <2>2. Mild
    BY <1>5, <2>1 DEF OutageEnds, BeatInv, ExchangeTypes
  <2> QED BY <2>2, Beside DEF BeatInv, ExchangeTypes
<1>6. CASE handlePanelDisconnect
  <2>1. Mild
    BY <1>6 DEF handlePanelDisconnect, BeatInv, ExchangeTypes, OnTheBeat
  <2> QED BY <2>1, Beside DEF BeatInv, ExchangeTypes
<1>7. CASE RemoteSwitchReads
  <2>1. Mild
    BY <1>7 DEF RemoteSwitchReads, BeatInv, ExchangeTypes, OnTheBeat
  <2> QED BY <2>1, Beside DEF BeatInv, ExchangeTypes
<1>8. CASE handleRemoteEnable
  <2>2. config' # 0 /\ (~reachable' => behind' = 0)
    BY <1>8 DEF handleRemoteEnable, BeatInv, OnTheBeat
  <2>1. Mild
    BY <1>8, <2>2 DEF handleRemoteEnable, BeatInv, ExchangeTypes
  <2> QED BY <2>1, Beside DEF BeatInv, ExchangeTypes
<1> QED BY <1>1, <1>2, <1>3, <1>4, <1>5, <1>6, <1>7, <1>8

\* The panel answers, or does not.
LEMMA AnswerStep ==
    ASSUME BeatInv, NEW a \in Askers, device(a) \/ handleCheckin(a) \/ Unanswered(a)
    PROVE  BeatInv'
<1> USE DEF panelState, machine, switch, beat
<1>1. /\ UNCHANGED <<share, minted, enrolled, config, pressed, presses, cache, devices,
                     told, reachable, wait, failures>>
      /\ trouble' \in Nat /\ ask[a].at \in {"asking", "known"}
      /\ behind' \in {behind, 0}
  BY DEF device, handleCheckin, Unanswered, BeatInv, ExchangeTypes
<1>2. ask[a] \in Asks /\ ask \in [Askers -> Asks]
  BY DEF BeatInv, ExchangeTypes
<1>3. PICK what \in Asks :
        /\ ask' = [ask EXCEPT ![a] = what]
        /\ what.at \in {"known", "answered"}
        /\ what.answer.kind = "failed" => behind' = 0 \/ what.at = "known"
  <2>1. CASE device(a)
    <3>1. /\ [ask[a] EXCEPT !.at = "known"] \in Asks
          /\ [ask[a] EXCEPT !.at = "answered", !.answer = Says("refused")] \in Asks
          /\ Says("refused").kind = "refused"
      BY <1>2, AskParts DEF Asks, Says, Nothing
    <3> QED BY <2>1, <3>1 DEF device, Put, Asks
  <2>2. CASE handleCheckin(a)
    <3> DEFINE said == [kind |-> "ok", share |-> share, notices |-> checkinNotices]
    <3>1. said \in Sayings /\ said.kind = "ok" /\ Says("ok").kind = "ok"
      BY DEF BeatInv, ExchangeTypes, Sayings, checkinNotices, Says, Nothing
    <3> HIDE DEF said
    <3>2. \A s \in Sayings :
            /\ [ask[a] EXCEPT !.at = "answered", !.answer = s] \in Asks
            /\ [ask[a] EXCEPT !.at = "answered", !.answer = s].at = "answered"
            /\ [ask[a] EXCEPT !.at = "answered", !.answer = s].answer = s
      BY <1>2 DEF Asks
    <3>3. \/ ask' = [ask EXCEPT ![a] = [ask[a] EXCEPT !.at = "answered", !.answer = said]]
          \/ ask' = [ask EXCEPT ![a] = [ask[a] EXCEPT !.at = "answered", !.answer = Says("ok")]]
      BY <2>2 DEF handleCheckin, Put, said
    <3> QED BY <3>1, <3>2, <3>3, AskParts
  <2>3. CASE Unanswered(a)
    <3> DEFINE what == [ask[a] EXCEPT !.at = "answered", !.answer = Says("failed")]
    <3>1. what \in Asks /\ what.at = "answered" /\ what.answer = Says("failed")
      BY <1>2, AskParts DEF Asks
    <3>2. behind' = 0
      BY <2>3 DEF Unanswered, BeatInv, OnTheBeat
    <3>3. ask' = [ask EXCEPT ![a] = what]
      BY <2>3 DEF Unanswered, Put
    <3> HIDE DEF what
    <3> QED BY <3>1, <3>2, <3>3
  <2> QED BY <2>1, <2>2, <2>3
<1>4. ask' \in [Askers -> Asks] /\ ask'[a] = what /\ \A b \in Askers : b # a => ask'[b] = ask[b]
  BY <1>2, <1>3
<1>5. ~reachable' \/ config' = 0 => behind' = 0
  BY <1>1 DEF BeatInv, OnTheBeat
<1>6. CASE a = "page"
  <2>1. Joins'
    BY <1>3, <1>4, <1>6 DEF Joins
  <2> QED BY <1>1, <1>4, <1>5, <1>6, <2>1, AskParts, Beside DEF BeatInv, ExchangeTypes
<1>7. CASE a = "loop"
  <2>1. ExchangeTypes'
    BY <1>1, <1>4 DEF BeatInv, ExchangeTypes
  <2>2. OnTheBeat'
    BY <1>3, <1>4, <1>5, <1>7 DEF OnTheBeat
  <2>3. FiveMinutesBehindAtMost'
    BY <1>1, CheckInAssumption DEF BeatInv, FiveMinutesBehindAtMost
  <2>4. Joins'
    BY <1>4, <1>7, AskParts DEF BeatInv, Joins
  <2> QED BY <2>1, <2>2, <2>3, <2>4 DEF BeatInv
<1> QED BY <1>6, <1>7 DEF Askers

\* The machine makes of an answer what it says.
LEMMA Learns ==
    ASSUME BeatInv, NEW a \in Askers, ClientCheckIn(a) PROVE cache' \in Nat
<1>1. ask[a].answer.share \in Nat /\ cache \in Nat
  BY DEF BeatInv, ExchangeTypes, Asks, Sayings
<1> QED BY <1>1 DEF ClientCheckIn, applyShares

LEMMA LoopAsksStep == ASSUME BeatInv, watchPanelAsks PROVE BeatInv'
<1> USE DEF panelState, machine, switch, beat
<1>1. /\ UNCHANGED <<share, minted, enrolled, config, pressed, presses, cache, devices,
                     told, reachable, failures, behind, trouble>>
      /\ ask["loop"].at = "idle" /\ wait = 0
      /\ \/ config = 0 /\ wait' = 1 /\ ask' = ask
         \/ wait' = wait /\ ask' = [ask EXCEPT !["loop"] = At("asking", config)]
  BY DEF watchPanelAsks, Put
<1>2. At("asking", config) \in Asks /\ At("asking", config).at = "asking"
  BY AskParts DEF BeatInv, ExchangeTypes
<1>3. /\ ask' \in [Askers -> Asks] /\ wait' \in 0..CheckInBackoffMax
      /\ ask'["loop"].at \in {"idle", "asking"}
      /\ ask'["loop"].at = "idle" => config = 0
  BY <1>1, <1>2, AskParts, CheckInAssumption DEF BeatInv, ExchangeTypes
<1>4. ExchangeTypes'
  BY <1>1, <1>3 DEF BeatInv, ExchangeTypes
<1>5. OnTheBeat' /\ FiveMinutesBehindAtMost'
  BY <1>1, <1>3 DEF BeatInv, OnTheBeat, FiveMinutesBehindAtMost
<1>6. Joins'
  BY <1>1, AskParts DEF BeatInv, ExchangeTypes, Joins
<1> QED BY <1>4, <1>5, <1>6 DEF BeatInv

\* The loop takes its answer: over, or a wait from which nothing is behind yet.
LEMMA LoopLearnsStep == ASSUME BeatInv, watchPanel PROVE BeatInv'
<1> USE DEF panelState, machine, switch, beat
<1>1. /\ UNCHANGED <<share, minted, enrolled, config, pressed, presses, devices, reachable,
                     trouble>>
      /\ cache' \in Nat /\ ask["loop"].at = "answered"
      /\ told' = told \cup ask["loop"].answer.notices
  BY Learns, AskParts DEF watchPanel, showNotices
<1>2. ask["loop"] \in Asks
  BY AskParts DEF BeatInv, ExchangeTypes
<1>3. told' \subseteq Nat
  BY <1>1, <1>2 DEF BeatInv, ExchangeTypes, Asks, Sayings
<1>4. /\ failures' \in Nat /\ wait' \in 0..CheckInBackoffMax /\ behind' = 0
      /\ ask' \in [Askers -> Asks] /\ ask'["loop"].at \in {"idle", "over"}
      /\ ask'["page"] = ask["page"]
  <2>1. Fails \in Nat /\ 0 \in Nat
    BY CheckInAssumption DEF BeatInv, ExchangeTypes, Fails
  <2>2. /\ checkInBackoff(Fails) \in 0..CheckInBackoffMax
        /\ checkInBackoff(0) \in 0..CheckInBackoffMax
    <3>1. \A n \in Nat : n \in 1..CheckInBackoffMax => n \in 0..CheckInBackoffMax
      BY CheckInAssumption
    <3>2. /\ checkInBackoff(Fails) \in 1..CheckInBackoffMax
          /\ checkInBackoff(0) \in 1..CheckInBackoffMax
      BY <2>1, BackoffBounds
    <3> QED BY <3>1, <3>2, CheckInAssumption
  <2>3. At("over", 0) \in Asks /\ At("over", 0).at = "over"
    BY AskParts
  <2>4. CASE ask["loop"].answer.kind = "refused"
    <3>1. behind' = 0 /\ UNCHANGED <<wait, failures>>
          /\ ask' = [ask EXCEPT !["loop"] = At("over", 0)]
      BY <2>4 DEF watchPanel, Put
    <3> QED BY <2>3, <3>1, AskParts DEF BeatInv, ExchangeTypes
  <2>5. CASE ask["loop"].answer.kind = "failed"
    <3>1. /\ ask' = [ask EXCEPT !["loop"] = Idle] /\ failures' = Fails
          /\ wait' = checkInBackoff(Fails) /\ behind' = behind
      BY <2>5 DEF watchPanel, Put
    <3>2. behind = 0
      BY <1>1, <2>5 DEF BeatInv, OnTheBeat
    <3> QED BY <2>1, <2>2, <3>1, <3>2, AskParts DEF BeatInv, ExchangeTypes
  <2>6. CASE ask["loop"].answer.kind \notin {"refused", "failed"}
    <3>1. /\ ask' = [ask EXCEPT !["loop"] = Idle] /\ failures' = 0
          /\ wait' = checkInBackoff(0) /\ behind' = 0
      BY <2>6 DEF watchPanel, Put
    <3> QED BY <2>1, <2>2, <3>1, AskParts DEF BeatInv, ExchangeTypes
  <2> QED BY <2>4, <2>5, <2>6
<1>5. ExchangeTypes'
  BY <1>1, <1>3, <1>4 DEF BeatInv, ExchangeTypes
<1>6. OnTheBeat' /\ FiveMinutesBehindAtMost'
  BY <1>4, CheckInAssumption DEF OnTheBeat, FiveMinutesBehindAtMost
<1>7. Joins'
  BY <1>4 DEF BeatInv, Joins
<1> QED BY <1>5, <1>6, <1>7 DEF BeatInv

\* The page and the terminal: joining, checking, handing a login up, taking one back.
LEMMA PageStep ==
    ASSUME BeatInv,
           \/ handleEnroll \/ enrollMachine \/ panelCheck \/ PageAnswered
           \/ handleAddLoginToPanel \/ handleWithdrawFromPanel
           \/ Contribute \/ ClientWithdraw \/ TurnedDown
    PROVE  BeatInv'
<1> USE DEF panelState, machine, switch, beat
<1>1. /\ UNCHANGED <<wait, failures, behind, reachable, told, pressed>>
  BY DEF handleEnroll, enrollMachine, handlePanelConnect, panelCheck, PageAnswered,
         handleAddLoginToPanel, handleWithdrawFromPanel, panelClient, Contribute,
         ClientWithdraw, TurnedDown
<1>2. ask["page"] \in Asks /\ ask["page"].as \in Nat /\ enrolled \in Nat /\ config \in Nat
  BY AskParts DEF BeatInv, ExchangeTypes, Asks
<1>3. ask' \in [Askers -> Asks] /\ ask'["loop"] = ask["loop"] /\ Joins'
  <2>1. PICK what \in Asks : /\ ask' = [ask EXCEPT !["page"] = what]
                             /\ what.at = "joined" => what.as # 0
    <3>0. At("joined", enrolled + 1).as = enrolled + 1 /\ enrolled + 1 # 0
      BY <1>2 DEF At
    <3>1. /\ At("joined", enrolled + 1) \in Asks /\ At("asking", ask["page"].as) \in Asks
          /\ At("asking", config) \in Asks /\ At("adding", config) \in Asks
          /\ At("taking", config) \in Asks /\ Idle \in Asks /\ Idle.at # "joined"
          /\ At("asking", ask["page"].as).at # "joined" /\ At("asking", config).at # "joined"
          /\ At("adding", config).at # "joined" /\ At("taking", config).at # "joined"
      BY <1>2, AskParts
    <3>2. ask = [ask EXCEPT !["page"] = ask["page"]]
          /\ (ask["page"].at = "joined" => ask["page"].as # 0)
      BY DEF BeatInv, ExchangeTypes, Joins
    <3>3. CASE handleEnroll
      BY <1>2, <3>0, <3>1, <3>2, <3>3 DEF handleEnroll, Put, Enroll
    <3>4. CASE enrollMachine
      BY <3>1, <3>4 DEF enrollMachine, handlePanelConnect, Put
    <3>5. CASE panelCheck \/ handleAddLoginToPanel \/ handleWithdrawFromPanel
      BY <3>1, <3>5 DEF panelCheck, handleAddLoginToPanel, handleWithdrawFromPanel,
                        panelClient, Put
    <3>6. CASE PageAnswered \/ TurnedDown
      BY <3>1, <3>6 DEF PageAnswered, TurnedDown, Put
    <3>7. CASE Contribute \/ ClientWithdraw
      BY <3>1, <3>7 DEF Contribute, ClientWithdraw, Client, Put
    <3> QED BY <3>3, <3>4, <3>5, <3>6, <3>7
  <2>2. ask'["page"] = what /\ ask'["loop"] = ask["loop"] /\ ask' \in [Askers -> Asks]
    BY <2>1, AskParts DEF BeatInv, ExchangeTypes
  <2> QED BY <2>1, <2>2 DEF Joins
<1>4. /\ share' \in Nat /\ minted' \in Nat /\ enrolled' \in Nat /\ devices' \subseteq Nat
      /\ trouble' \in Nat
  <2>1. CASE handleEnroll
    BY <1>2, <2>1 DEF handleEnroll, BeatInv, ExchangeTypes
  <2>2. CASE Contribute
    BY <2>2 DEF Contribute, BeatInv, ExchangeTypes
  <2>3. CASE ClientWithdraw
    BY <2>3 DEF ClientWithdraw, BeatInv, ExchangeTypes
  <2>4. CASE enrollMachine \/ PageAnswered \/ TurnedDown
    BY <2>4 DEF enrollMachine, handlePanelConnect, PageAnswered, TurnedDown, BeatInv,
                ExchangeTypes
  <2>5. CASE panelCheck \/ handleAddLoginToPanel \/ handleWithdrawFromPanel
    BY <2>5 DEF panelCheck, handleAddLoginToPanel, handleWithdrawFromPanel, panelClient,
                BeatInv, ExchangeTypes
  <2> QED BY <2>1, <2>2, <2>3, <2>4, <2>5
<1>5. /\ config' \in Nat /\ presses' \in Nat
      /\ config' = 0 => config = 0 \/ behind = 0
  <2>1. CASE enrollMachine
    <3>1. config' = ask["page"].as /\ presses' = presses /\ ask["page"].at = "joined"
      BY <2>1 DEF enrollMachine, handlePanelConnect, SaveClientConfig
    <3>2. ask["page"].as # 0
      BY <3>1 DEF BeatInv, Joins
    <3> QED BY <1>2, <3>1, <3>2 DEF BeatInv, ExchangeTypes
  <2>2. CASE panelCheck \/ handleAddLoginToPanel \/ handleWithdrawFromPanel
    BY <2>2 DEF panelCheck, handleAddLoginToPanel, handleWithdrawFromPanel, panelClient,
                BeatInv, ExchangeTypes
  <2>3. CASE \/ handleEnroll \/ PageAnswered \/ Contribute \/ ClientWithdraw \/ TurnedDown
    BY <2>3 DEF handleEnroll, PageAnswered, Contribute, ClientWithdraw, TurnedDown,
                BeatInv, ExchangeTypes
  <2> QED BY <2>1, <2>2, <2>3
<1>6. cache' \in Nat
  <2>1. CASE PageAnswered
    BY <2>1, Learns, AskParts DEF PageAnswered
  <2>2. CASE ~PageAnswered
    BY <2>2 DEF BeatInv, ExchangeTypes, handleEnroll, enrollMachine, handlePanelConnect,
         panelCheck, handleAddLoginToPanel, handleWithdrawFromPanel, panelClient,
         Contribute, ClientWithdraw, TurnedDown
  <2> QED BY <2>1, <2>2
<1> QED BY <1>1, <1>3, <1>4, <1>5, <1>6, Beside DEF BeatInv, ExchangeTypes, OnTheBeat

LEMMA RestartServiceStep == ASSUME BeatInv, RestartService PROVE BeatInv'
<1>1. ask' \in [Askers -> Asks] /\ ask'["loop"].at = "idle" /\ ask'["page"].at = "idle"
  BY AskParts DEF RestartService
<1> QED BY <1>1, CheckInAssumption
        DEF RestartService, panelState, machine, BeatInv, ExchangeTypes, OnTheBeat, Joins,
            FiveMinutesBehindAtMost

\* Time passes; a wait that has come to its end is all there is behind.
LEMMA TickStep == ASSUME BeatInv, Tick PROVE BeatInv'
<1>1. /\ UNCHANGED <<panelState, reachable, machine, switch, ask, failures, trouble>>
      /\ ask["loop"].at = "idle" /\ wait > 0 /\ behind = 0
      /\ \/ reachable /\ config # 0 /\ wait' = 0 /\ behind' = behind + wait
         \/ wait' = wait - 1 /\ behind' = 0
  BY DEF Tick, BeatInv, OnTheBeat
<1>2. /\ wait' \in 0..CheckInBackoffMax /\ behind' \in Nat /\ behind' <= CheckInBackoffMax
      /\ wait' > 0 => behind' = 0
  BY <1>1, CheckInAssumption DEF BeatInv, ExchangeTypes
<1>3. ExchangeTypes'
  BY <1>1, <1>2 DEF BeatInv, ExchangeTypes, panelState, machine, switch
<1>4. OnTheBeat' /\ FiveMinutesBehindAtMost'
  BY <1>1, <1>2 DEF OnTheBeat, FiveMinutesBehindAtMost, machine
<1> QED BY <1>1, <1>3, <1>4 DEF BeatInv, Joins

\* While the panel can be reached and nothing fails, the loop is never further behind
\* than its longest wait, whatever failed before (cmd_panel.go:475-486).
THEOREM BehindAtMostTheLongestWait == CheckInSpec => []FiveMinutesBehindAtMost
<1>1. CheckInInit => BeatInv
  <2> SUFFICES ASSUME CheckInInit PROVE BeatInv
    OBVIOUS
  <2>1. ask \in [Askers -> Asks] /\ ask["loop"].at = "idle" /\ ask["page"].at = "idle"
    BY AskParts DEF CheckInInit
  <2> QED BY <2>1, CheckInAssumption
          DEF CheckInInit, BeatInv, ExchangeTypes, OnTheBeat, Joins, FiveMinutesBehindAtMost
<1>2. BeatInv /\ [CheckInNext]_CheckInVars => BeatInv'
  <2> SUFFICES ASSUME BeatInv, [CheckInNext]_CheckInVars PROVE BeatInv'
    OBVIOUS
  <2>1. CASE UNCHANGED CheckInVars
    BY <2>1 DEF CheckInVars, panelState, machine, switch, beat, BeatInv, ExchangeTypes, OnTheBeat,
                Joins, FiveMinutesBehindAtMost
  <2>2. CASE CheckInNext
    BY <2>2, WorldStep, AnswerStep, LoopAsksStep, LoopLearnsStep, PageStep, RestartServiceStep,
       TickStep DEF CheckInNext
  <2> QED BY <2>1, <2>2
<1>3. BeatInv => FiveMinutesBehindAtMost
  BY DEF BeatInv
<1> QED BY <1>1, <1>2, <1>3, PTL DEF CheckInSpec
=============================================================================
