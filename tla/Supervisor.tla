----------------------------- MODULE Supervisor -----------------------------
(* A supervised Claude Code session of clawdh, and everything that moves it to
   another account while it runs (internal/cli/cmd_run.go, cmd_hook.go, rule.go,
   cmd_use.go; internal/switching; internal/sessions; the page's
   handlers_sessions.go).

   One process number and the files named after it are modelled: the handoff,
   the rule and the register entry outlive a supervisor that is killed,
   and the next supervisor with that number finds them. A life is one supervisor;
   its nonce is the life's number. A conversation is a number too: the
   supervisor names one when it starts Claude Code, and the person moves to
   another inside it (/clear).
 *)
EXTENDS Naturals, FiniteSets

CONSTANTS
  Own,        \* this machine's own accounts
  Shares,     \* accounts reached through the gateway
  Default,    \* this machine's default login
  MaxKey,     \* bound: keys the panel mints
  MaxLife,    \* bound: supervisors
  MaxConv,    \* bound: conversations
  MaxAsk,     \* bound: switches and moves people ask for
  Nothing     \* no target, no file

ASSUME SupervisorAssumption ==
  /\ Own \cap Shares = {} /\ Nothing \notin Own \cup Shares /\ Default \in Own
  /\ MaxKey \in Nat \ {0} /\ MaxLife \in Nat \ {0} /\ MaxConv \in Nat \ {0}
  /\ MaxAsk \in Nat

VARIABLES
  logins,     \* own accounts whose login is on this machine
  keys,       \* shares.json: the key each share has here, 0 when it is not there
  minted,     \* keys minted so far
  preset,     \* what new sessions are set to start as
  convs,      \* conversations begun so far
  lives,      \* supervisors begun so far
  asked,      \* switches and moves asked for so far
  sup,        \* the supervisor: place in its loop, nonce, editor, target, key, conv
  claude,     \* its Claude Code: running, and the conversation in it
  poller,     \* the goroutine of the launch: its place and the handoff it took
  switched,   \* the channel it answers on
  signal,     \* the supervisor's signal channel, of one place
  watching,   \* watchShareKey runs for this launch
  handoff,    \* .handoff-<pid>.json
  rule,       \* its rule: a move for later
  register,   \* <pid>.json of the register
  identity,   \* the account ~/.claude.json names
  stub,       \* the default login's own identity has been put aside
  page,       \* a request of the page, between reading the register and writing
  recorded,   \* the shared-session ledger: conversations remote help may look at
  missed      \* history: the watcher's own switch was overwritten, refused or cleared

world == <<logins, keys, minted, preset, lives>>
files == <<handoff, rule, register>>
named == <<identity, stub>>
vars == <<logins, keys, minted, preset, convs, lives, asked, sup, claude, poller, switched, signal,
          watching, handoff, rule, register, named, page, recorded, missed>>

Targets == Own \cup Shares
Convs == 1..MaxConv
Lives == 0..MaxLife

(* A staged switch. for is the nonce it is stamped with, 0 for none; watch
   is a history, not in the file: the share's watcher wrote it. *)
Handoff == [to : Targets, id : Convs, for : Lives, watch : BOOLEAN]
Rule == [to : Targets, for : Lives]    \* its percentage is left out
Entry == [to : Targets, id : Convs, nonce : Lives]
ASSUME NothingIsNoFile == Nothing \notin Handoff \cup Rule \cup Entry

TypeOK ==
  /\ logins \subseteq Own
  /\ keys \in [Shares -> 0..MaxKey] /\ minted \in 0..MaxKey
  /\ preset \in Targets \cup {Nothing}
  /\ convs \in 0..MaxConv /\ lives \in Lives /\ asked \in 0..MaxAsk
  /\ sup \in [at : {"none", "launch", "running", "reaped"}, nonce : Lives, editor : BOOLEAN,
              first : BOOLEAN, to : Targets \cup {Nothing}, key : 0..MaxKey, id : 0..MaxConv]
  /\ claude \in [on : BOOLEAN, id : 0..MaxConv]
  /\ poller \in [at : {"off", "watch", "answering", "done"}, h : Handoff \cup {Nothing}]
  /\ switched \in BOOLEAN /\ signal \in BOOLEAN /\ watching \in BOOLEAN
  /\ handoff \in Handoff \cup {Nothing}
  /\ rule \in Rule \cup {Nothing}
  /\ register \in Entry \cup {Nothing}
  /\ identity \in Own \cup {Nothing} /\ stub \in BOOLEAN
  /\ page \in [to : Targets, entry : Entry] \cup {Nothing}
  /\ recorded \subseteq Convs /\ missed \in BOOLEAN

Gone == [at |-> "none", nonce |-> 0, editor |-> FALSE, first |-> FALSE,
         to |-> Nothing, key |-> 0, id |-> 0]
NoClaude == [on |-> FALSE, id |-> 0]
NoPoller == [at |-> "off", h |-> Nothing]

Init ==
  /\ logins = Own
  /\ keys = [s \in Shares |-> 1] /\ minted = 1 /\ preset = Nothing
  /\ convs = 0 /\ lives = 0 /\ asked = 0 /\ sup = Gone /\ claude = NoClaude /\ poller = NoPoller
  /\ switched = FALSE /\ signal = FALSE /\ watching = FALSE
  /\ handoff = Nothing /\ rule = Nothing /\ register = Nothing
  /\ identity \in {Default, Nothing} /\ stub = FALSE
  /\ page = Nothing
  /\ recorded = {} /\ missed = FALSE

-----------------------------------------------------------------------------
(* What the session lives among. *)

SignedOut(a) ==   \* a login leaves this machine, to the gateway or by signing out
  /\ a \in logins
  /\ logins' = logins \ {a}
  /\ UNCHANGED <<lives, preset, keys, minted, convs, asked, sup, claude, poller, switched, signal,
                 watching, files, named, page, recorded, missed>>

Regrant(s) ==     \* the check-in brings a share back with a key of its own
  /\ minted < MaxKey
  /\ minted' = minted + 1 /\ keys' = [keys EXCEPT ![s] = minted + 1]
  /\ UNCHANGED <<lives, preset, logins, convs, asked, sup, claude, poller, switched, signal,
                 watching, files, named, page, recorded, missed>>

Unshare(s) ==
  /\ keys[s] # 0
  /\ keys' = [keys EXCEPT ![s] = 0]
  /\ UNCHANGED <<lives, preset, logins, minted, convs, asked, sup, claude, poller, switched, signal,
                 watching, files, named, page, recorded, missed>>

-----------------------------------------------------------------------------
(* Resolving a target: a share by its name with the key it has now, an own
   account when its login is here. *)
hasLogin(a) == a \in logins

Resolves(t) == IF t \in Shares THEN keys[t] # 0 ELSE hasLogin(t)

KeyOf(t) == IF t \in Shares THEN keys[t] ELSE 0

recordSharedSession(t, id) ==
  recorded' = IF t \in Shares THEN recorded \cup {id} ELSE recorded

WriteHandoff(h) ==
  /\ handoff' = h
  /\ missed' = (missed \/ (handoff # Nothing /\ handoff.watch))

ClearHandoff == handoff' = Nothing

WriteRule(r) == rule' = r
ClearRule == rule' = Nothing

Asks == asked < MaxAsk /\ asked' = asked + 1

(* superviseSession's deferred calls. Claude Code, the goroutines and the hooks
   are over; the page's request is not. *)
EndsSession ==
  /\ sup' = Gone /\ claude' = NoClaude /\ poller' = NoPoller
  /\ switched' = FALSE /\ signal' = FALSE /\ watching' = FALSE
  /\ handoff' = Nothing /\ rule' = Nothing /\ register' = Nothing
  /\ missed' = FALSE
  /\ UNCHANGED <<world, convs, asked, named, page, recorded>>

(* The page and `clawdh editor` set what new sessions start as; the page unsets it
   too. *)
resolveTarget(t) == Resolves(t)    \* the page's own way of asking

WriteDefault(t) ==
  /\ Asks
  /\ preset' = t
  /\ UNCHANGED <<lives, logins, keys, minted, convs, sup, claude, poller, switched, signal,
                 watching, files, named, page, recorded, missed>>

handleSetSessionDefault(t) == (t # Nothing => resolveTarget(t)) /\ WriteDefault(t)
cmdEditor(t) == Resolves(t) /\ WriteDefault(t)

editorTarget == IF preset # Nothing /\ Resolves(preset) THEN preset ELSE Default

(* A session begins: its conversation is a new one or one the arguments name. *)
superviseSession(t, editor, id) ==
  /\ sup.at = "none"
  /\ lives < MaxLife /\ lives' = lives + 1
  /\ id \in 1..convs + 1 /\ id <= MaxConv
  /\ convs' = IF id > convs THEN id ELSE convs
  /\ sup' = [at |-> "launch", nonce |-> lives + 1, editor |-> editor, first |-> TRUE,
             to |-> t, key |-> KeyOf(t), id |-> id]
  /\ recordSharedSession(t, id)
  /\ UNCHANGED <<logins, keys, minted, preset, asked, claude, poller, switched, signal, watching,
                 files, named, page, missed>>

(* An account that is named has to have its login here; the claude wrapper's, which
   the shell may point at any, has not. *)
autoTargets == Own \cup {editorTarget}
cmdRun(t, id, auto) ==
  /\ IF auto THEN t \in autoTargets ELSE t \in Own /\ hasLogin(t)
  /\ superviseSession(t, FALSE, id)

cmdShared(t, id) == t \in Shares /\ Resolves(t) /\ superviseSession(t, FALSE, id)

cmdExec(id) == superviseSession(editorTarget, TRUE, id)   \* a chat in an editor

(* ~/.claude.json is made to name an own account from the copy of its identity kept
   beside its login. The default login's copy is made as the service starts, when the
   file names it: a name a switch left there is not taken for it. *)
applyIdentity(t) ==
  IF t \in Own \ {Default} \/ (t = Default /\ stub) THEN t ELSE identity

belongsToManagedAccount(a) == a \in Own \ {Default}

SnapshotDefaultIdentity ==
  /\ ~stub /\ identity # Nothing /\ ~belongsToManagedAccount(identity)
  /\ stub' = TRUE
  /\ UNCHANGED <<world, convs, asked, sup, claude, poller, switched, signal, watching, files,
                 identity, page, recorded, missed>>

(* The top of the loop: publish, point ~/.claude.json at the account (an editor's
   only on the first launch), clear what is staged, start the watcher and Claude. *)
LaunchWith(entry, watched, id) ==
  /\ sup.at = "launch"
  /\ register' = entry
  /\ identity' = IF sup.first \/ ~sup.editor THEN applyIdentity(sup.to) ELSE identity
  /\ ClearHandoff
  /\ watching' = watched /\ missed' = FALSE
  /\ claude' = [on |-> TRUE, id |-> id]
  /\ poller' = [at |-> "watch", h |-> Nothing]
  /\ sup' = [sup EXCEPT !.at = "running", !.first = FALSE]
  /\ UNCHANGED <<world, convs, asked, switched, signal, rule, stub, page, recorded>>

describeSession == [to |-> sup.to, id |-> sup.id, nonce |-> sup.nonce]

LaunchUnnamed ==        \* mistaken: a relaunch continues whatever is most recent
  LaunchWith(describeSession, sup.to \in Shares, IF sup.first THEN sup.id ELSE 0)

LaunchUnpublished ==    \* mistaken: published once, before the loop
  LaunchWith(IF sup.first THEN describeSession ELSE register, sup.to \in Shares, sup.id)

LaunchUnwatched ==      \* mistaken: watched once, before the loop
  LaunchWith(describeSession, sup.first /\ sup.to \in Shares, sup.id)

Launch == LaunchWith(describeSession, sup.to \in Shares, sup.id)

LaunchFails == sup.at = "launch" /\ EndsSession

(* The editor closes the chat; one place in the channel. A terminal's ctrl-c, which
   every reader of the channel drains and ignores, is left out. *)
Signal ==
  /\ sup.at # "none" /\ sup.editor /\ signal' = TRUE
  /\ UNCHANGED <<world, convs, asked, sup, claude, poller, switched, watching, files, named,
                 page, recorded, missed>>

(* The supervisor is killed outright, Claude Code with it. The files stay. *)
Killed ==
  /\ sup.at # "none"
  /\ sup' = Gone /\ claude' = NoClaude /\ poller' = NoPoller
  /\ switched' = FALSE /\ signal' = FALSE /\ watching' = FALSE
  /\ missed' = FALSE
  /\ UNCHANGED <<world, convs, asked, files, named, page, recorded>>

ClaudeExits ==
  /\ claude.on
  /\ claude' = [claude EXCEPT !.on = FALSE]
  /\ UNCHANGED <<world, convs, asked, sup, poller, switched, signal, watching, files, named,
                 page, recorded, missed>>

ClearsConversation ==    \* /clear: the conversation goes on under a new id
  /\ claude.on /\ convs < MaxConv
  /\ convs' = convs + 1 /\ claude' = [claude EXCEPT !.id = convs + 1]
  /\ UNCHANGED <<world, asked, sup, poller, switched, signal, watching, files, named,
                 page, recorded, missed>>

-----------------------------------------------------------------------------
(* Staging a switch. *)

(* The prompt `clawdh <name>`, whose hook waits for the outcome, and the command
   `!clawdh <name>`, which does not. Both name the conversation Claude Code is in. *)
hookUserPromptSubmit(t) ==
  /\ Asks
  /\ claude.on /\ Resolves(t)
  /\ WriteHandoff([to |-> t, id |-> claude.id, for |-> 0, watch |-> FALSE])
  /\ UNCHANGED <<world, convs, sup, claude, poller, switched, signal, watching, rule,
                 register, named, page, recorded>>

(* The page lists the register, dropping entries of dead processes, and writes to
   the sessions not yet there; a request is about the entry it read. *)
onTarget(entry, t) == entry.to = t

List ==
  /\ sup.at = "none" /\ register # Nothing /\ register' = Nothing
  /\ UNCHANGED <<world, convs, asked, sup, claude, poller, switched, signal, watching, handoff,
                 rule, named, page, recorded, missed>>

PageLists(t) ==
  /\ Asks
  /\ page = Nothing /\ resolveTarget(t)
  /\ sup.at # "none" /\ register # Nothing /\ ~onTarget(register, t)
  /\ page' = [to |-> t, entry |-> register]
  /\ UNCHANGED <<world, convs, sup, claude, poller, switched, signal, watching, files, named,
                 recorded, missed>>

handleSwitchSessions ==
  /\ page # Nothing
  /\ WriteHandoff([to |-> page.to, id |-> page.entry.id, for |-> page.entry.nonce,
                   watch |-> FALSE])
  /\ page' = Nothing
  /\ UNCHANGED <<world, convs, asked, sup, claude, poller, switched, signal, watching,
                 rule, register, named, recorded>>

(* A move for later, stamped with the register entry's nonce; and `clawdh stay`. *)
setRule(t) ==
  /\ Asks
  /\ claude.on /\ register # Nothing /\ Resolves(t) /\ register.to # t
  /\ WriteRule([to |-> t, for |-> register.nonce])
  /\ UNCHANGED <<world, convs, sup, claude, poller, switched, signal, watching, handoff,
                 register, named, page, recorded, missed>>

cmdStay ==
  /\ claude.on /\ rule # Nothing /\ ClearRule
  /\ UNCHANGED <<world, convs, asked, sup, claude, poller, switched, signal, watching, handoff,
                 register, named, page, recorded, missed>>

(* An answer has finished. A rule another session set is dropped. One whose account
   has used enough is cleared and then staged, if it can be; else it stays. *)
applyRuleFor(mine) ==
  /\ claude.on /\ rule # Nothing /\ register # Nothing
  /\ ClearRule
  /\ \/ mine /\ WriteHandoff([to |-> rule.to, id |-> claude.id, for |-> 0, watch |-> FALSE])
     \/ UNCHANGED <<handoff, missed>>
  /\ UNCHANGED <<world, convs, asked, sup, claude, poller, switched, signal, watching,
                 register, named, page, recorded>>

applyAnyRule == applyRuleFor(TRUE)   \* mistaken: the stamp is not looked at

applyRule == applyRuleFor(rule # Nothing /\ register # Nothing /\ rule.for = register.nonce)

(* The share's key is another one: stage the switch back, once. A watcher told to
   stop may be past looking, and write all the same. *)
watchShareKey ==
  /\ watching /\ sup.at \in {"running", "reaped"}
  /\ keys[sup.to] \notin {0, sup.key}
  /\ WriteHandoff([to |-> sup.to, id |-> sup.id, for |-> 0, watch |-> TRUE])
  /\ watching' = FALSE
  /\ UNCHANGED <<world, convs, asked, sup, claude, poller, switched, signal, rule,
                 register, named, page, recorded>>

-----------------------------------------------------------------------------
(* runClaudeOnce: the goroutine beside cmd.Wait. Terminating ends Claude Code. *)
Terminate == claude' = [claude EXCEPT !.on = FALSE]

PollSignal ==
  /\ poller.at = "watch" /\ signal
  /\ signal' = FALSE /\ Terminate /\ poller' = [poller EXCEPT !.at = "done"]
  /\ UNCHANGED <<world, convs, asked, sup, switched, watching, files, named, page,
                 recorded, missed>>

(* A staged switch is taken off the disk and judged: not for this session, not
   possible, or about to happen. *)
PollHandoff ==
  /\ poller.at = "watch" /\ handoff # Nothing
  /\ ClearHandoff
  /\ LET goes == handoff.for \in {0, sup.nonce} /\ Resolves(handoff.to)
     IN /\ poller' = IF goes THEN [at |-> "answering", h |-> handoff] ELSE poller
        /\ missed' = (missed \/ (~goes /\ handoff.watch))
  /\ UNCHANGED <<world, convs, asked, sup, claude, switched, signal, watching, rule, register,
                 named, page, recorded>>

(* The hook has read the outcome, or had its time: the switch is written again
   for the loop and the session stopped, unless the chat was closed meanwhile. *)
PollSettleUnless(closed) ==
  /\ poller.at = "answering"
  /\ poller' = [at |-> "done", h |-> Nothing]
  /\ Terminate /\ signal' = FALSE
  /\ \/ ~closed /\ WriteHandoff(poller.h) /\ switched' = TRUE
     \/ UNCHANGED <<handoff, missed, switched>>
  /\ UNCHANGED <<world, convs, asked, sup, watching, rule, register, named, page,
                 recorded>>

PollSettleDeaf == PollSettleUnless(FALSE)   \* mistaken: the signal is drained, not heeded

PollSettle == PollSettleUnless(signal)

(* cmd.Wait returns: the goroutine and the watcher stop. Without a switch the
   supervisor ends as Claude Code did. *)
Reap ==
  /\ sup.at = "running" /\ ~claude.on
  /\ IF switched
     THEN /\ sup' = [sup EXCEPT !.at = "reaped"]
          /\ switched' = FALSE /\ poller' = NoPoller
          /\ UNCHANGED <<world, convs, asked, claude, signal, watching, files, named, page,
                         recorded, missed>>
     ELSE EndsSession

(* The loop reads the file again and resolves it again: whatever is there now. *)
Relaunch ==
  /\ sup.at = "reaped"
  /\ IF handoff = Nothing \/ signal \/ ~Resolves(handoff.to)
     THEN EndsSession
     ELSE /\ watching' = FALSE
          /\ sup' = [sup EXCEPT !.at = "launch", !.to = handoff.to,
                                !.key = KeyOf(handoff.to), !.id = handoff.id]
          /\ recordSharedSession(handoff.to, handoff.id)
          /\ UNCHANGED <<world, convs, asked, claude, poller, switched, signal, files, named,
                         page, missed>>
-----------------------------------------------------------------------------
Next ==
  \/ \E a \in Own : SignedOut(a)
  \/ \E s \in Shares : Regrant(s) \/ Unshare(s)
  \/ handleSetSessionDefault(Nothing)
  \/ \E t \in Targets, id \in Convs :
       (\E auto \in BOOLEAN : cmdRun(t, id, auto)) \/ cmdShared(t, id)
  \/ \E id \in Convs : cmdExec(id)
  \/ SnapshotDefaultIdentity \/ Launch \/ LaunchFails
  \/ Signal \/ Killed \/ ClaudeExits \/ ClearsConversation
  \/ \E t \in Targets : \/ handleSetSessionDefault(t) \/ cmdEditor(t)
                       \/ hookUserPromptSubmit(t) \/ PageLists(t) \/ setRule(t)
  \/ List \/ handleSwitchSessions \/ cmdStay \/ applyRule
  \/ watchShareKey \/ PollSignal \/ PollHandoff \/ PollSettle
  \/ Reap \/ Relaunch

(* The machine's own part keeps going: the goroutines, the loop and the hooks. The
   person, the page, the panel and a kill owe nothing. *)
Fairness ==
  /\ WF_vars(Launch) /\ WF_vars(watchShareKey)
  /\ WF_vars(PollSignal) /\ WF_vars(PollHandoff)
  /\ WF_vars(PollSettle) /\ WF_vars(Reap) /\ WF_vars(Relaunch)

Spec == Init /\ [][Next]_vars /\ Fairness
-----------------------------------------------------------------------------
(* While Claude Code is up, what others read about the session is about this launch:
   the register names its account and its supervisor, which the page moves it by
   and a rule is measured and stamped by; a conversation on a share is in the
   ledger remote help goes by; and in a terminal ~/.claude.json, which /status
   shows, names the own account it runs as, after every switch, if there is a copy
   of that account's identity to write (and until another session writes its own). *)
SaysWhatRuns ==
  sup.at = "running" =>
    /\ register = [to |-> sup.to, id |-> sup.id, nonce |-> sup.nonce]
    /\ sup.to \in Shares => sup.id \in recorded
    /\ (sup.to \in Own /\ ~sup.editor /\ (sup.to = Default => stub)) => identity = sup.to

(* A move for later moves the session it was set in and no other, although its
   file outlives a supervisor that is killed and the next one with the same
   process number finds it (rule.go:163). *)
RuleStaysInItsSession ==
  [][(rule' # rule /\ rule' = Nothing /\ handoff' # handoff /\ handoff' # Nothing)
       => rule.for = sup.nonce]_vars

(* An editor that closes a chat ends it: whatever switch is under way, and wherever
   in the loop the signal lands, the supervisor ends (cmd_run.go:317-322). *)
CloseEnds ==
  signal ~> (sup.at = "none")

(* A session on a share whose key was replaced gets the new key, or ends, or moves
   elsewhere, unless the switch its watcher staged was overwritten or refused:
   the watcher stages only one (cmd_run.go:498-527). *)
Stale(s) == sup.to = s /\ keys[s] \notin {0, sup.key}
KeyRenewed == \A s \in Shares : Stale(s) ~> (~Stale(s) \/ missed)

(* A switch resumes the conversation the person is in, "so a switch resumes this one
   and not merely the most recent in the directory" (sessions.go:57-58). *)
ConversationKept ==
  [][(handoff' # handoff /\ handoff' # Nothing /\ poller.at # "answering" /\ claude.on)
       => handoff'.id = claude.id]_vars
=============================================================================
