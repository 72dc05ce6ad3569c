-------------------------- MODULE SupervisorProofs --------------------------
(***************************************************************************)
(* Proofs about Supervisor, for any accounts, shares, lives, conversations *)
(* and requests: what the files of a session say of it is so, and a move   *)
(* for later stays in the session it was set in.                           *)
(*                                                                         *)
(* The register is written at the top of the loop and the ledger where a   *)
(* target is taken, so the invariant follows the supervisor from the one   *)
(* place to the other (Placed, Recorded).                                  *)
(***************************************************************************)
EXTENDS Supervisor, TLAPS

\* What a place in the loop takes for granted.
Placed ==
    /\ sup.at # "none" => sup.to \in Targets /\ sup.id \in Convs
    /\ claude.on => sup.at = "running" /\ claude.id \in Convs
    /\ poller.at = "answering" => poller.h \in Handoff
    /\ watching => sup.at \in {"running", "reaped"} /\ sup.to \in Shares

\* A conversation is in the ledger from the moment a share is its target.
Recorded == sup.at # "none" /\ sup.to \in Shares => sup.id \in recorded

IInv == TypeOK /\ Placed /\ Recorded /\ SaysWhatRuns

-----------------------------------------------------------------------------
LEMMA Constants ==
    /\ Nothing \notin Targets /\ Default \in Own /\ Own \cap Shares = {}
    /\ MaxKey \in Nat \ {0} /\ MaxLife \in Nat /\ MaxConv \in Nat /\ MaxAsk \in Nat
BY SupervisorAssumption DEF Targets

LEMMA NoSession ==
    /\ Gone \in [at : {"none", "launch", "running", "reaped"}, nonce : Lives,
                 editor : BOOLEAN, first : BOOLEAN, to : Targets \cup {Nothing},
                 key : 0..MaxKey, id : 0..MaxConv]
    /\ NoClaude \in [on : BOOLEAN, id : 0..MaxConv]
    /\ NoPoller \in [at : {"off", "watch", "answering", "done"}, h : Handoff \cup {Nothing}]
<1>1. 0 \in Lives /\ 0 \in 0..MaxKey /\ 0 \in 0..MaxConv
  BY Constants DEF Lives
<1> QED BY <1>1 DEF Gone, NoClaude, NoPoller

LEMMA InitInv == Init => IInv
<1> SUFFICES ASSUME Init PROVE IInv
  OBVIOUS
<1>1. sup = Gone /\ Gone.at = "none" /\ ~claude.on /\ poller.at = "off" /\ ~watching
  BY DEF Init, Gone, NoClaude, NoPoller
<1>2. TypeOK
  <2>1. sup = Gone /\ claude = NoClaude /\ poller = NoPoller
    BY DEF Init
  <2>2. keys \in [Shares -> 0..MaxKey] /\ minted \in 0..MaxKey
    <3>1. 1 \in 0..MaxKey
      BY Constants
    <3> QED BY <3>1 DEF Init
  <2>3. logins \subseteq Own /\ preset = Nothing /\ identity \in Own \cup {Nothing}
    BY Constants DEF Init
  <2>4. /\ convs \in 0..MaxConv /\ lives \in Lives /\ asked \in 0..MaxAsk
        /\ recorded \subseteq Convs
    BY Constants DEF Init, Lives
  <2> QED BY NoSession, <2>1, <2>2, <2>3, <2>4 DEF Init, TypeOK
<1>3. Placed /\ Recorded /\ SaysWhatRuns
  BY <1>1 DEF Placed, Recorded, SaysWhatRuns
<1> QED BY <1>2, <1>3 DEF IInv

\* What the person, the page, the panel and the hooks do beside the loop.
LEMMA WorldStep ==
    ASSUME IInv,
           \/ \E a \in Own : SignedOut(a)
           \/ \E s \in Shares : Regrant(s) \/ Unshare(s)
           \/ \E t \in Targets \cup {Nothing} : WriteDefault(t)
           \/ Signal \/ SnapshotDefaultIdentity
    PROVE  IInv'
<1> USE DEF IInv, world, files, named
<1>1. UNCHANGED <<sup, claude, poller, watching, handoff, rule, register, page, recorded>>
  BY DEF SignedOut, Regrant, Unshare, WriteDefault, Signal, SnapshotDefaultIdentity
<1>2. TypeOK'
  <2>1. CASE \E a \in Own : SignedOut(a)
    BY <2>1 DEF TypeOK, SignedOut
  <2>2. CASE \E r \in Shares : Regrant(r) \/ Unshare(r)
    BY <2>2, Constants DEF TypeOK, Regrant, Unshare
  <2>3. CASE \E t \in Targets \cup {Nothing} : WriteDefault(t)
    BY <2>3, Constants DEF TypeOK, WriteDefault, Asks
  <2>4. CASE Signal \/ SnapshotDefaultIdentity
    BY <2>4 DEF TypeOK, Signal, SnapshotDefaultIdentity
  <2> QED BY <2>1, <2>2, <2>3, <2>4
<1>3. Placed' /\ Recorded'
  BY <1>1 DEF Placed, Recorded
<1>4. SaysWhatRuns'
  <2>1. CASE UNCHANGED named
    BY <1>1, <2>1 DEF SaysWhatRuns
  <2>2. CASE SnapshotDefaultIdentity
    BY <1>1, <2>2 DEF SaysWhatRuns, SnapshotDefaultIdentity, belongsToManagedAccount, TypeOK
  <2> QED BY <2>1, <2>2 DEF SignedOut, Regrant, Unshare, WriteDefault, Signal
<1> QED BY <1>2, <1>3, <1>4

\* The end of a session, from wherever it is.
LEMMA EndStep ==
    ASSUME IInv, EndsSession \/ Killed
    PROVE  IInv'
<1> USE DEF IInv, world, files, named
<1>1. /\ sup' = Gone /\ claude' = NoClaude /\ poller' = NoPoller /\ ~watching'
      /\ switched' = FALSE /\ signal' = FALSE /\ watching' = FALSE /\ missed' = FALSE
      /\ UNCHANGED <<logins, keys, minted, preset, lives, convs, asked, identity, stub, page,
                     recorded>>
      /\ handoff' \in {handoff, Nothing} /\ rule' \in {rule, Nothing}
      /\ register' \in {register, Nothing}
  BY DEF EndsSession, Killed
<1>2. sup'.at = "none" /\ ~claude'.on /\ poller'.at = "off"
  BY <1>1 DEF Gone, NoClaude, NoPoller
<1>3. TypeOK'
  <2>1. /\ handoff' \in Handoff \cup {Nothing} /\ rule' \in Rule \cup {Nothing}
        /\ register' \in Entry \cup {Nothing}
    BY <1>1 DEF TypeOK
  <2>2. /\ sup' \in [at : {"none", "launch", "running", "reaped"}, nonce : Lives,
                     editor : BOOLEAN, first : BOOLEAN, to : Targets \cup {Nothing},
                     key : 0..MaxKey, id : 0..MaxConv]
        /\ claude' \in [on : BOOLEAN, id : 0..MaxConv]
        /\ poller' \in [at : {"off", "watch", "answering", "done"}, h : Handoff \cup {Nothing}]
    BY <1>1, NoSession
  <2> QED BY <1>1, <2>1, <2>2 DEF TypeOK
<1>4. Placed' /\ Recorded' /\ SaysWhatRuns'
  BY <1>1, <1>2 DEF Placed, Recorded, SaysWhatRuns
<1> QED BY <1>3, <1>4

\* A session begins.
LEMMA BeginStep ==
    ASSUME IInv, NEW t \in Targets, NEW ed \in BOOLEAN, NEW id, superviseSession(t, ed, id)
    PROVE  IInv'
<1> USE DEF IInv, world, files, named
<1>1. lives' \in Lives /\ lives' = lives + 1 /\ id \in Convs /\ convs' \in 0..MaxConv
  BY Constants DEF superviseSession, TypeOK, Lives, Convs
<1>2. KeyOf(t) \in 0..MaxKey
  BY Constants DEF KeyOf, TypeOK
<1>3. sup' = [at |-> "launch", nonce |-> lives', editor |-> ed, first |-> TRUE,
              to |-> t, key |-> KeyOf(t), id |-> id]
  BY <1>1 DEF superviseSession
<1>4. recorded' = IF t \in Shares THEN recorded \cup {id} ELSE recorded
  BY DEF superviseSession, recordSharedSession
<1>5. /\ UNCHANGED <<logins, keys, minted, preset, asked, claude, poller, switched, signal,
                     watching, handoff, rule, register, identity, stub, page, missed>>
      /\ sup.at = "none"
  BY DEF superviseSession
<1>6. TypeOK'
  <2>1. sup' \in [at : {"none", "launch", "running", "reaped"}, nonce : Lives, editor : BOOLEAN,
                  first : BOOLEAN, to : Targets \cup {Nothing}, key : 0..MaxKey, id : 0..MaxConv]
    BY <1>1, <1>2, <1>3, Constants DEF Convs
  <2>2. recorded' \subseteq Convs
    BY <1>1, <1>4 DEF TypeOK
  <2> QED BY <1>1, <1>5, <2>1, <2>2 DEF TypeOK
<1>7. Placed' /\ Recorded' /\ SaysWhatRuns'
  BY <1>1, <1>3, <1>4, <1>5 DEF Placed, Recorded, SaysWhatRuns
<1> QED BY <1>6, <1>7

\* The top of the loop: what is written there is what the supervisor is to run.
LEMMA LaunchStep ==
    ASSUME IInv, Launch
    PROVE  IInv'
<1> USE DEF IInv, world, files, named
<1>1. /\ sup.at = "launch"
      /\ sup' = [sup EXCEPT !.at = "running", !.first = FALSE]
      /\ claude' = [on |-> TRUE, id |-> sup.id] /\ poller' = [at |-> "watch", h |-> Nothing]
      /\ register' = [to |-> sup.to, id |-> sup.id, nonce |-> sup.nonce]
      /\ identity' = IF sup.first \/ ~sup.editor THEN applyIdentity(sup.to) ELSE identity
      /\ handoff' = Nothing /\ missed' = FALSE
      /\ UNCHANGED <<logins, keys, minted, preset, lives, convs, asked, switched, signal, rule,
                     stub, page, recorded>>
  BY DEF Launch, LaunchWith, describeSession, ClearHandoff
<1>2. watching' \in BOOLEAN /\ (watching' => sup.to \in Shares)
  <2>1. watching' = (sup.to \in Shares)
    BY DEF Launch, LaunchWith
  <2>2. watching' \in BOOLEAN
    BY <2>1
  <2>3. watching' => sup.to \in Shares
    BY <2>1
  <2> QED BY <2>2, <2>3
<1>3. sup.to \in Targets /\ sup.id \in Convs /\ sup.nonce \in Lives
  BY <1>1 DEF Placed, TypeOK
<1>4. /\ sup'.at = "running" /\ sup'.to = sup.to /\ sup'.id = sup.id
      /\ sup'.nonce = sup.nonce /\ sup'.editor = sup.editor
  BY <1>1 DEF TypeOK
<1>5. TypeOK'
  <2>1. sup' \in [at : {"none", "launch", "running", "reaped"}, nonce : Lives, editor : BOOLEAN,
                  first : BOOLEAN, to : Targets \cup {Nothing}, key : 0..MaxKey, id : 0..MaxConv]
    BY <1>1 DEF TypeOK
  <2>2. /\ claude' \in [on : BOOLEAN, id : 0..MaxConv]
        /\ poller' \in [at : {"off", "watch", "answering", "done"}, h : Handoff \cup {Nothing}]
        /\ register' \in Entry
    BY <1>1, <1>3, Constants DEF Entry, Convs
  <2>3. identity' \in Own \cup {Nothing}
    BY <1>1, Constants DEF TypeOK, applyIdentity
  <2> QED BY <1>1, <1>2, <2>1, <2>2, <2>3 DEF TypeOK
<1>6. Placed' /\ Recorded'
  BY <1>1, <1>2, <1>3, <1>4 DEF Placed, Recorded
<1>7. SaysWhatRuns'
  <2>1. sup.to \in Own /\ ~sup.editor /\ (sup.to = Default => stub) => identity' = sup.to
    BY <1>1 DEF applyIdentity
  <2> QED BY <1>1, <1>4, <1>6, <2>1 DEF SaysWhatRuns, Recorded
<1> QED BY <1>5, <1>6, <1>7

LEMMA Staged ==
    ASSUME NEW h \in Handoff, WriteHandoff(h)
    PROVE  handoff' \in Handoff \cup {Nothing} /\ missed' \in BOOLEAN
<1>1. handoff' \in Handoff \cup {Nothing}
  BY DEF WriteHandoff
<1>2. missed' \in BOOLEAN
  BY DEF WriteHandoff
<1> QED BY <1>1, <1>2

\* Claude Code ends or goes on in a new conversation; a switch or a move is staged,
\* dropped or listed.  The supervisor stays where it is.
LEMMA StageStep ==
    ASSUME IInv,
           \/ ClaudeExits \/ ClearsConversation \/ List \/ handleSwitchSessions \/ cmdStay
           \/ applyRule \/ watchShareKey
           \/ \E t \in Targets : hookUserPromptSubmit(t) \/ PageLists(t) \/ setRule(t)
    PROVE  IInv'
<1> USE DEF IInv, world, files, named
<1>1. UNCHANGED <<logins, keys, minted, preset, lives, sup, poller, switched, signal, identity,
                  stub, recorded>>
  BY DEF ClaudeExits, ClearsConversation, List, handleSwitchSessions, cmdStay,
         applyRule, applyRuleFor, watchShareKey, hookUserPromptSubmit, PageLists, setRule
<1>2. CASE \/ ClaudeExits \/ ClearsConversation \/ List \/ cmdStay
           \/ \E t \in Targets : PageLists(t) \/ setRule(t)
  <2>1. UNCHANGED <<handoff, missed, watching>>
    BY <1>2 DEF ClaudeExits, ClearsConversation, List, cmdStay, PageLists, setRule
  <2>2. /\ convs' \in 0..MaxConv /\ claude' \in [on : BOOLEAN, id : 0..MaxConv]
        /\ claude'.on => claude.on /\ claude'.id \in Convs
    <3>1. CASE ClaudeExits
      BY <3>1 DEF TypeOK, Placed, ClaudeExits
    <3>2. CASE ClearsConversation
      <4>1. convs + 1 \in Convs /\ convs + 1 \in 0..MaxConv
        BY <3>2, Constants DEF TypeOK, Convs, ClearsConversation
      <4> QED BY <3>2, <4>1 DEF TypeOK, Placed, ClearsConversation
    <3>3. CASE UNCHANGED <<convs, claude>>
      BY <3>3 DEF TypeOK, Placed
    <3> QED BY <1>2, <3>1, <3>2, <3>3 DEF List, cmdStay, PageLists, setRule
  <2>3. register' = register \/ (register' = Nothing /\ sup.at = "none")
    BY <1>2 DEF ClaudeExits, ClearsConversation, List, cmdStay, PageLists, setRule
  <2>4. /\ asked' \in 0..MaxAsk /\ page' \in [to : Targets, entry : Entry] \cup {Nothing}
        /\ rule' \in Rule \cup {Nothing}
    <3>1. ASSUME NEW t \in Targets, PageLists(t)
          PROVE  /\ asked' \in 0..MaxAsk /\ rule' = rule
                 /\ page' \in [to : Targets, entry : Entry]
      BY <3>1, Constants DEF TypeOK, PageLists, Asks
    <3>2. ASSUME NEW t \in Targets, setRule(t)
          PROVE  asked' \in 0..MaxAsk /\ rule' \in Rule /\ page' = page
      BY <3>2, Constants DEF TypeOK, setRule, Asks, WriteRule, Rule, Entry
    <3>3. CASE UNCHANGED <<asked, page>> /\ rule' \in {rule, Nothing}
      BY <3>3 DEF TypeOK
    <3> QED BY <1>2, <3>1, <3>2, <3>3
            DEF ClaudeExits, ClearsConversation, List, cmdStay, ClearRule, TypeOK
  <2>5. TypeOK'
    BY <1>1, <2>1, <2>2, <2>3, <2>4 DEF TypeOK
  <2>6. Placed' /\ Recorded' /\ SaysWhatRuns'
    BY <1>1, <2>1, <2>2, <2>3 DEF Placed, Recorded, SaysWhatRuns
  <2> QED BY <2>5, <2>6
<1>3. CASE \/ handleSwitchSessions \/ applyRule \/ watchShareKey
           \/ \E t \in Targets : hookUserPromptSubmit(t)
  <2>1. UNCHANGED <<convs, claude, register>>
    BY <1>3 DEF handleSwitchSessions, applyRule, applyRuleFor, watchShareKey,
                hookUserPromptSubmit
  <2>2. rule' \in {rule, Nothing} /\ page' \in {page, Nothing}
    BY <1>3 DEF handleSwitchSessions, applyRule, applyRuleFor, watchShareKey,
                hookUserPromptSubmit, ClearRule
  <2>3. asked' \in 0..MaxAsk
    <3>1. ASSUME Asks PROVE asked' \in 0..MaxAsk
      BY <3>1, Constants DEF TypeOK, Asks
    <3>2. asked' = asked \/ Asks
      BY <1>3 DEF handleSwitchSessions, applyRule, applyRuleFor, watchShareKey,
                  hookUserPromptSubmit
    <3> QED BY <3>1, <3>2 DEF TypeOK
  <2>4. watching' = watching \/ watching' = FALSE
    BY <1>3 DEF handleSwitchSessions, applyRule, applyRuleFor, watchShareKey,
                hookUserPromptSubmit
  <2>5. handoff' \in Handoff \cup {Nothing} /\ missed' \in BOOLEAN
    <3>1. CASE UNCHANGED <<handoff, missed>>
      BY <3>1 DEF TypeOK
    <3>2. CASE \E t \in Targets : hookUserPromptSubmit(t)
      <4>1. PICK t \in Targets : hookUserPromptSubmit(t)
        BY <3>2
      <4>2. [to |-> t, id |-> claude.id, for |-> 0, watch |-> FALSE] \in Handoff
        BY <4>1, Constants DEF Placed, Handoff, hookUserPromptSubmit, Lives
      <4> QED BY <4>1, <4>2, Staged DEF hookUserPromptSubmit
    <3>3. CASE handleSwitchSessions
      <4>1. [to |-> page.to, id |-> page.entry.id, for |-> page.entry.nonce, watch |-> FALSE]
              \in Handoff
        BY <3>3 DEF TypeOK, Handoff, Entry, handleSwitchSessions
      <4> QED BY <3>3, <4>1, Staged DEF handleSwitchSessions
    <3>4. CASE applyRule
      <4>1. rule # Nothing /\ claude.on
        BY <3>4 DEF applyRule, applyRuleFor
      <4>2. [to |-> rule.to, id |-> claude.id, for |-> 0, watch |-> FALSE] \in Handoff
        BY <4>1, Constants DEF TypeOK, Placed, Handoff, Rule, Lives
      <4> QED BY <3>1, <3>4, <4>2, Staged DEF applyRule, applyRuleFor
    <3>5. CASE watchShareKey
      <4>1. [to |-> sup.to, id |-> sup.id, for |-> 0, watch |-> TRUE] \in Handoff
        BY <3>5, Constants DEF Placed, Handoff, watchShareKey, Lives
      <4> QED BY <3>5, <4>1, Staged DEF watchShareKey
    <3> QED BY <1>3, <3>2, <3>3, <3>4, <3>5
  <2>6. TypeOK'
    <3>1. rule' \in Rule \cup {Nothing} /\ page' \in [to : Targets, entry : Entry] \cup {Nothing}
      BY <2>2 DEF TypeOK
    <3>2. watching' \in BOOLEAN
      BY <2>4 DEF TypeOK
    <3> QED BY <1>1, <2>1, <2>3, <2>5, <3>1, <3>2 DEF TypeOK
  <2>7. Placed' /\ Recorded' /\ SaysWhatRuns'
    BY <1>1, <2>1, <2>4 DEF Placed, Recorded, SaysWhatRuns
  <2> QED BY <2>6, <2>7
<1> QED BY <1>2, <1>3

\* The goroutine beside Claude Code.
LEMMA PollStep ==
    ASSUME IInv, PollSignal \/ PollHandoff \/ PollSettle
    PROVE  IInv'
<1> USE DEF IInv, world, files, named
<1>1. /\ UNCHANGED <<logins, keys, minted, preset, lives, convs, asked, sup, watching, rule,
                     register, identity, stub, page, recorded>>
      /\ claude' \in {claude, [claude EXCEPT !.on = FALSE]}
      /\ signal' = signal \/ signal' = FALSE
      /\ switched' = switched \/ switched' = TRUE
  BY DEF PollSignal, PollHandoff, PollSettle, PollSettleUnless, Terminate
<1>2. handoff' \in Handoff \cup {Nothing} /\ missed' \in BOOLEAN
  <2>1. CASE UNCHANGED <<handoff, missed>>
    BY <2>1 DEF TypeOK
  <2>2. CASE PollHandoff
    <3>1. handoff' = Nothing
      BY <2>2 DEF PollHandoff, ClearHandoff
    <3>2. missed' \in BOOLEAN
      BY <2>2 DEF PollHandoff
    <3> QED BY <3>1, <3>2
  <2>3. CASE PollSettle
    BY <2>1, <2>3, Staged DEF PollSettle, PollSettleUnless, Placed
  <2> QED BY <2>1, <2>2, <2>3 DEF PollSignal
<1>3. /\ poller' \in [at : {"off", "watch", "answering", "done"}, h : Handoff \cup {Nothing}]
      /\ poller'.at = "answering" => poller'.h \in Handoff
  BY DEF TypeOK, Placed, PollSignal, PollHandoff, PollSettle, PollSettleUnless
<1>4. claude' \in [on : BOOLEAN, id : 0..MaxConv] /\ claude'.id = claude.id
      /\ (claude'.on => claude.on)
  BY <1>1 DEF TypeOK
<1>5. TypeOK'
  <2>1. signal' \in BOOLEAN /\ switched' \in BOOLEAN
    BY <1>1 DEF TypeOK
  <2> QED BY <1>1, <1>2, <1>3, <1>4, <2>1 DEF TypeOK
<1>6. Placed' /\ Recorded' /\ SaysWhatRuns'
  BY <1>1, <1>3, <1>4 DEF Placed, Recorded, SaysWhatRuns
<1> QED BY <1>5, <1>6

\* The bottom of the loop.
LEMMA LoopStep ==
    ASSUME IInv, Reap \/ Relaunch
    PROVE  IInv'
<1> USE DEF IInv, world, files, named
<1>1. CASE EndsSession
  BY <1>1, EndStep
<1>2. CASE Reap /\ ~EndsSession
  <2>1. /\ sup' = [sup EXCEPT !.at = "reaped"] /\ sup.at = "running" /\ ~claude.on
        /\ switched' = FALSE /\ poller' = NoPoller
        /\ UNCHANGED <<logins, keys, minted, preset, lives, convs, asked, claude, signal, watching,
                       handoff, rule, register, identity, stub, page, recorded, missed>>
    BY <1>2 DEF Reap
  <2>2. /\ sup' \in [at : {"none", "launch", "running", "reaped"}, nonce : Lives,
                     editor : BOOLEAN, first : BOOLEAN, to : Targets \cup {Nothing},
                     key : 0..MaxKey, id : 0..MaxConv]
        /\ sup'.at = "reaped" /\ sup'.to = sup.to /\ sup'.id = sup.id
    BY <2>1 DEF TypeOK
  <2>3. TypeOK'
    <3>1. poller' \in [at : {"off", "watch", "answering", "done"}, h : Handoff \cup {Nothing}]
      BY <2>1, NoSession
    <3>2. switched' \in BOOLEAN
      BY <2>1
    <3> QED BY <2>1, <2>2, <3>1, <3>2 DEF TypeOK
  <2>4. Placed' /\ Recorded' /\ SaysWhatRuns'
    BY <2>1, <2>2 DEF Placed, Recorded, SaysWhatRuns, NoPoller
  <2> QED BY <2>3, <2>4
<1>3. CASE Relaunch /\ ~EndsSession
  <2>1. /\ sup.at = "reaped" /\ handoff # Nothing /\ watching' = FALSE
        /\ sup' = [sup EXCEPT !.at = "launch", !.to = handoff.to, !.key = KeyOf(handoff.to),
                              !.id = handoff.id]
        /\ recorded' = IF handoff.to \in Shares THEN recorded \cup {handoff.id} ELSE recorded
        /\ UNCHANGED <<logins, keys, minted, preset, lives, convs, asked, claude, poller, switched,
                       signal, handoff, rule, register, identity, stub, page, missed>>
    BY <1>3 DEF Relaunch, recordSharedSession
  <2>2. handoff.to \in Targets /\ handoff.id \in Convs /\ handoff.id \in 0..MaxConv
    BY <2>1, Constants DEF TypeOK, Handoff, Convs
  <2>3. KeyOf(handoff.to) \in 0..MaxKey
    BY <2>2, Constants DEF KeyOf, TypeOK
  <2>4. /\ sup' \in [at : {"none", "launch", "running", "reaped"}, nonce : Lives,
                     editor : BOOLEAN, first : BOOLEAN, to : Targets \cup {Nothing},
                     key : 0..MaxKey, id : 0..MaxConv]
        /\ sup'.at = "launch" /\ sup'.to = handoff.to /\ sup'.id = handoff.id
    BY <2>1, <2>2, <2>3 DEF TypeOK
  <2>5. recorded' \subseteq Convs /\ (sup'.to \in Shares => sup'.id \in recorded')
    BY <2>1, <2>2, <2>4 DEF TypeOK
  <2>6. TypeOK'
    <3>1. watching' \in BOOLEAN
      BY <2>1
    <3> QED BY <2>1, <2>4, <2>5, <3>1 DEF TypeOK
  <2>7. Placed' /\ Recorded' /\ SaysWhatRuns'
    BY <2>1, <2>2, <2>4, <2>5 DEF Placed, Recorded, SaysWhatRuns
  <2> QED BY <2>6, <2>7
<1> QED BY <1>1, <1>2, <1>3

-----------------------------------------------------------------------------
LEMMA NextInv == IInv /\ [Next]_vars => IInv'
<1> SUFFICES ASSUME IInv, [Next]_vars PROVE IInv'
  OBVIOUS
<1>1. ASSUME NEW t \in Targets, NEW id \in Convs,
             \/ \E auto \in BOOLEAN : cmdRun(t, id, auto)
             \/ cmdShared(t, id) \/ cmdExec(id)
      PROVE  IInv'
  <2>1. editorTarget \in Targets
    BY Constants DEF IInv, TypeOK, editorTarget, Targets
  <2> QED BY <1>1, <2>1, BeginStep DEF cmdRun, cmdShared, cmdExec
<1>2. ASSUME NEW t \in Targets \cup {Nothing}, handleSetSessionDefault(t) \/ cmdEditor(t)
      PROVE  IInv'
  BY <1>2, WorldStep DEF handleSetSessionDefault, cmdEditor
<1>3. CASE \/ \E a \in Own : SignedOut(a)
           \/ \E s \in Shares : Regrant(s) \/ Unshare(s)
           \/ Signal \/ SnapshotDefaultIdentity
  BY <1>3, WorldStep
<1>4. CASE Launch \/ LaunchFails \/ Killed
  BY <1>4, LaunchStep, EndStep DEF LaunchFails
<1>5. CASE \/ ClaudeExits \/ ClearsConversation \/ List \/ handleSwitchSessions \/ cmdStay
           \/ applyRule \/ watchShareKey
           \/ \E t \in Targets : hookUserPromptSubmit(t) \/ PageLists(t) \/ setRule(t)
  BY <1>5, StageStep
<1>6. CASE PollSignal \/ PollHandoff \/ PollSettle \/ Reap \/ Relaunch
  BY <1>6, PollStep, LoopStep
<1>7. CASE UNCHANGED vars
  BY <1>7 DEF vars, named, IInv, TypeOK, Placed, Recorded, SaysWhatRuns
<1>8. Targets # {} /\ Default \in Targets
  BY Constants DEF Targets
<1> QED BY <1>1, <1>2, <1>3, <1>4, <1>5, <1>6, <1>7, <1>8 DEF Next

LEMMA InvHolds == Spec => []IInv
BY InitInv, NextInv, PTL DEF Spec
-----------------------------------------------------------------------------
\* Every variable of a session keeps its type, whoever stages, lists, closes and kills.
THEOREM TypeCorrect == Spec => []TypeOK
<1>1. IInv => TypeOK
  BY DEF IInv
<1> QED BY <1>1, InvHolds, PTL

\* While Claude Code is up the register, the ledger and, in a terminal, ~/.claude.json
\* are about the launch that runs, over any number of own accounts, shares and switches
\* between them.
THEOREM FilesTell == Spec => []SaysWhatRuns
<1>1. IInv => SaysWhatRuns
  BY DEF IInv
<1> QED BY <1>1, InvHolds, PTL

\* A rule is staged in no session but the one it was set in: its stamp is held against the
\* register, which by FilesTell carries the nonce of the supervisor that runs.
THEOREM RuleStays == Spec => RuleStaysInItsSession
<1>1. IInv /\ [Next]_vars =>
        [rule' # rule /\ rule' = Nothing /\ handoff' # handoff /\ handoff' # Nothing
           => rule.for = sup.nonce]_vars
  <2> SUFFICES ASSUME IInv, Next,
                      rule' # rule, rule' = Nothing, handoff' # handoff, handoff' # Nothing
               PROVE  rule.for = sup.nonce
    BY DEF vars, named
  <2> USE DEF world, files, named
  <2>1. handoff' # Nothing => ~EndsSession
    BY DEF EndsSession
  <2>2. applyRule
    BY <2>1 DEF Next, SignedOut, Regrant, Unshare, handleSetSessionDefault, cmdEditor,
                WriteDefault, cmdRun, cmdShared, cmdExec, superviseSession,
                SnapshotDefaultIdentity, Launch, LaunchWith, LaunchFails, Signal, Killed,
                ClaudeExits, ClearsConversation, hookUserPromptSubmit, List, PageLists,
                handleSwitchSessions, setRule, cmdStay, watchShareKey, PollSignal, PollHandoff,
                PollSettle, PollSettleUnless, Reap, Relaunch
  <2>3. sup.at = "running" /\ register # Nothing
    BY <2>2 DEF IInv, Placed, applyRule, applyRuleFor
  <2>4. register.nonce = sup.nonce
    BY <2>3 DEF IInv, SaysWhatRuns
  <2>5. rule # Nothing
    OBVIOUS
  <2>6. rule.for = register.nonce
    BY <2>2, <2>3, <2>5 DEF applyRule, applyRuleFor
  <2> QED BY <2>4, <2>6
<1> QED BY <1>1, InvHolds, PTL DEF Spec, RuleStaysInItsSession
-----------------------------------------------------------------------------
(* A close is heeded, and a share's new key is on its way.                 *)

\* Claude Code is watched while it runs, and a switch to go is one its watcher answered.
Loop ==
    /\ claude.on => poller.at \in {"watch", "answering"}
    /\ poller.at # "off" => sup.at = "running"
    /\ switched => poller.at = "done"
    /\ signal => sup.at # "none"

\* A session on a share is watched for a new key, or the switch that brings it is staged or
\* about to happen, unless that switch was overwritten or refused.
Watchful(h) == h # Nothing /\ h.watch
KeyInHand ==
    claude.on /\ sup.to \in Shares /\ ~missed =>
        watching \/ Watchful(handoff) \/ (poller.at = "answering" /\ Watchful(poller.h))

\* The chat was closed, and either nobody has seen it yet or Claude Code was stopped for good.
Closed == signal \/ (sup.at = "running" /\ ~claude.on /\ ~switched /\ poller.at = "done")

LEMMA Aside ==
    ASSUME Loop, KeyInHand, UNCHANGED <<sup, poller, switched, watching, handoff, missed>>,
           claude'.on => claude.on, signal' => signal \/ sup.at # "none"
    PROVE  Loop' /\ KeyInHand'
BY DEF Loop, KeyInHand, Watchful

LEMMA Restaged ==
    ASSUME Loop, KeyInHand, NEW h, h # Nothing, WriteHandoff(h),
           UNCHANGED <<sup, claude, poller, switched, signal>>, watching' = watching \/ h.watch
    PROVE  Loop' /\ KeyInHand'
<1>1. Loop'
  BY DEF Loop
<1>2. ASSUME ~missed' PROVE ~missed /\ ~Watchful(handoff)
  BY <1>2 DEF WriteHandoff, Watchful
<1>3. handoff' = h
  BY DEF WriteHandoff
<1>4. KeyInHand'
  BY <1>2, <1>3 DEF KeyInHand, Watchful
<1> QED BY <1>1, <1>4

LEMMA Over ==
    ASSUME sup' = Gone, claude' = NoClaude, poller' = NoPoller, switched' = FALSE, signal' = FALSE
    PROVE  Loop' /\ KeyInHand'
BY DEF Loop, KeyInHand, Gone, NoClaude, NoPoller

LEMMA HandStep == IInv /\ Loop /\ KeyInHand /\ [Next]_vars => Loop' /\ KeyInHand'
<1> SUFFICES ASSUME IInv, Loop, KeyInHand, [Next]_vars PROVE Loop' /\ KeyInHand'
  OBVIOUS
<1> USE DEF world, files, named
<1>1. CASE EndsSession \/ Killed
  BY <1>1, Over DEF EndsSession, Killed
<1>2. CASE \/ \E a \in Own : SignedOut(a)
           \/ \E s \in Shares : Regrant(s) \/ Unshare(s)
           \/ \E t \in Targets \cup {Nothing} : WriteDefault(t)
           \/ \E t \in Targets : PageLists(t) \/ setRule(t)
           \/ SnapshotDefaultIdentity \/ Signal \/ ClaudeExits \/ ClearsConversation
           \/ List \/ cmdStay \/ UNCHANGED vars
  <2>1. UNCHANGED <<sup, poller, switched, watching, handoff, missed>>
    BY <1>2 DEF SignedOut, Regrant, Unshare, WriteDefault, PageLists, setRule,
       SnapshotDefaultIdentity, Signal, ClaudeExits, ClearsConversation, List, cmdStay, vars
  <2>2. claude'.on => claude.on
    BY <1>2 DEF SignedOut, Regrant, Unshare, WriteDefault, PageLists, setRule, IInv, TypeOK,
       SnapshotDefaultIdentity, Signal, ClaudeExits, ClearsConversation, List, cmdStay, vars
  <2>3. signal' => signal \/ sup.at # "none"
    BY <1>2 DEF SignedOut, Regrant, Unshare, WriteDefault, PageLists, setRule,
       SnapshotDefaultIdentity, Signal, ClaudeExits, ClearsConversation, List, cmdStay, vars
  <2> QED BY <2>1, <2>2, <2>3, Aside
<1>3. CASE \E t \in Targets, editor \in BOOLEAN, id \in Convs : superviseSession(t, editor, id)
  <2>1. /\ UNCHANGED <<claude, poller, switched, signal>>
        /\ sup.at = "none" /\ sup'.at = "launch"
    BY <1>3 DEF superviseSession
  <2> QED BY <2>1 DEF Loop, KeyInHand, IInv, Placed
<1>4. CASE Launch
  <2>1. /\ sup.at = "launch" /\ sup' = [sup EXCEPT !.at = "running", !.first = FALSE]
        /\ poller' = [at |-> "watch", h |-> Nothing] /\ watching' = (sup.to \in Shares)
        /\ UNCHANGED <<switched, signal>>
    BY <1>4 DEF Launch, LaunchWith
  <2>2. sup'.at = "running" /\ sup'.to = sup.to
    BY <2>1 DEF IInv, TypeOK
  <2> QED BY <2>1, <2>2 DEF Loop, KeyInHand
<1>5. CASE \/ handleSwitchSessions \/ applyRule \/ watchShareKey
           \/ \E t \in Targets : hookUserPromptSubmit(t)
  <2>1. CASE UNCHANGED <<handoff, missed>> /\ applyRule
    BY <2>1, Aside DEF applyRule, applyRuleFor
  <2>2. ASSUME NEW t \in Targets, hookUserPromptSubmit(t) PROVE Loop' /\ KeyInHand'
    <3> DEFINE h == [to |-> t, id |-> claude.id, for |-> 0, watch |-> FALSE]
    <3>1. h \in Handoff
      BY <2>2, Constants DEF hookUserPromptSubmit, IInv, Placed, Handoff, Lives
    <3>2. h # Nothing
      BY <3>1, NothingIsNoFile
    <3> QED BY <2>2, <3>2, Restaged DEF hookUserPromptSubmit
  <2>3. CASE handleSwitchSessions
    <3> DEFINE h == [to |-> page.to, id |-> page.entry.id, for |-> page.entry.nonce, watch |-> FALSE]
    <3>1. h \in Handoff
      BY <2>3 DEF handleSwitchSessions, IInv, TypeOK, Handoff, Entry
    <3>2. h # Nothing
      BY <3>1, NothingIsNoFile
    <3> QED BY <2>3, <3>2, Restaged DEF handleSwitchSessions
  <2>4. CASE applyRule /\ ~UNCHANGED <<handoff, missed>>
    <3> DEFINE h == [to |-> rule.to, id |-> claude.id, for |-> 0, watch |-> FALSE]
    <3>1. WriteHandoff(h) /\ claude.on /\ rule # Nothing
          /\ UNCHANGED <<sup, claude, poller, switched, signal, watching>>
      BY <2>4 DEF applyRule, applyRuleFor
    <3>2. h \in Handoff
      BY <3>1, Constants DEF IInv, TypeOK, Placed, Handoff, Rule, Lives
    <3>3. h # Nothing
      BY <3>2, NothingIsNoFile
    <3> QED BY <3>1, <3>3, Restaged
  <2>5. CASE watchShareKey
    <3> DEFINE h == [to |-> sup.to, id |-> sup.id, for |-> 0, watch |-> TRUE]
    <3>1. h \in Handoff
      BY <2>5, Constants DEF watchShareKey, IInv, Placed, Handoff, Lives
    <3>2. WriteHandoff(h) /\ h.watch /\ UNCHANGED <<sup, claude, poller, switched, signal>>
      BY <2>5 DEF watchShareKey
    <3>3. h # Nothing
      BY <3>1, NothingIsNoFile
    <3> QED BY <3>2, <3>3, Restaged
  <2> QED BY <1>5, <2>1, <2>2, <2>3, <2>4, <2>5
<1>6. CASE PollSignal \/ PollSettle
  <2>1. /\ poller.at # "off" /\ poller.at # "done" /\ poller'.at = "done" /\ sup' = sup
        /\ ~claude'.on /\ signal' = FALSE
    BY <1>6 DEF PollSignal, PollSettle, PollSettleUnless, Terminate, IInv, TypeOK
  <2> QED BY <2>1 DEF Loop, KeyInHand
<1>7. CASE PollHandoff
  <2> DEFINE goes == handoff.for \in {0, sup.nonce} /\ Resolves(handoff.to)
  <2>1. /\ poller.at = "watch" /\ handoff # Nothing /\ handoff' = Nothing
        /\ poller' = IF goes THEN [at |-> "answering", h |-> handoff] ELSE poller
        /\ missed' = (missed \/ (~goes /\ handoff.watch))
        /\ UNCHANGED <<sup, claude, switched, signal, watching>>
    BY <1>7 DEF PollHandoff, ClearHandoff
  <2>2. CASE goes
    <3>1. poller'.at = "answering" /\ poller'.h = handoff /\ (~missed' => ~missed)
      BY <2>1, <2>2
    <3> QED BY <2>1, <3>1 DEF Loop, KeyInHand, Watchful
  <2>3. CASE ~goes
    <3>1. poller' = poller /\ (~missed' => ~missed /\ ~handoff.watch)
      BY <2>1, <2>3
    <3> QED BY <2>1, <3>1 DEF Loop, KeyInHand, Watchful
  <2> QED BY <2>2, <2>3
<1>8. CASE (Reap \/ Relaunch) /\ ~EndsSession
  <2>1. CASE Reap
    <3>1. /\ sup' = [sup EXCEPT !.at = "reaped"] /\ claude' = claude /\ ~claude.on
          /\ switched' = FALSE /\ poller' = NoPoller
      BY <1>8, <2>1 DEF Reap
    <3>2. sup'.at = "reaped" /\ poller'.at = "off"
      BY <3>1 DEF IInv, TypeOK, NoPoller
    <3> QED BY <3>1, <3>2 DEF Loop, KeyInHand
  <2>2. CASE Relaunch
    <3>1. /\ sup.at = "reaped" /\ sup'.at = "launch"
          /\ UNCHANGED <<claude, poller, switched, signal>>
      BY <1>8, <2>2 DEF Relaunch, IInv, TypeOK
    <3> QED BY <3>1 DEF Loop, KeyInHand, IInv, Placed
  <2> QED BY <1>8, <2>1, <2>2
<1> QED
  <2>1. ASSUME NEW t \in Targets, NEW id \in Convs,
               \/ \E auto \in BOOLEAN : cmdRun(t, id, auto)
               \/ cmdShared(t, id) \/ cmdExec(id)
        PROVE  \E x \in Targets, editor \in BOOLEAN : superviseSession(x, editor, id)
    <3>1. editorTarget \in Targets
      BY Constants DEF IInv, TypeOK, editorTarget, Targets
    <3> QED BY <2>1, <3>1 DEF cmdRun, cmdShared, cmdExec
  <2>2. ASSUME NEW t \in Targets \cup {Nothing}, handleSetSessionDefault(t) \/ cmdEditor(t)
        PROVE  WriteDefault(t)
    BY <2>2 DEF handleSetSessionDefault, cmdEditor
  <2>3. Default \in Targets
    BY Constants DEF Targets
  <2> QED BY <1>1, <1>2, <1>3, <1>4, <1>5, <1>6, <1>7, <1>8, <2>1, <2>2, <2>3
          DEF Next, LaunchFails

LEMMA HandHolds == Spec => [](IInv /\ Loop /\ KeyInHand)
<1>1. Init => Loop /\ KeyInHand
  BY DEF Init, Loop, KeyInHand, Gone, NoClaude, NoPoller
<1> QED BY <1>1, HandStep, InvHolds, PTL DEF Spec

\* A session on a share is never left to an old key unheeded: from its launch it is watched,
\* and once the watcher has staged the switch, the switch is there, or about to happen, or was
\* overwritten or refused (watchShareKey, runClaudeOnce). What is left of KeyRenewed is that
\* the goroutines go on.
THEOREM NewKeyIsInHand == Spec => []KeyInHand
<1> QED BY HandHolds, PTL

\* "a signal is the editor closing the chat" (runClaudeOnce): it is not lost to a switch that
\* is under way, wherever in the loop it lands. Once it came no new launch is begun, and what
\* is left of CloseEnds is that the goroutine and the loop go on.
THEOREM CloseIsHeeded ==
    Spec => [][Closed => \/ sup'.at = "none"
                         \/ Closed' /\ (sup'.at = "launch" => sup.at = "launch")]_vars
<1>1. ASSUME IInv, Loop, Next, Closed, sup'.at # "none"
      PROVE  Closed' /\ (sup'.at = "launch" => sup.at = "launch")
  <2> USE DEF world, files, named
  <2>1. ~EndsSession /\ ~Killed
    BY <1>1 DEF EndsSession, Killed, Gone
  <2>2. sup.at # "none"
    BY <1>1 DEF Closed, Loop
  <2>3. CASE PollSignal \/ PollSettle
    <3>1. sup' = sup /\ ~claude'.on /\ poller'.at = "done" /\ poller.at \notin {"off", "done"}
      BY <1>1, <2>3 DEF PollSignal, PollSettle, PollSettleUnless, Terminate, IInv, TypeOK
    <3>2. signal
      BY <1>1, <3>1 DEF Closed
    <3>3. switched' = switched
      BY <2>3, <3>2 DEF PollSignal, PollSettle, PollSettleUnless
    <3> QED BY <1>1, <3>1, <3>3 DEF Closed, Loop
  <2>4. CASE Launch
    <3>1. signal /\ signal' = signal /\ sup'.at = "running"
      BY <1>1, <2>4 DEF Launch, LaunchWith, Closed, IInv, TypeOK
    <3> QED BY <3>1 DEF Closed
  <2>5. CASE Reap
    <3>1. switched /\ signal' = signal /\ sup'.at = "reaped"
      BY <1>1, <2>1, <2>5 DEF Reap, IInv, TypeOK
    <3> QED BY <1>1, <3>1 DEF Closed
  <2>6. ~Relaunch
    BY <1>1, <2>1 DEF Relaunch, Closed
  <2>7. CASE ~(PollSignal \/ PollSettle \/ Launch \/ Reap)
    <3>1. /\ UNCHANGED <<sup, switched>> /\ (claude'.on => claude.on)
          /\ (signal => signal') /\ (poller.at = "done" => poller' = poller)
      BY <1>1, <2>1, <2>2, <2>6, <2>7
         DEF Next, SignedOut, Regrant, Unshare, handleSetSessionDefault, cmdEditor,
             WriteDefault, cmdRun, cmdShared, cmdExec, superviseSession,
             SnapshotDefaultIdentity, LaunchFails, Signal, IInv, TypeOK,
             ClaudeExits, ClearsConversation, hookUserPromptSubmit, List, PageLists,
             handleSwitchSessions, setRule, cmdStay, applyRule, applyRuleFor, watchShareKey,
             PollHandoff
    <3> QED BY <1>1, <3>1 DEF Closed
  <2> QED BY <2>3, <2>4, <2>5, <2>7
<1>2. IInv /\ Loop /\ [Next]_vars =>
        [Closed => \/ sup'.at = "none"
                   \/ Closed' /\ (sup'.at = "launch" => sup.at = "launch")]_vars
  BY <1>1
<1> QED BY <1>2, HandHolds, PTL DEF Spec
=============================================================================
