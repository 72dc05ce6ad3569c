------------------------------ MODULE CheckIn ------------------------------
(* A machine and the panel it is joined to: what the panel says on a check-in and
   what the machine makes of it (internal/cli/cmd_panel.go, notices.go; the page's
   handlers_panel.go, handlers_logins.go, handlers_remote.go; panel/client.go,
   handlers.go, notices.go, loginend.go).

   One person's share of one account stands for all of them, by the number of its
   key, and every one comes with a standing condition the person is to be told of: a
   quota, a broken login, one about to end. A tick is checkInEvery, and a check-in
   takes none. Remote jobs, which the same loop runs, are RemoteJobs'.
 *)
EXTENDS Naturals, FiniteSets

CONSTANTS
  CheckInBackoffMax,   \* the longest wait between check-ins, in ticks (ten)
  MaxKey,      \* bound: keys the panel mints
  MaxEnrol,    \* bound: invites redeemed on this machine
  MaxPress,    \* bound: switches pressed on the page
  MaxTrouble   \* bound: outages, failures and restarts

ASSUME CheckInAssumption ==
  /\ {MaxKey, MaxEnrol, MaxPress, MaxTrouble} \subseteq Nat
  /\ MaxEnrol > 0 /\ CheckInBackoffMax \in Nat \ {0}

VARIABLES
  share,      \* the panel: the person's key, 0 without a share
  minted,     \* keys minted so far
  devices,    \* the panel: enrolments of this machine it recognises
  enrolled,   \* enrolments so far
  reachable,  \* the machine can reach the panel
  config,     \* panel.json: the enrolment this machine uses, 0 for none
  pressed,    \* the switch for remote help: the configuration it read, 0 when idle
  presses,    \* switches pressed so far
  cache,      \* shares.json: the key, 0 for none
  told,       \* notices-seen: shares the person was told the condition of
  ask,        \* [Askers -> a check-in: its place, enrolment and answer]
  wait,       \* ticks until the loop's next check-in
  failures,   \* its consecutive failures
  behind,     \* history: ticks without one, the panel answering all the while
  trouble     \* outages, failures and restarts so far

panelState == <<share, minted, devices, enrolled>>
machine == <<config, cache, told>>
switch == <<pressed, presses>>
beat == <<wait, failures, behind>>
CheckInVars == <<panelState, reachable, machine, switch, ask, beat, trouble>>

Askers == {"loop", "page"}
Nothing == [kind |-> "none", share |-> 0, notices |-> {}]
Says(kind) == [Nothing EXCEPT !.kind = kind]
At(at, enrolment) == [at |-> at, as |-> enrolment, answer |-> Nothing]
Idle == At("idle", 0)

CheckInInit ==
  /\ share = 0 /\ minted = 0 /\ devices = {} /\ enrolled = 0
  /\ reachable = TRUE /\ config = 0 /\ cache = 0 /\ told = {}
  /\ pressed = 0 /\ presses = 0
  /\ ask = [a \in Askers |-> Idle]
  /\ wait = 0 /\ failures = 0 /\ behind = 0 /\ trouble = 0

Put(a, what) == ask' = [ask EXCEPT ![a] = what]
-----------------------------------------------------------------------------
(* The panel's people, and the world. *)

Grant ==
  /\ share = 0 /\ minted < MaxKey
  /\ share' = minted + 1 /\ minted' = minted + 1
  /\ UNCHANGED <<devices, enrolled, reachable, machine, switch, ask, beat, trouble>>

RevokeShare ==
  /\ share # 0 /\ share' = 0
  /\ UNCHANGED <<minted, devices, enrolled, reachable, machine, switch, ask, beat,
                 trouble>>

CutOff(e) ==
  /\ e \in devices /\ devices' = devices \ {e}
  /\ UNCHANGED <<share, minted, enrolled, reachable, machine, switch, ask, beat,
                 trouble>>

Outage ==
  /\ reachable /\ trouble < MaxTrouble
  /\ reachable' = FALSE /\ trouble' = trouble + 1 /\ behind' = 0
  /\ UNCHANGED <<panelState, machine, switch, ask, wait, failures>>

OutageEnds ==
  /\ ~reachable /\ reachable' = TRUE
  /\ UNCHANGED <<panelState, machine, switch, ask, beat, trouble>>
-----------------------------------------------------------------------------
(* The panel answers a check-in. The device is looked up first and the answer made
   later, from the state read again then. *)

device(a) ==
  /\ ask[a].at = "asking" /\ reachable
  /\ Put(a, IF ask[a].as \in devices THEN [ask[a] EXCEPT !.at = "known"]
            ELSE [ask[a] EXCEPT !.at = "answered", !.answer = Says("refused")])
  /\ UNCHANGED <<panelState, reachable, machine, switch, beat, trouble>>

checkinNotices == {share} \ {0}
handleCheckin(a) ==
  /\ ask[a].at = "known" /\ reachable
  /\ \/ /\ Put(a, [ask[a] EXCEPT !.at = "answered",
                     !.answer = [kind |-> "ok", share |-> share, notices |-> checkinNotices]])
        /\ UNCHANGED trouble
     \/ (* the second read fails and nobody looks: the answer is from an empty panel *)
        /\ trouble < MaxTrouble /\ trouble' = trouble + 1
        /\ Put(a, [ask[a] EXCEPT !.at = "answered", !.answer = Says("ok")])
  /\ UNCHANGED <<panelState, reachable, machine, switch, beat>>

(* No answer, or one that is an error. *)
Unanswered(a) ==
  /\ ask[a].at \in {"asking", "known"}
  /\ \/ ~reachable /\ UNCHANGED <<trouble, behind>>
     \/ reachable /\ trouble < MaxTrouble /\ trouble' = trouble + 1 /\ behind' = 0
  /\ Put(a, [ask[a] EXCEPT !.at = "answered", !.answer = Says("failed")])
  /\ UNCHANGED <<panelState, reachable, machine, switch, wait, failures>>
-----------------------------------------------------------------------------
(* The machine. *)

(* mistaken: the list is written only when a share came or went *)
applySharesGained(next) == cache' = IF (next = 0) = (cache = 0) THEN cache ELSE next

(* applyShares writes the list when anything in it differs, so the file is what the
   panel said last. *)
applyShares(next) == cache' = next

(* CheckIn: a machine that was cut off forgets; one that cannot ask keeps. *)
ClientCheckIn(a) ==
  CASE ask[a].answer.kind = "ok"      -> applyShares(ask[a].answer.share)
    [] ask[a].answer.kind = "refused" -> applyShares(0)
    [] OTHER                          -> UNCHANGED cache

(* mistaken: the doubling stops at the limit but may pass it *)
BackoffPast(n) ==
  IF n <= 1 THEN 1
  ELSE IF 2^(n - 2) \in 1..CheckInBackoffMax - 1 THEN 2^(n - 1) ELSE CheckInBackoffMax

(* Doubled with each failure after the first, up to the limit. *)
checkInBackoff(n) ==
  IF n <= 1 THEN 1
  ELSE IF 2^(n - 1) \in 1..CheckInBackoffMax THEN 2^(n - 1) ELSE CheckInBackoffMax

(* The failures past which the wait no longer grows are not told apart. *)
Fails == IF failures > CheckInBackoffMax THEN failures ELSE failures + 1

showNotices(notices) == told' = told \cup notices

(* watchPanel: the configuration is read anew each time. *)
watchPanelAsks ==
  /\ ask["loop"].at = "idle" /\ wait = 0
  /\ IF config = 0 THEN wait' = 1 /\ UNCHANGED ask
                   ELSE Put("loop", At("asking", config)) /\ UNCHANGED wait
  /\ UNCHANGED <<panelState, reachable, machine, switch, failures, behind, trouble>>

watchPanel ==
  /\ ask["loop"].at = "answered"
  /\ ClientCheckIn("loop")
  /\ showNotices(ask["loop"].answer.notices)
  /\ CASE ask["loop"].answer.kind = "refused" ->
            Put("loop", At("over", 0)) /\ behind' = 0 /\ UNCHANGED <<wait, failures>>
       [] ask["loop"].answer.kind = "failed" ->
            /\ Put("loop", Idle) /\ failures' = Fails /\ wait' = checkInBackoff(Fails)
            /\ UNCHANGED behind
       [] OTHER ->
            Put("loop", Idle) /\ failures' = 0 /\ wait' = checkInBackoff(0) /\ behind' = 0
  /\ UNCHANGED <<panelState, reachable, config, switch, trouble>>

(* Joining, from the page or a terminal: the panel's word for it may be lost on its
   way. The check-in that follows is made as the new enrolment. *)
Enroll == At("joined", enrolled + 1)

handleEnroll ==
  /\ ask["page"].at = "idle" /\ reachable /\ enrolled < MaxEnrol
  /\ enrolled' = enrolled + 1 /\ devices' = devices \cup {enrolled + 1}
  /\ \/ Put("page", Enroll) /\ UNCHANGED trouble
     \/ trouble < MaxTrouble /\ trouble' = trouble + 1 /\ UNCHANGED ask
  /\ UNCHANGED <<share, minted, reachable, machine, switch, beat>>

SaveClientConfig(e) == config' = e

handlePanelConnect ==
  /\ ask["page"].at = "joined"
  /\ SaveClientConfig(ask["page"].as)
  /\ Put("page", At("asking", ask["page"].as))
  /\ UNCHANGED <<panelState, reachable, cache, told, switch, beat, trouble>>
enrollMachine == handlePanelConnect    \* `clawdh join` does the same

(* A client of the page or the terminal is made of the configuration of the moment, to
   check in, to hand a login up or to take one back; the check-in after those two is
   by the same client, and is not made when the panel refuses or does not answer. *)
panelClient(at) ==
  /\ ask["page"].at = "idle" /\ config # 0 /\ presses < MaxPress
  /\ Put("page", At(at, config)) /\ presses' = presses + 1
  /\ UNCHANGED <<panelState, reachable, machine, pressed, beat, trouble>>

panelCheck == panelClient("asking")
handleAddLoginToPanel == panelClient("adding")   \* and `clawdh panel push`
handleWithdrawFromPanel == panelClient("taking")

Client(as) ==     \* the panel's answer: go on, or not
  Put("page", IF as \in devices THEN At("asking", as) ELSE Idle)

(* The panel gives the contributor a share of the account. *)
Contribute ==
  /\ ask["page"].at = "adding" /\ reachable
  /\ Client(ask["page"].as)
  /\ IF ask["page"].as \in devices /\ share = 0 /\ minted < MaxKey
     THEN share' = minted + 1 /\ minted' = minted + 1
     ELSE UNCHANGED <<share, minted>>
  /\ UNCHANGED <<devices, enrolled, reachable, machine, switch, beat, trouble>>

(* Every share of the account goes with it. *)
ClientWithdraw ==
  /\ ask["page"].at = "taking" /\ reachable
  /\ Client(ask["page"].as)
  /\ share' = IF ask["page"].as \in devices THEN 0 ELSE share
  /\ UNCHANGED <<minted, devices, enrolled, reachable, machine, switch, beat, trouble>>

(* It was refused, or not answered. *)
TurnedDown ==
  /\ ask["page"].at \in {"adding", "taking"}
  /\ Put("page", Idle)
  /\ UNCHANGED <<panelState, reachable, machine, switch, beat, trouble>>

PageAnswered ==
  /\ ask["page"].at = "answered"
  /\ ClientCheckIn("page")
  /\ Put("page", Idle)
  /\ UNCHANGED <<panelState, reachable, config, told, switch, beat, trouble>>

handlePanelDisconnect ==
  /\ config # 0 /\ presses < MaxPress
  /\ config' = 0 /\ presses' = presses + 1 /\ behind' = 0
  /\ UNCHANGED <<panelState, reachable, cache, told, pressed, ask, wait, failures, trouble>>

(* The switch for remote help reads the configuration and writes all of it back. *)
RemoteSwitchReads ==
  /\ pressed = 0 /\ config # 0 /\ presses < MaxPress
  /\ pressed' = config /\ presses' = presses + 1
  /\ UNCHANGED <<panelState, reachable, machine, ask, beat, trouble>>

handleRemoteEnable ==
  /\ pressed # 0
  /\ config' = pressed /\ pressed' = 0
  /\ UNCHANGED <<panelState, reachable, cache, told, presses, ask, beat, trouble>>

RestartService ==
  /\ trouble < MaxTrouble /\ trouble' = trouble + 1
  /\ ask' = [a \in Askers |-> Idle] /\ pressed' = 0
  /\ wait' = 0 /\ failures' = 0 /\ behind' = 0
  /\ UNCHANGED <<panelState, reachable, machine, presses>>

(* Time passes while the loop waits; whatever is due comes first. It passes tick by
   tick while the loop could not check in anyway, and else until it does. *)
Tick ==
  /\ ask["loop"].at = "idle" /\ wait > 0
  /\ IF reachable /\ config # 0 THEN wait' = 0 /\ behind' = behind + wait
                                ELSE wait' = wait - 1 /\ behind' = 0
  /\ UNCHANGED <<panelState, reachable, machine, switch, ask, failures, trouble>>
-----------------------------------------------------------------------------
CheckInNext ==
  \/ Grant \/ RevokeShare \/ Outage \/ OutageEnds
  \/ \E e \in devices : CutOff(e)
  \/ \E a \in Askers : device(a) \/ handleCheckin(a) \/ Unanswered(a)
  \/ watchPanelAsks \/ watchPanel
  \/ handleEnroll \/ enrollMachine \/ panelCheck \/ PageAnswered
  \/ handleAddLoginToPanel \/ handleWithdrawFromPanel
  \/ Contribute \/ ClientWithdraw \/ TurnedDown
  \/ handlePanelDisconnect \/ RemoteSwitchReads \/ handleRemoteEnable
  \/ RestartService \/ Tick

(* Time passes, the loop goes on, and a request ends. *)
CheckInFairness ==
  /\ WF_CheckInVars(Tick) /\ WF_CheckInVars(watchPanelAsks) /\ WF_CheckInVars(watchPanel)
  /\ \A a \in Askers : WF_CheckInVars(device(a) \/ handleCheckin(a) \/ Unanswered(a))
  /\ WF_CheckInVars(Contribute \/ ClientWithdraw \/ TurnedDown)

CheckInSpec == CheckInInit /\ [][CheckInNext]_CheckInVars /\ CheckInFairness
-----------------------------------------------------------------------------
(* "once it is back a machine is at most five minutes behind" (cmd_panel.go:478-479):
   while the panel can be reached and nothing fails, no more than CheckInBackoffMax
   passes without a check-in of the loop, whatever failed before. *)
FiveMinutesBehindAtMost == behind <= CheckInBackoffMax

(* When people have stopped changing things, a machine the panel recognises and whose
   loop runs holds the share it was granted, under its present key, or none, and has
   shown the person what there is to say of it: through outages, answers that come in another order
   than they were given, answers made from a failed read, and a change of key that
   leaves the list of shares looking the same. *)
InTouch == reachable /\ ask["loop"].at # "over" /\ config \in devices
SettlesInStep == <>[](InTouch => cache = share /\ share \in told \cup {0})

(* "a machine joined ... after the service was already running is picked up without a
   restart" (cmd_panel.go:418-420): a machine the panel recognises comes to hold what
   it was granted. *)
JoinedIsPickedUp == <>[](reachable /\ config \in devices => cache = share)
=============================================================================
