------------------------------ MODULE Updater ------------------------------
(* A machine keeping its own binary current (internal/updater/updater.go,
   replace_unix.go, replace_windows.go; internal/cli/cmd_serve.go, cmd_update.go;
   internal/httpserver/handlers_update.go and Serve of server.go).

   Releases are numbered in the order they are published and a date is the number of
   releases published by then, so release k carries the date k.  The service checks
   on its timer and on the page's button under one mutex: one check at a time.
   `clawdh update` checks in a process of its own when no service does it for it.
 *)
EXTENDS Naturals

CONSTANTS
  MaxRelease,   \* bound: releases published
  MaxWithdrawn, \* bound: releases taken back
  MaxHand,      \* bound: builds a person puts in place by hand
  MaxTrouble    \* bound: steps that fail, kills of a process

ASSUME UpdaterAssumption ==
  /\ MaxRelease \in Nat \ {0} /\ {MaxWithdrawn, MaxHand, MaxTrouble} \subseteq Nat

VARIABLES
  windows,  \* the binary in use cannot be renamed over
  latest,   \* the release GitHub marks as latest
  clock,    \* releases published so far
  path,     \* what is at BinaryPath: the build, 0 for nothing, and its mtime
  check,    \* [Updaters -> CheckAndApply under way]
  running,  \* the build the service's process runs, 0 for none
  handing,  \* RequestRestart has been called
  lost,     \* a swap was left between its two renames
  untidy,   \* an install was cut before it was stamped or the service restarted, or
            \* the binary was replaced by somebody else while a check was under way
  spent     \* releases taken back, hand builds, troubles so far

world == <<windows, latest, clock>>
service == <<running, handing>>
vars == <<world, path, check, service, lost, untidy, spent>>

Updaters == {"service", "cli"}
Other(p) == IF p = "service" THEN "cli" ELSE "service"
Releases == 1..MaxRelease
Hand == MaxRelease + 1      \* a build made by hand
Future == MaxRelease + 1    \* a date the clock has not reached
Idle == [at |-> "idle", rel |-> 0, sum |-> 0, aside |-> 0]

Init ==
  /\ windows \in BOOLEAN
  /\ latest = 1 /\ clock = 1
  /\ path \in [build : {1}, stamp : {1, Future}]
  /\ check = [p \in Updaters |-> Idle]
  /\ running = 1 /\ handing = FALSE
  /\ lost = FALSE /\ untidy = FALSE
  /\ spent = [withdrawn |-> 0, hand |-> 0, trouble |-> 0]

Spend(what, max) == spent[what] < max /\ spent' = [spent EXCEPT ![what] = @ + 1]
Trouble == Spend("trouble", MaxTrouble)
Alive(p) == p = "service" => running # 0
Goes(p, how) == check' = [check EXCEPT ![p] = how]
-----------------------------------------------------------------------------
(* The world. *)

Publish ==
  /\ clock < MaxRelease
  /\ clock' = clock + 1 /\ latest' = clock + 1
  /\ UNCHANGED <<windows, path, check, service, lost, untidy, spent>>

Withdraw ==
  /\ latest > 1 /\ latest' = latest - 1
  /\ Spend("withdrawn", MaxWithdrawn)
  /\ UNCHANGED <<windows, clock, path, check, service, lost, untidy>>

HandBuild ==
  /\ Spend("hand", MaxHand)
  /\ path' = [build |-> Hand, stamp |-> clock]
  /\ untidy' = (untidy \/ \E p \in Updaters : check[p].at # "idle")
  /\ UNCHANGED <<world, check, service, lost>>
-----------------------------------------------------------------------------
(* CheckAndApply, one step for each thing it asks for. *)

Asked == [at |-> "asked", rel |-> latest, sum |-> 0, aside |-> 0]

Latest(p) ==      \* the API, or the download links while it is rate-limited
  /\ Alive(p) /\ check[p].at = "idle"
  /\ p = "cli" => running = 0
  /\ Goes(p, Asked)
  /\ UNCHANGED <<world, path, service, lost, untidy, spent>>

(* `clawdh update` beside a service that could not do it. *)
FallThrough ==
  /\ running # 0 /\ check["cli"].at = "idle" /\ Trouble
  /\ Goes("cli", Asked)
  /\ UNCHANGED <<world, path, service, lost, untidy>>

newer(p) == path.stamp > clock \/ check[p].rel > path.stamp

Compare(p) ==     \* the binary's own date, unless it lies in the future
  /\ Alive(p) /\ check[p].at = "asked"
  /\ Goes(p, IF path.build # 0 /\ newer(p)
             THEN [check[p] EXCEPT !.at = "newer"] ELSE Idle)
  /\ UNCHANGED <<world, path, service, lost, untidy, spent>>

(* The checksum is the one published now; the same build is only dated anew. *)
expectedChecksum(p) ==
  /\ Alive(p) /\ check[p].at = "newer"
  /\ IF path.build = latest
     THEN Goes(p, Idle) /\ path' = [path EXCEPT !.stamp = check[p].rel]
     ELSE /\ Goes(p, IF path.build = 0 THEN Idle
                     ELSE [check[p] EXCEPT !.at = "expected", !.sum = latest])
          /\ UNCHANGED path
  /\ UNCHANGED <<world, service, lost, untidy, spent>>

Download(p) ==    \* the asset published now, refused unless it has the checksum
  /\ Alive(p) /\ check[p].at = "expected"
  /\ Goes(p, IF latest = check[p].sum THEN [check[p] EXCEPT !.at = "verified"] ELSE Idle)
  /\ UNCHANGED <<world, path, service, lost, untidy, spent>>

Met(p) == untidy' = (untidy \/ check[Other(p)].at # "idle")

(* replaceBinary on Unix: one rename.  The file's date is when it was written. *)
Rename(p) ==
  /\ ~windows /\ Alive(p) /\ check[p].at = "verified"
  /\ path' = [build |-> check[p].sum, stamp |-> clock]
  /\ Goes(p, [check[p] EXCEPT !.at = "installed"])
  /\ Met(p)
  /\ UNCHANGED <<world, service, lost, spent>>

(* replaceBinaryInPlace, by this account or elevated: the running binary is moved
   aside, and the new one into its place. *)
MoveAside(p) ==
  /\ windows /\ Alive(p) /\ check[p].at = "verified"
  /\ IF path.build = 0 THEN Goes(p, Idle) /\ UNCHANGED path
     ELSE /\ Goes(p, [check[p] EXCEPT !.at = "aside", !.aside = path])
          /\ path' = [build |-> 0, stamp |-> 0]
  /\ UNCHANGED <<world, service, lost, untidy, spent>>

MoveIn(p) ==
  /\ Alive(p) /\ check[p].at = "aside"
  /\ path' = [build |-> check[p].sum, stamp |-> clock]
  /\ Goes(p, [check[p] EXCEPT !.at = "installed", !.aside = 0])
  /\ Met(p)
  /\ UNCHANGED <<world, service, lost, spent>>

(* mistaken: the old binary is not put back *)
MoveInFailsAtOnce(p) ==
  /\ Alive(p) /\ check[p].at = "aside" /\ Trouble
  /\ Goes(p, Idle)
  /\ UNCHANGED <<world, path, service, lost, untidy>>

(* The new one cannot be moved in: the old one is put back, if that can be done. *)
MoveInFails(p) ==
  /\ Alive(p) /\ check[p].at = "aside" /\ Trouble
  /\ Goes(p, Idle)
  /\ \/ path' = check[p].aside /\ UNCHANGED lost
     \/ UNCHANGED path /\ lost' = TRUE
  /\ UNCHANGED <<world, service, untidy>>

(* mistaken: the new binary keeps the date it was written at *)
StampsNothing(p) ==
  /\ Alive(p) /\ check[p].at = "installed"
  /\ Goes(p, IF p = "cli" THEN [Idle EXCEPT !.at = "restart"] ELSE Idle)
  /\ handing' = (handing \/ p = "service")
  /\ UNCHANGED <<world, path, running, lost, untidy, spent>>

(* The installed binary gets the release's date, and the service is to restart. *)
Stamp(p) ==
  /\ Alive(p) /\ check[p].at = "installed"
  /\ Goes(p, IF p = "cli" THEN [Idle EXCEPT !.at = "restart"] ELSE Idle)
  /\ handing' = (handing \/ p = "service")
  /\ \/ path' = [path EXCEPT !.stamp = check[p].rel] /\ UNCHANGED <<untidy, spent>>
     \/ Trouble /\ untidy' = TRUE /\ UNCHANGED path
  /\ UNCHANGED <<world, running, lost>>

Fails(p) ==       \* a request, a download or the first rename
  /\ Alive(p) /\ check[p].at \in {"asked", "newer", "expected", "verified"} /\ Trouble
  /\ Goes(p, Idle)
  /\ UNCHANGED <<world, path, service, lost, untidy>>
-----------------------------------------------------------------------------
(* The processes. *)

(* What a process that ends in the middle of a check leaves. *)
Cut(p) ==
  /\ lost' = (lost \/ check[p].at = "aside")
  /\ untidy' = (untidy \/ check[p].at \in {"installed", "restart"})

respawn ==       \* the file that is there now is started; it may not come up
  \/ running' = path.build /\ UNCHANGED spent
  \/ running' = 0 /\ Trouble

Handover ==      \* Serve, once it has stopped serving
  /\ running # 0 /\ handing /\ handing' = FALSE
  /\ Goes("service", Idle) /\ Cut("service")
  /\ respawn
  /\ UNCHANGED <<world, path>>

Killed(p) ==
  /\ Trouble /\ Goes(p, Idle) /\ Cut(p)
  /\ IF p = "service" THEN running # 0 /\ running' = 0 /\ handing' = FALSE
     ELSE check[p].at # "idle" /\ UNCHANGED service
  /\ UNCHANGED <<world, path>>

Boot ==          \* at login, or by `clawdh start`
  /\ running = 0 /\ path.build # 0 /\ running' = path.build
  /\ UNCHANGED <<world, path, check, handing, lost, untidy, spent>>

(* cmdUpdate has installed: it stops the service, if one runs, and starts it. *)
cmdUpdate ==
  /\ check["cli"].at = "restart"
  /\ check' = [p \in Updaters |-> IF p = "cli" \/ running # 0 THEN Idle ELSE check[p]]
  /\ running' = IF running = 0 THEN 0 ELSE path.build
  /\ handing' = (handing /\ running = 0)
  /\ IF running # 0 THEN Cut("service") ELSE UNCHANGED <<lost, untidy>>
  /\ UNCHANGED <<world, path, spent>>

Steps(p) ==
  \/ Compare(p) \/ expectedChecksum(p) \/ Download(p)
  \/ Rename(p) \/ MoveAside(p) \/ MoveIn(p) \/ Stamp(p)

Next ==
  \/ Publish \/ Withdraw \/ HandBuild
  \/ \E p \in Updaters : \/ Latest(p) \/ Steps(p) \/ MoveInFails(p) \/ Fails(p) \/ Killed(p)
  \/ FallThrough \/ Handover \/ Boot \/ cmdUpdate

(* The timer keeps checking, a check under way goes on, a requested restart happens;
   nobody need run `clawdh update` or start a service that is down. *)
Fairness ==
  /\ WF_vars(Latest("service")) /\ WF_vars(Handover) /\ WF_vars(cmdUpdate)
  /\ \A p \in Updaters : WF_vars(Steps(p))

Spec == Init /\ [][Next]_vars /\ Fairness
-----------------------------------------------------------------------------
(* "a failed update can never leave the service with no binary at all" (replace_windows.go
   :87-88), whatever the two processes do to each other: the path is empty only between
   the two renames of a swap, and after one that was cut there or could not be undone. *)
NeverWithoutBinary ==
  path.build = 0 => lost \/ \E p \in Updaters : check[p].at = "aside"

(* "Nothing is replaced by something older than what is running" (updater.go:15): an
   install displaces no newer release.  Not so when a release is published and another
   taken back between the questions of one check (README, section 5). *)
Displaced(p) == IF check[p].at = "aside" THEN check[p].aside.build ELSE path.build
NothingOlder ==
  [][\A p \in Updaters :
       check[p].at # "installed" /\ check'[p].at = "installed" /\ ~untidy'
         /\ Displaced(p) \in Releases
       => path'.build >= Displaced(p)]_vars

(* A service that stays up ends up running the latest release or one after it, through
   releases that move under a check, failures and restarts, unless a person's own build
   is newer or an install was cut short. *)
Converges ==
  <>[](running # 0)
    => <>[](\/ running \in latest..MaxRelease
            \/ path.build = Hand /\ path.stamp >= latest
            \/ untidy \/ lost)
=============================================================================
