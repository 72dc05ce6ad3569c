----------------------------- MODULE RemoteJobs -----------------------------
(***************************************************************************)
(* Remote help for one machine: what the panel asks of it, and what its    *)
(* owner lets it answer.                                                   *)
(*                                                                         *)
(* The panel keeps each job's status (jobs table).  The machine's check-in *)
(* loop fetches the pending ones; a health check runs at once, anything    *)
(* else runs inside an allow window or is held until the owner decides on  *)
(* their page, or nobody did for an hour (remotejobs.Queue).  Each step's  *)
(* report to the panel is a request of its own: it may be applied, never   *)
(* arrive, or arrive after the machine gave up on it, and nobody retries   *)
(* it.  Results are left out, and so is whether a run that answered went   *)
(* well ("done" stands for "error" too).                                   *)
(***************************************************************************)
EXTENDS Integers

CONSTANTS
    Jobs,          \* what the panel will ask, once each
    HealthChecks,  \* those of kind diagnose, which need no approval
    Pages,         \* decisions the owner makes at once, from the clawdh page
    Loop,          \* the check-in loop
    MaxFailures,   \* bound: reports that fail, and restarts
    None           \* no report under way

ASSUME RemoteAssumption ==
    HealthChecks \subseteq Jobs /\ Loop \notin Pages /\ MaxFailures \in Nat

Actors  == Pages \cup {Loop}
Reports == [job : Jobs, answer : {"awaiting", "done", "denied"}]
ASSUME NoneIsNoReport == None \notin Reports

VARIABLES
    status,    \* [Jobs -> the panel's status of it, or "none" yet]
    late,      \* reports the machine gave up on that may still arrive
    remote,    \* the owner has remote help on
    held,      \* q.pending: [Jobs -> "no", "new", or "old" past MaxPendingAge]
    trusted,   \* trustUntil has not passed
    act,       \* [Actors -> what each goroutine is doing]
    failures,  \* how many reports failed, and restarts, so far
    runs,      \* history: [Jobs -> times it ran, counted to two]
    cut        \* history: jobs a report of which did not arrive in time

vars == <<status, late, remote, held, trusted, act, failures, runs, cut>>

Final   == {"done", "denied"}
Held    == {j \in Jobs : held[j] # "no"}
Idle    == [mode |-> "idle", todo |-> {}, report |-> None]
Doing(mode, jobs)     == [mode |-> mode, todo |-> jobs, report |-> None]
Set(a, doing)         == act' = [act EXCEPT ![a] = doing]
Reporting(a, j, what) == Set(a, [act[a] EXCEPT !.todo = @ \ {j},
                                              !.report = [job |-> j, answer |-> what]])

-----------------------------------------------------------------------------
(* The panel.                                                              *)

\* handleRequestJob, EnqueueJob.
Enqueue(j) ==
    /\ status[j] = "none"
    /\ status' = [status EXCEPT ![j] = "pending"]
    /\ UNCHANGED <<late, remote, held, trusted, act, runs, failures, cut>>

\* Mutant: a report is applied whatever the job's status is.
CompleteAnyJob(r) == status' = [status EXCEPT ![r.job] = r.answer]

\* CompleteJob: "awaiting" only moves a pending job, and a settled one stays.
CompleteJob(r) ==
    LET open == IF r.answer = "awaiting" THEN {"pending"} ELSE {"pending", "awaiting"}
    IN status' = [status EXCEPT ![r.job] = IF @ \in open THEN r.answer ELSE @]

-----------------------------------------------------------------------------
(* The check-in loop.                                                      *)

\* Mutant: a machine that asks for nothing does not look at what it holds.
StartCheckInOrSleep ==
    /\ act[Loop].mode = "idle" /\ remote
    /\ Set(Loop, Doing("asking", {}))
    /\ UNCHANGED <<status, late, remote, held, trusted, runs, failures, cut>>

\* The machine says whether remote help is on, and asks only if it is.
StartCheckIn ==
    /\ act[Loop].mode = "idle"
    /\ IF remote
       THEN Set(Loop, Doing("asking", {})) /\ UNCHANGED held
       ELSE Set(Loop, Doing("deny", {j \in Jobs : held[j] = "old"})) /\
            held' = [j \in Jobs |-> IF held[j] = "old" THEN "no" ELSE held[j]]
    /\ UNCHANGED <<status, late, remote, trusted, runs, failures, cut>>

\* PendingJobs answers with what is pending, or the check-in fails.
CheckIn ==
    /\ act[Loop].mode = "asking"
    /\ \/ Set(Loop, Doing("receive", {j \in Jobs : status[j] = "pending"}))
       \/ Set(Loop, Doing("receive", {}))
    /\ UNCHANGED <<status, late, remote, held, trusted, runs, failures, cut>>

\* settle: run the request and send its answer.
Run(a, j) ==
    /\ runs' = [runs EXCEPT ![j] = IF @ = 2 THEN 2 ELSE @ + 1]
    /\ Reporting(a, j, "done")

\* Mutant: a health check waits for the owner too.
ReceiveUnsorted(j) ==
    /\ act[Loop].mode = "receive" /\ act[Loop].report = None /\ j \in act[Loop].todo
    /\ IF trusted
       THEN Run(Loop, j) /\ UNCHANGED held
       ELSE /\ held' = [held EXCEPT ![j] = "new"]
            /\ Reporting(Loop, j, "awaiting")
            /\ UNCHANGED runs
    /\ UNCHANGED <<status, late, remote, trusted, failures, cut>>

\* runRemoteJobs and Receive: run a health check, or anything while the owner
\* allows it; hold the rest.
Receive(j) ==
    /\ act[Loop].mode = "receive" /\ act[Loop].report = None /\ j \in act[Loop].todo
    /\ IF j \in HealthChecks \/ trusted
       THEN Run(Loop, j) /\ UNCHANGED held
       ELSE /\ held' = [held EXCEPT ![j] = "new"]
            /\ Reporting(Loop, j, "awaiting")
            /\ UNCHANGED runs
    /\ UNCHANGED <<status, late, remote, trusted, failures, cut>>

\* Expire, after the jobs of a check-in: decline what waited too long.
Expire ==
    /\ act[Loop].mode = "receive" /\ act[Loop].report = None /\ act[Loop].todo = {}
    /\ Set(Loop, Doing("deny", {j \in Jobs : held[j] = "old"}))
    /\ held' = [j \in Jobs |-> IF held[j] = "old" THEN "no" ELSE held[j]]
    /\ UNCHANGED <<status, late, remote, trusted, runs, failures, cut>>

-----------------------------------------------------------------------------
(* The owner's page.                                                       *)

\* Mutant: Allow runs the request without taking it off the queue.
AllowUntaken(p, j) ==
    /\ act[p] = Idle /\ j \in Held
    /\ Set(p, Doing("allow", {j}))
    /\ UNCHANGED <<status, late, remote, held, trusted, runs, failures, cut>>

\* Allow and Deny take a held request off the queue, so one of them gets it.
Allow(p, j) ==
    /\ act[p] = Idle /\ j \in Held
    /\ held' = [held EXCEPT ![j] = "no"]
    /\ Set(p, Doing("allow", {j}))
    /\ UNCHANGED <<status, late, remote, trusted, runs, failures, cut>>

Deny(p, j) ==
    /\ act[p] = Idle /\ j \in Held
    /\ held' = [held EXCEPT ![j] = "no"]
    /\ Set(p, Doing("deny", {j}))
    /\ UNCHANGED <<status, late, remote, trusted, runs, failures, cut>>

\* Mutant: an allow window that leaves what is waiting where it is.
TrustFromNowOn(p) ==
    /\ act[p] = Idle
    /\ trusted' = TRUE
    /\ UNCHANGED <<status, late, remote, held, act, runs, failures, cut>>

\* Trust: open an allow window, and run all that is waiting.
Trust(p) ==
    /\ act[p] = Idle
    /\ trusted' = TRUE
    /\ held' = [j \in Jobs |-> "no"]
    /\ Set(p, Doing("allow", Held))
    /\ UNCHANGED <<status, late, remote, runs, failures, cut>>

\* Untrust, or the window's time is over.
Untrust ==
    /\ trusted
    /\ trusted' = FALSE
    /\ UNCHANGED <<status, late, remote, held, act, runs, failures, cut>>

\* The page's switch, which ends an allow window too, and `clawdh remote on|off`.
RemoteSwitch ==
    /\ remote' = ~remote
    /\ trusted' = (trusted /\ remote')
    /\ UNCHANGED <<status, late, held, act, runs, failures, cut>>

RemoteCommand ==
    /\ remote' = ~remote
    /\ UNCHANGED <<status, late, held, trusted, act, runs, failures, cut>>

\* The next of the requests that Allow, Trust, Deny or Expire took.
Settle(a, j) ==
    /\ act[a].mode \in {"allow", "deny"} /\ act[a].report = None /\ j \in act[a].todo
    /\ IF act[a].mode = "allow"
       THEN Run(a, j)
       ELSE Reporting(a, j, "denied") /\ UNCHANGED runs
    /\ UNCHANGED <<status, late, remote, held, trusted, failures, cut>>

\* Everything is settled: the handler returns, or the loop sleeps.
Done(a) ==
    /\ act[a].mode \in {"allow", "deny"} /\ act[a].report = None /\ act[a].todo = {}
    /\ Set(a, Idle)
    /\ UNCHANGED <<status, late, remote, held, trusted, runs, failures, cut>>

-----------------------------------------------------------------------------
(* Reports, and what becomes of them.                                      *)

\* ReportResult is answered.
Reported(a) ==
    /\ act[a].report # None
    /\ CompleteJob(act[a].report)
    /\ Set(a, [act[a] EXCEPT !.report = None])
    /\ UNCHANGED <<late, remote, held, trusted, runs, failures, cut>>

Failing == failures < MaxFailures /\ failures' = failures + 1

\* It fails, times out, or its page was closed: what was sent may still arrive.
ReportFails(a) ==
    /\ Failing
    /\ act[a].report # None
    /\ \/ late' = late \cup {act[a].report}
       \/ UNCHANGED late
    /\ cut' = cut \cup {act[a].report.job}
    /\ Set(a, [act[a] EXCEPT !.report = None])
    /\ UNCHANGED <<status, remote, held, trusted, runs>>

ArrivesLate(r) ==
    /\ CompleteJob(r)
    /\ late' = late \ {r}
    /\ UNCHANGED <<remote, held, trusted, act, runs, failures, cut>>

\* Nobody decides for MaxPendingAge.
Age(j) ==
    /\ held[j] = "new"
    /\ held' = [held EXCEPT ![j] = "old"]
    /\ UNCHANGED <<status, late, remote, trusted, act, runs, failures, cut>>

\* The service restarts with the queue it saved, and nothing it had taken off it.
Restart ==
    /\ Failing
    /\ LET sent  == {act[a].report : a \in Actors} \ {None}
           taken == UNION {act[a].todo : a \in {x \in Actors : act[x].mode # "receive"}}
       IN /\ late' \in {late, late \cup sent}
          /\ cut' = cut \cup {r.job : r \in sent} \cup taken
    /\ act' = [a \in Actors |-> Idle]
    /\ UNCHANGED <<status, remote, held, trusted, runs>>

-----------------------------------------------------------------------------
Init ==
    /\ status = [j \in Jobs |-> "none"]
    /\ late = {} /\ remote = TRUE /\ trusted = FALSE
    /\ held = [j \in Jobs |-> "no"]
    /\ act = [a \in Actors |-> Idle]
    /\ failures = 0
    /\ runs = [j \in Jobs |-> 0]
    /\ cut = {}

LoopStep == StartCheckIn \/ CheckIn \/ Expire \/ \E j \in Jobs : Receive(j)
Step(a)  == \/ \E j \in Jobs : Settle(a, j)
            \/ Done(a) \/ Reported(a) \/ ReportFails(a)

Next ==
    \/ LoopStep \/ \E a \in Actors : Step(a)
    \/ \E j \in Jobs : Enqueue(j) \/ Age(j)
    \/ \E p \in Pages, j \in Jobs : Allow(p, j) \/ Deny(p, j)
    \/ \E p \in Pages : Trust(p)
    \/ Untrust \/ RemoteSwitch \/ RemoteCommand
    \/ \E r \in late : ArrivesLate(r)
    \/ Restart

Spec == Init /\ [][Next]_vars

\* Goroutines run, a report is answered or times out, and time passes.  Nothing
\* makes the owner decide, or the panel ask.
Fairness ==
    /\ WF_vars(LoopStep \/ Step(Loop))
    /\ \A p \in Pages : WF_vars(Step(p))
    /\ \A j \in Jobs : WF_vars(Age(j))

FairSpec == Spec /\ Fairness

-----------------------------------------------------------------------------
TypeOK ==
    /\ status \in [Jobs -> {"none", "pending", "awaiting"} \cup Final]
    /\ late \subseteq Reports
    /\ remote \in BOOLEAN /\ trusted \in BOOLEAN
    /\ held \in [Jobs -> {"no", "new", "old"}]
    /\ act \in [Actors -> [mode : {"idle", "asking", "receive", "allow", "deny"},
                           todo : SUBSET Jobs, report : Reports \cup {None}]]
    /\ \A j \in HealthChecks : held[j] = "no"
    /\ failures \in 0..MaxFailures
    /\ runs \in [Jobs -> 0..2]
    /\ cut \subseteq Jobs

\* The panel's answer to a request never changes, however late, often and in
\* whatever order reports of it arrive (CompleteJob's conditions on the status).
AnswerKept == [][\A j \in Jobs : status[j] \in Final => status'[j] = status[j]]_status

\* A request whose reports all arrived ran at most once, and not at all if the panel
\* says it was declined, though the owner may answer it from several pages while the
\* loop receives, expires and settles (take, and pending jobs leaving the list once
\* reported).
RunsOnce ==
    \A j \in Jobs :
        runs[j] > (IF status[j] = "denied" THEN 0 ELSE 1) => j \in cut

\* While the owner allows requests without asking, none is left waiting ("the
\* owner has just said yes to all of it").
TrustedHoldsNothing == trusted => Held = {}

\* A request the panel shows as waiting for approval is answered, by the owner or
\* for them after an hour, unless a report of it was lost (Expire).
HeldRequestIsAnswered ==
    \A j \in Jobs : status[j] = "awaiting" ~> status[j] \in Final \/ j \in cut

\* "so the panel isn't left \"waiting\" for ever" (MaxPendingAge).
NeverLeftWaiting == \A j \in Jobs : status[j] = "awaiting" ~> status[j] \in Final
=============================================================================
