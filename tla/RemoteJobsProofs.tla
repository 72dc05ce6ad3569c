-------------------------- MODULE RemoteJobsProofs --------------------------
(***************************************************************************)
(* Proofs about RemoteJobs, for any requests, pages and failures: the      *)
(* panel's answer to a request never changes, nothing waits while the      *)
(* owner allows everything, and a request whose reports all arrived ran at *)
(* most once.                                                              *)
(*                                                                         *)
(* A request is in one place at a time: listed by the panel and not yet    *)
(* seen, held, taken off the queue by one handler, being reported as       *)
(* answered by one, or settled (Apart).  The report that it is held is the *)
(* exception: the owner may answer the request while the loop still sends  *)
(* it, and the panel's status keeps the two apart.                         *)
(***************************************************************************)
EXTENDS RemoteJobs, TLAPS

Doings == [mode : {"idle", "asking", "receive", "allow", "deny"},
           todo : SUBSET Jobs, report : Reports \cup {None}]

Answers == {"awaiting"} \cup Final

\* a reports one of these answers to j.
Telling(a, j, answers) ==
    act[a].report # None /\ act[a].report.job = j /\ act[a].report.answer \in answers

\* a has taken j off the queue and not come to it yet.
Taken(a, j) == act[a].mode \in {"allow", "deny"} /\ j \in act[a].todo

\* The machine has not done anything about j.
Unseen(j) ==
    /\ held[j] = "no" /\ runs[j] = 0
    /\ \A a \in Actors : ~Taken(a, j) /\ ~Telling(a, j, Answers)

Unanswered(j) ==
    /\ runs[j] = 0 /\ status[j] \notin Final
    /\ \A a \in Actors : ~Telling(a, j, Final)

Apart(j) ==
    /\ status[j] = "none" => Unseen(j)
    /\ status[j] = "pending" /\ ~Telling(Loop, j, Answers) => Unseen(j)
    /\ act[Loop].mode = "receive" /\ j \in act[Loop].todo
         => status[j] = "pending" /\ Unseen(j)
    /\ held[j] # "no" => Unanswered(j) /\ \A a \in Actors : ~Taken(a, j)
    /\ \A a \in Actors : Taken(a, j) =>
         Unanswered(j) /\ \A b \in Actors : Taken(b, j) => a = b
    /\ \A a \in Actors : Telling(a, j, Final) =>
         /\ status[j] \notin Final
         /\ runs[j] = IF act[a].report.answer = "done" THEN 1 ELSE 0
         /\ \A b \in Actors : Telling(b, j, Final) => a = b
    /\ status[j] = "denied" => runs[j] = 0
    /\ runs[j] \in {0, 1}

\* What each goroutine may be doing.
Roles ==
    \A a \in Actors :
      /\ act[a].mode \in {"asking", "receive"} => a = Loop
      /\ act[a].mode \in {"idle", "asking"} => act[a].todo = {} /\ act[a].report = None
      /\ act[a].report # None /\ act[a].report.answer = "awaiting"
           => act[a].mode = "receive"

LateIsCut == \A r \in late : r.job \in cut

IInv == TypeOK /\ TrustedHoldsNothing /\ Roles /\ LateIsCut /\ \A j \in Jobs \ cut : Apart(j)

-----------------------------------------------------------------------------
LEMMA Constants ==
    /\ Loop \in Actors /\ HealthChecks \subseteq Jobs /\ MaxFailures \in Nat
    /\ None \notin Reports
    /\ Idle.mode = "idle" /\ Idle.todo = {} /\ Idle.report = None
    /\ Idle \in Doings
BY RemoteAssumption, NoneIsNoReport DEF Actors, Idle, Doings

LEMMA InitInv == Init => IInv
<1> SUFFICES ASSUME Init PROVE IInv
  OBVIOUS
<1>1. \A a \in Actors : act[a].mode = "idle" /\ act[a].todo = {} /\ act[a].report = None
  BY Constants DEF Init
<1>2. TypeOK
  <2>1. failures \in 0..MaxFailures /\ runs \in [Jobs -> 0..2]
    BY Constants DEF Init
  <2>2. act \in [Actors -> Doings]
    BY Constants DEF Init, Doings
  <2> QED BY <2>1, <2>2, Constants DEF Init, TypeOK, Doings
<1>3. TrustedHoldsNothing /\ Roles /\ LateIsCut
  BY <1>1 DEF Init, TrustedHoldsNothing, Roles, LateIsCut
<1>4. \A j \in Jobs : Apart(j)
  BY <1>1, Constants DEF Init, Apart, Unseen, Taken, Telling, Final
<1> QED BY <1>2, <1>3, <1>4 DEF IInv

-----------------------------------------------------------------------------
\* What an actor turns to when it reports an answer, and when the report is over.
Answering(a, j, what) ==
    [act[a] EXCEPT !.todo = @ \ {j}, !.report = [job |-> j, answer |-> what]]
Sent(a) == [act[a] EXCEPT !.report = None]

LEMMA AnsweringIs ==
    ASSUME TypeOK, NEW a \in Actors, NEW j \in Jobs, NEW what \in Answers
    PROVE  /\ Answering(a, j, what) \in Doings
           /\ Answering(a, j, what).mode = act[a].mode
           /\ Answering(a, j, what).todo = act[a].todo \ {j}
           /\ Answering(a, j, what).report = [job |-> j, answer |-> what]
           /\ Answering(a, j, what).report # None
<1>1. act \in [Actors -> Doings]
  BY DEF TypeOK, Doings
<1>2. [job |-> j, answer |-> what] \in Reports
  BY DEF Reports, Answers, Final
<1>3. \A r \in Reports :
        LET d == [act[a] EXCEPT !.todo = @ \ {j}, !.report = r]
        IN  /\ d \in Doings /\ d.mode = act[a].mode /\ d.todo = act[a].todo \ {j}
            /\ d.report = r /\ d.report # None
  BY <1>1, Constants DEF Doings
<1> QED BY <1>2, <1>3 DEF Answering

LEMMA SentIs ==
    ASSUME TypeOK, NEW a \in Actors
    PROVE  /\ Sent(a) \in Doings /\ Sent(a).mode = act[a].mode
           /\ Sent(a).todo = act[a].todo /\ Sent(a).report = None
<1>1. act \in [Actors -> Doings]
  BY DEF TypeOK, Doings
<1> QED BY <1>1 DEF Doings, Sent

\* A step that leaves the machine's handling of j as it was.
LEMMA Unmoved ==
    ASSUME NEW j \in Jobs, Apart(j), UNCHANGED act,
           status'[j] = status[j], runs'[j] = runs[j], held'[j] # "no" <=> held[j] # "no"
    PROVE  Apart(j)'
BY DEF Apart, Unseen, Unanswered, Taken, Telling

\* A report, if it is one, of another request than k.
Off(report, k) == report = None \/ report.job # k

\* A step about another request than k.
LEMMA Elsewhere ==
    ASSUME NEW k \in Jobs, Apart(k),
           status'[k] = status[k], runs'[k] = runs[k], held'[k] = held[k],
           \A b \in Actors :
               /\ act'[b].mode = act[b].mode
               /\ k \in act'[b].todo <=> k \in act[b].todo
               /\ \/ act'[b].report = act[b].report
                  \/ Off(act[b].report, k) /\ Off(act'[b].report, k)
    PROVE  Apart(k)'
<1>1. \A b \in Actors : Taken(b, k)' <=> Taken(b, k)
  BY DEF Taken
<1>2. \A b \in Actors : /\ Telling(b, k, Answers)' <=> Telling(b, k, Answers)
                        /\ Telling(b, k, Final)' <=> Telling(b, k, Final)
                        /\ Telling(b, k, Final) => act'[b].report = act[b].report
  BY DEF Telling, Off
<1>3. (Unseen(k)' <=> Unseen(k)) /\ (Unanswered(k)' <=> Unanswered(k))
  BY <1>1, <1>2 DEF Unseen, Unanswered
<1> QED BY <1>1, <1>2, <1>3, Constants DEF Apart

-----------------------------------------------------------------------------
\* The panel lists a request; the owner changes what the machine allows; time passes.
LEMMA OutsideStep ==
    ASSUME IInv,
           \/ \E j \in Jobs : Enqueue(j) \/ Age(j)
           \/ Untrust \/ RemoteSwitch \/ RemoteCommand
    PROVE  IInv'
<1>1. UNCHANGED <<act, late, runs, failures, cut>>
  BY DEF Enqueue, Age, Untrust, RemoteSwitch, RemoteCommand
<1>2. TypeOK'
  <2>1. CASE \E j \in Jobs : Enqueue(j) \/ Age(j)
    <3>1. PICK j \in Jobs : Enqueue(j) \/ Age(j)
      BY <2>1
    <3>2. CASE Enqueue(j)
      <4>1. status' \in [Jobs -> {"none", "pending", "awaiting"} \cup Final]
        BY <3>2 DEF IInv, TypeOK, Enqueue
      <4> QED BY <3>2, <4>1 DEF IInv, TypeOK, Enqueue
    <3>3. CASE Age(j)
      <4>1. held' \in [Jobs -> {"no", "new", "old"}]
            /\ \A k \in HealthChecks : held'[k] = "no"
        BY <3>3, Constants DEF IInv, TypeOK, Age
      <4> QED BY <3>3, <4>1 DEF IInv, TypeOK, Age
    <3> QED BY <3>1, <3>2, <3>3
  <2>2. CASE Untrust \/ RemoteSwitch \/ RemoteCommand
    <3>1. trusted' \in BOOLEAN /\ remote' \in BOOLEAN
      BY <2>2, Zenon DEF IInv, TypeOK, Untrust, RemoteSwitch, RemoteCommand
    <3> QED BY <2>2, <3>1 DEF IInv, TypeOK, Untrust, RemoteSwitch, RemoteCommand
  <2> QED BY <2>1, <2>2
<1>3. TrustedHoldsNothing'
  BY DEF IInv, TypeOK, TrustedHoldsNothing, Held, Enqueue, Age, Untrust, RemoteSwitch,
         RemoteCommand
<1>4. Roles' /\ LateIsCut'
  BY <1>1 DEF IInv, Roles, LateIsCut
<1>5. ASSUME NEW j \in Jobs \ cut PROVE Apart(j)'
  <2>1. held'[j] # "no" <=> held[j] # "no"
    BY DEF IInv, TypeOK, Enqueue, Age, Untrust, RemoteSwitch, RemoteCommand
  <2>2. CASE status'[j] = status[j]
    BY <1>1, <2>1, <2>2, Unmoved DEF IInv
  <2>3. CASE status[j] = "none" /\ status'[j] = "pending"
    <3>1. Apart(j) /\ Unseen(j) /\ Unanswered(j)
      BY <2>3 DEF IInv, Apart, Unseen, Unanswered, Telling, Final, Answers
    <3>2. \A a \in Actors : (Taken(a, j)' <=> Taken(a, j))
            /\ (Telling(a, j, Answers)' <=> Telling(a, j, Answers))
            /\ (Telling(a, j, Final)' <=> Telling(a, j, Final))
      BY <1>1 DEF Taken, Telling
    <3>3. Unseen(j)' /\ Unanswered(j)'
      BY <1>1, <2>1, <2>3, <3>1, <3>2 DEF IInv, TypeOK, Unseen, Unanswered, Final
    <3> QED BY <1>1, <2>3, <3>1, <3>2, <3>3 DEF Apart, Unseen, Unanswered, Final
  <2> QED BY <2>2, <2>3
          DEF IInv, TypeOK, Enqueue, Age, Untrust, RemoteSwitch, RemoteCommand
<1> QED BY <1>1, <1>2, <1>3, <1>4, <1>5 DEF IInv

-----------------------------------------------------------------------------
\* The loop asks the panel, and learns what is pending.
LEMMA AskStep == ASSUME IInv, CheckIn PROVE IInv'
<1>1. /\ UNCHANGED <<status, late, remote, held, trusted, runs, failures, cut>>
      /\ act[Loop].mode = "asking"
  BY DEF CheckIn
<1>2. PICK jobs \in {{}, {j \in Jobs : status[j] = "pending"}} :
        act' = [act EXCEPT ![Loop] = Doing("receive", jobs)]
  BY DEF CheckIn, Set
<1>3. /\ act'[Loop] \in Doings /\ act'[Loop].mode = "receive" /\ act'[Loop].todo = jobs
      /\ act'[Loop].report = None /\ act[Loop].report = None
      /\ \A a \in Actors : a # Loop => act'[a] = act[a]
      /\ act' \in [Actors -> Doings]
  <2>1. Doing("receive", jobs) = [mode |-> "receive", todo |-> jobs, report |-> None]
        /\ Doing("receive", jobs) \in Doings
    BY DEF Doing, Doings
  <2> QED BY <1>1, <1>2, <2>1, Constants DEF IInv, TypeOK, Doings, Roles
<1>4. TypeOK'
  BY <1>1, <1>3 DEF IInv, TypeOK, Doings
<1>5. TrustedHoldsNothing' /\ Roles' /\ LateIsCut'
  BY <1>1, <1>3 DEF IInv, TrustedHoldsNothing, Held, Roles, LateIsCut
<1>6. ASSUME NEW j \in Jobs \ cut PROVE Apart(j)'
  <2>1. Apart(j) /\ ~Telling(Loop, j, Answers)
    BY <1>3 DEF IInv, Telling
  <2>2. \A b \in Actors : /\ Taken(b, j)' <=> Taken(b, j)
                          /\ Telling(b, j, Answers)' <=> Telling(b, j, Answers)
                          /\ Telling(b, j, Final)' <=> Telling(b, j, Final)
                          /\ act'[b].report = act[b].report
    BY <1>1, <1>3 DEF Taken, Telling
  <2>3. (Unseen(j)' <=> Unseen(j)) /\ (Unanswered(j)' <=> Unanswered(j))
    BY <1>1, <2>2 DEF Unseen, Unanswered
  <2>4. j \in act'[Loop].todo => status[j] = "pending" /\ Unseen(j)
    BY <1>2, <1>3, <2>1 DEF Apart
  <2> QED BY <1>1, <2>1, <2>2, <2>3, <2>4, Constants DEF Apart
<1> QED BY <1>1, <1>4, <1>5, <1>6 DEF IInv

\* Requests are taken off the queue: what is too old by the loop, and what the owner
\* decides on by a page.
LEMMA TakeStep ==
    ASSUME IInv, NEW a \in Actors, NEW jobs \in SUBSET Held, NEW mode \in {"allow", "deny"},
           \/ act[a].mode = "idle"
           \/ act[a].mode = "receive" /\ act[a].report = None /\ act[a].todo = {},
           act' = [act EXCEPT ![a] = Doing(mode, jobs)],
           held' = [j \in Jobs |-> IF j \in jobs THEN "no" ELSE held[j]],
           trusted' \in BOOLEAN, trusted' => trusted \/ jobs = Held,
           UNCHANGED <<status, late, remote, runs, failures, cut>>
    PROVE  IInv'
<1>1. /\ act'[a] \in Doings /\ act'[a].mode = mode /\ act'[a].todo = jobs
      /\ act'[a].report = None /\ act[a].report = None /\ act[a].todo = {}
      /\ \A b \in Actors : b # a => act'[b] = act[b]
      /\ act' \in [Actors -> Doings]
  <2>1. Doing(mode, jobs) = [mode |-> mode, todo |-> jobs, report |-> None]
        /\ Doing(mode, jobs) \in Doings
    BY DEF Doing, Doings, Held
  <2> QED BY <2>1, Constants DEF IInv, TypeOK, Doings, Roles
<1>2. TypeOK'
  <2>1. held' \in [Jobs -> {"no", "new", "old"}] /\ \A j \in HealthChecks : held'[j] = "no"
    BY Constants DEF IInv, TypeOK
  <2> QED BY <1>1, <2>1 DEF IInv, TypeOK, Doings
<1>3. TrustedHoldsNothing'
  BY DEF IInv, TrustedHoldsNothing, Held
<1>4. Roles' /\ LateIsCut'
  BY <1>1 DEF IInv, Roles, LateIsCut
<1>5. ASSUME NEW j \in Jobs \ cut PROVE Apart(j)'
  <2>1. \A b \in Actors : /\ Telling(b, j, Answers)' <=> Telling(b, j, Answers)
                          /\ Telling(b, j, Final)' <=> Telling(b, j, Final)
                          /\ act'[b].report = act[b].report
    BY <1>1 DEF Telling
  <2>2. Apart(j) /\ (Unanswered(j)' <=> Unanswered(j))
    BY <2>1 DEF IInv, Unanswered
  <2>3. act'[Loop].mode = "receive" /\ j \in act'[Loop].todo
          => act[Loop].mode = "receive" /\ j \in act[Loop].todo
    BY <1>1, Constants
  <2>4. CASE j \in jobs
    <3>1. held[j] # "no" /\ held'[j] = "no"
      BY <2>4 DEF Held
    <3>2. ~Unseen(j) /\ Unanswered(j) /\ \A b \in Actors : ~Taken(b, j)
      BY <2>2, <3>1 DEF Apart, Unseen
    <3>3. \A b \in Actors : Taken(b, j)' => b = a
      BY <1>1, <3>2 DEF Taken
    <3> QED BY <2>1, <2>2, <2>3, <3>1, <3>2, <3>3, Constants DEF Apart
  <2>5. CASE j \notin jobs
    <3>1. held'[j] = held[j] /\ \A b \in Actors : Taken(b, j)' <=> Taken(b, j)
      BY <1>1, <2>5 DEF Taken
    <3>2. Unseen(j)' <=> Unseen(j)
      BY <2>1, <3>1 DEF Unseen
    <3> QED BY <2>1, <2>2, <2>3, <3>1, <3>2, Constants DEF Apart
  <2> QED BY <2>4, <2>5
<1> QED BY <1>2, <1>3, <1>4, <1>5 DEF IInv

\* A request comes to be answered: an actor runs or declines it, or the loop holds it.
LEMMA AnswerStep ==
    ASSUME IInv, NEW a \in Actors, NEW j \in Jobs, act[a].report = None, j \in act[a].todo,
           \/ act[a].mode = "receive" /\ Run(a, j) /\ UNCHANGED held
           \/ act[a].mode = "allow" /\ Run(a, j) /\ UNCHANGED held
           \/ act[a].mode = "deny" /\ Reporting(a, j, "denied") /\ UNCHANGED <<runs, held>>
           \/ /\ act[a].mode = "receive" /\ Reporting(a, j, "awaiting") /\ UNCHANGED runs
              /\ held' = [held EXCEPT ![j] = "new"] /\ ~trusted /\ j \notin HealthChecks,
           UNCHANGED <<status, late, remote, trusted, failures, cut>>
    PROVE  IInv'
<1>1. PICK what \in Answers :
        /\ Reporting(a, j, what)
        /\ what = "awaiting" => act[a].mode = "receive"
        /\ what = "awaiting" => held' = [held EXCEPT ![j] = "new"]
                                /\ ~trusted /\ j \notin HealthChecks
        /\ what # "awaiting" => held' = held
        /\ what # "done" => runs' = runs
        /\ what = "done" => runs' = [runs EXCEPT ![j] = IF @ = 2 THEN 2 ELSE @ + 1]
        /\ what = "denied" => act[a].mode = "deny"
        /\ what = "done" => act[a].mode # "deny"
  BY DEF Run, Answers, Final
<1>2. /\ act'[a] \in Doings /\ act'[a].mode = act[a].mode
      /\ act'[a].todo = act[a].todo \ {j}
      /\ act'[a].report # None /\ act'[a].report.job = j /\ act'[a].report.answer = what
      /\ \A b \in Actors : b # a => act'[b] = act[b]
      /\ act' \in [Actors -> Doings]
  <2>1. act \in [Actors -> Doings]
    BY DEF IInv, TypeOK, Doings
  <2>2. act' = [act EXCEPT ![a] = Answering(a, j, what)]
    BY <1>1 DEF Reporting, Set, Answering
  <2>3. /\ Answering(a, j, what) \in Doings /\ Answering(a, j, what).mode = act[a].mode
        /\ Answering(a, j, what).todo = act[a].todo \ {j}
        /\ Answering(a, j, what).report = [job |-> j, answer |-> what]
        /\ Answering(a, j, what).report # None
    BY AnsweringIs DEF IInv
  <2> QED BY <2>1, <2>2, <2>3
<1>3. TypeOK'
  <2>1. runs' \in [Jobs -> 0..2]
    BY <1>1 DEF IInv, TypeOK
  <2>2. held' \in [Jobs -> {"no", "new", "old"}] /\ \A k \in HealthChecks : held'[k] = "no"
    BY <1>1, Constants DEF IInv, TypeOK
  <2> QED BY <1>2, <2>1, <2>2 DEF IInv, TypeOK, Doings
<1>4. TrustedHoldsNothing'
  BY <1>1 DEF IInv, TrustedHoldsNothing, Held
<1>5. Roles' /\ LateIsCut'
  BY <1>1, <1>2 DEF IInv, Roles, LateIsCut, Answers, Final
<1>6. ASSUME NEW k \in Jobs \ cut PROVE Apart(k)'
  <2>1. CASE k = j
    <3>1. Apart(j) /\ j \notin act'[a].todo /\ Telling(a, j, Answers)'
      BY <1>2, <2>1 DEF IInv, Telling
    <3>2. what = "done" /\ runs[j] = 0 => runs'[j] = 1
      BY <1>1 DEF IInv, TypeOK
    <3>3. what = "awaiting" => held'[j] = "new"
      BY <1>1 DEF IInv, TypeOK
    <3>4. CASE act[a].mode = "receive"
      <4>1. a = Loop /\ status[j] = "pending" /\ Unseen(j) /\ what \in {"done", "awaiting"}
        BY <1>1, <3>1, <3>4 DEF IInv, Roles, Apart, Answers, Final
      <4>2. CASE what = "done"
        BY <1>1, <1>2, <2>1, <3>1, <3>2, <4>1, <4>2
           DEF Apart, Unseen, Unanswered, Taken, Telling, Final, Answers
      <4>3. CASE what = "awaiting"
        BY <1>1, <1>2, <2>1, <3>1, <3>3, <3>4, <4>1, <4>3
           DEF Apart, Unseen, Unanswered, Taken, Telling, Final, Answers
      <4> QED BY <4>1, <4>2, <4>3
    <3>5. CASE act[a].mode \in {"allow", "deny"}
      <4>1. /\ Taken(a, j) /\ Unanswered(j) /\ held[j] = "no"
            /\ \A b \in Actors : Taken(b, j) => a = b
            /\ ~Unseen(j) /\ what \in Final
        BY <1>1, <3>1, <3>5 DEF Apart, Unseen, Taken, Answers, Final
      <4>2. runs'[j] = IF what = "done" THEN 1 ELSE 0
        BY <1>1, <3>2, <4>1 DEF Unanswered, Final
      <4>3. status'[j] = status[j] /\ held'[j] = "no"
        BY <1>1, <4>1 DEF Final
      <4>4. \A b \in Actors : ~Taken(b, j)'
        BY <1>2, <4>1 DEF Taken
      <4>5. \A b \in Actors : Telling(b, j, Final)' => a = b
        BY <1>2, <4>1 DEF Unanswered, Telling
      <4>6. Telling(Loop, j, Answers)' \/ status[j] # "pending"
        BY <1>2, <3>1, <4>1, Constants DEF Apart, Telling
      <4>7. ~(act'[Loop].mode = "receive" /\ j \in act'[Loop].todo) /\ status[j] # "none"
        BY <1>2, <3>1, <3>5, <4>1, Constants DEF Apart
      <4>8. status[j] \notin Final /\ runs'[j] \in {0, 1} /\ act'[a].report.answer = what
        BY <1>2, <4>1, <4>2 DEF Unanswered
      <4> QED BY <2>1, <4>2, <4>3, <4>4, <4>5, <4>6, <4>7, <4>8 DEF Apart, Final
    <3> QED BY <3>4, <3>5
  <2>2. CASE k # j
    <3>1. status'[k] = status[k] /\ runs'[k] = runs[k] /\ held'[k] = held[k]
      BY <1>1, <2>2 DEF IInv, TypeOK
    <3>2. \A b \in Actors : act'[b].mode = act[b].mode /\ (k \in act'[b].todo <=> k \in act[b].todo)
      BY <1>2, <2>2
    <3>3. \A b \in Actors : \/ act'[b].report = act[b].report
                            \/ Off(act[b].report, k) /\ Off(act'[b].report, k)
      BY <1>2, <2>2 DEF Off
    <3> QED BY <3>1, <3>2, <3>3, Elsewhere DEF IInv
  <2> QED BY <2>1, <2>2
<1> QED BY <1>3, <1>4, <1>5, <1>6 DEF IInv

\* The handler returns, or the loop sleeps.
LEMMA DoneStep == ASSUME IInv, NEW a \in Actors, Done(a) PROVE IInv'
<1>1. /\ UNCHANGED <<status, late, remote, held, trusted, runs, failures, cut>>
      /\ act[a].mode \in {"allow", "deny"} /\ act[a].report = None /\ act[a].todo = {}
      /\ act' = [act EXCEPT ![a] = Idle]
  BY DEF Done, Set
<1>2. /\ act'[a].mode = "idle" /\ act'[a].todo = {} /\ act'[a].report = None
      /\ \A b \in Actors : b # a => act'[b] = act[b]
      /\ act' \in [Actors -> Doings]
  BY <1>1, Constants DEF IInv, TypeOK, Doings
<1>3. TypeOK' /\ TrustedHoldsNothing' /\ Roles' /\ LateIsCut'
  BY <1>1, <1>2 DEF IInv, TypeOK, Doings, TrustedHoldsNothing, Held, Roles, LateIsCut
<1>4. ASSUME NEW j \in Jobs \ cut PROVE Apart(j)'
  <2>1. Apart(j)
    BY DEF IInv
  <2>2. \A b \in Actors : /\ Taken(b, j)' <=> Taken(b, j)
                          /\ Telling(b, j, Answers)' <=> Telling(b, j, Answers)
                          /\ Telling(b, j, Final)' <=> Telling(b, j, Final)
                          /\ act'[b].report = act[b].report
    BY <1>1, <1>2 DEF Taken, Telling
  <2>3. (Unseen(j)' <=> Unseen(j)) /\ (Unanswered(j)' <=> Unanswered(j))
    BY <1>1, <2>2 DEF Unseen, Unanswered
  <2>4. act'[Loop].mode = "receive" /\ j \in act'[Loop].todo
          => act[Loop].mode = "receive" /\ j \in act[Loop].todo
    BY <1>1, <1>2, Constants
  <2> QED BY <1>1, <2>1, <2>2, <2>3, <2>4, Constants DEF Apart
<1> QED BY <1>1, <1>3, <1>4 DEF IInv

-----------------------------------------------------------------------------
\* What a report does to the panel's status.
LEMMA Completed ==
    ASSUME TypeOK, NEW r \in Reports, CompleteJob(r)
    PROVE  /\ status' \in [Jobs -> {"none", "pending", "awaiting"} \cup Final]
           /\ \A j \in Jobs : j # r.job => status'[j] = status[j]
           /\ status[r.job] \in Final \cup {"none"} => status'[r.job] = status[r.job]
           /\ r.answer = "awaiting" /\ status[r.job] = "pending"
                => status'[r.job] = "awaiting"
           /\ r.answer = "awaiting" /\ status[r.job] # "pending"
                => status'[r.job] = status[r.job]
           /\ r.answer # "awaiting" /\ status[r.job] \in {"pending", "awaiting"}
                => status'[r.job] = r.answer
BY DEF TypeOK, CompleteJob, Reports, Final

\* A report is answered.
LEMMA ReportedStep == ASSUME IInv, NEW a \in Actors, Reported(a) PROVE IInv'
<1>1. /\ UNCHANGED <<late, remote, held, trusted, runs, failures, cut>>
      /\ act[a].report # None /\ CompleteJob(act[a].report)
      /\ act' = [act EXCEPT ![a] = Sent(a)]
  BY DEF Reported, Set, Sent
<1>2. act[a].report \in Reports /\ act[a].report.job \in Jobs /\ act[a].report.answer \in Answers
  BY <1>1 DEF IInv, TypeOK, Reports, Answers, Final
<1>3. /\ act'[a].mode = act[a].mode /\ act'[a].todo = act[a].todo /\ act'[a].report = None
      /\ \A b \in Actors : b # a => act'[b] = act[b]
      /\ act' \in [Actors -> Doings]
  <2>1. act \in [Actors -> Doings]
    BY DEF IInv, TypeOK, Doings
  <2> QED BY <1>1, <2>1, SentIs DEF IInv
<1>4. TypeOK'
  BY <1>1, <1>2, <1>3, Completed DEF IInv, TypeOK, Doings
<1>5. TrustedHoldsNothing' /\ Roles' /\ LateIsCut'
  BY <1>1, <1>3 DEF IInv, TrustedHoldsNothing, Held, Roles, LateIsCut
<1>6. ASSUME NEW j \in Jobs \ cut PROVE Apart(j)'
  <2>1. CASE j # act[a].report.job
    <3>1. status'[j] = status[j]
      BY <1>1, <1>2, <2>1, Completed DEF IInv
    <3>2. \A b \in Actors : \/ act'[b].report = act[b].report
                            \/ Off(act[b].report, j) /\ Off(act'[b].report, j)
      BY <1>3, <2>1 DEF Off
    <3>3. \A b \in Actors : act'[b].mode = act[b].mode /\ act'[b].todo = act[b].todo
      BY <1>3
    <3> QED BY <1>1, <3>1, <3>2, <3>3, Elsewhere DEF IInv
  <2>2. CASE j = act[a].report.job
    <3> DEFINE what == act[a].report.answer
    <3>1. /\ status[j] \in Final \cup {"none"} => status'[j] = status[j]
          /\ what = "awaiting" /\ status[j] = "pending" => status'[j] = "awaiting"
          /\ what = "awaiting" /\ status[j] # "pending" => status'[j] = status[j]
          /\ what # "awaiting" /\ status[j] \in {"pending", "awaiting"} => status'[j] = what
      BY <1>1, <1>2, <2>2, Completed DEF IInv
    <3>2. CASE what = "awaiting"
      <4>1. a = Loop /\ act[a].mode = "receive"
        BY <1>1, <3>2 DEF IInv, Roles
      <4>2. Apart(j) /\ Telling(Loop, j, Answers)
        BY <1>1, <1>2, <2>2, <4>1 DEF IInv, Telling
      <4>3. /\ status'[j] \notin {"none", "pending"} /\ status'[j] \in {"awaiting", status[j]}
            /\ ~(act[Loop].mode = "receive" /\ j \in act[Loop].todo)
        BY <3>1, <3>2, <4>2, Constants DEF Apart, Unseen
      <4>4. \A b \in Actors :
              /\ Taken(b, j)' <=> Taken(b, j)
              /\ Telling(b, j, Final)' => Telling(b, j, Final) /\ act'[b] = act[b]
        BY <1>3 DEF Taken, Telling
      <4>5. Unanswered(j) => Unanswered(j)'
        BY <1>1, <4>3, <4>4 DEF Unanswered, Final
      <4> QED BY <1>1, <1>3, <4>2, <4>3, <4>4, <4>5, Constants DEF Apart, Final
    <3>3. CASE what \in Final
      <4>1. Telling(a, j, Final)
        BY <1>1, <2>2, <3>3 DEF Telling
      <4>2. status[j] \in {"pending", "awaiting"}
        BY <1>1, <1>2, <2>2, <4>1
           DEF IInv, TypeOK, Apart, Unseen, Telling, Final, Answers
      <4>3. status'[j] = what
        BY <3>1, <3>3, <4>2 DEF Final
      <4>4. \A b \in Actors : ~Telling(b, j, Final)' /\ ~Taken(b, j)'
        <5>1. \A b \in Actors : ~Taken(b, j)
          BY <4>1, <4>2 DEF IInv, Apart, Unseen, Unanswered
        <5>2. \A b \in Actors : Telling(b, j, Final) => a = b
          BY <4>1 DEF IInv, Apart
        <5> QED BY <1>3, <5>1, <5>2 DEF Telling, Taken
      <4>5. held[j] = "no" /\ (what = "denied" => runs[j] = 0) /\ runs[j] \in {0, 1}
        BY <3>3, <4>1, <2>2, <1>2 DEF IInv, TypeOK, Apart, Unanswered
      <4>6. ~(act'[Loop].mode = "receive" /\ j \in act'[Loop].todo)
        BY <1>1, <1>2, <1>3, <2>2, <4>1, Constants
           DEF IInv, Apart, Unseen, Telling, Answers
      <4> QED BY <1>1, <4>3, <3>3, <4>4, <4>5, <4>6 DEF Apart, Final
    <3> QED BY <1>2, <3>2, <3>3 DEF Answers
  <2> QED BY <2>1, <2>2
<1> QED BY <1>1, <1>4, <1>5, <1>6 DEF IInv

\* A report fails; what was sent may still arrive.
LEMMA ReportFailsStep == ASSUME IInv, NEW a \in Actors, ReportFails(a) PROVE IInv'
<1>1. /\ UNCHANGED <<status, remote, held, trusted, runs>>
      /\ act[a].report # None /\ act' = [act EXCEPT ![a] = Sent(a)]
      /\ late' = late \/ late' = late \cup {act[a].report}
      /\ cut' = cut \cup {act[a].report.job}
      /\ failures < MaxFailures /\ failures' = failures + 1
  BY DEF ReportFails, Failing, Set, Sent
<1>2. act[a].report \in Reports /\ act[a].report.job \in Jobs
  BY <1>1 DEF IInv, TypeOK, Reports
<1>3. /\ act'[a].mode = act[a].mode /\ act'[a].todo = act[a].todo /\ act'[a].report = None
      /\ \A b \in Actors : b # a => act'[b] = act[b]
      /\ act' \in [Actors -> Doings]
  <2>1. act \in [Actors -> Doings]
    BY DEF IInv, TypeOK, Doings
  <2> QED BY <1>1, <2>1, SentIs DEF IInv
<1>4. TypeOK'
  <2>1. failures' \in 0..MaxFailures
    BY <1>1, Constants DEF IInv, TypeOK
  <2> QED BY <1>1, <1>2, <1>3, <2>1 DEF IInv, TypeOK, Doings
<1>5. TrustedHoldsNothing' /\ Roles' /\ LateIsCut'
  BY <1>1, <1>3 DEF IInv, TrustedHoldsNothing, Held, Roles, LateIsCut
<1>6. ASSUME NEW j \in Jobs \ cut' PROVE Apart(j)'
  <2>1. Apart(j) /\ j # act[a].report.job
    BY <1>1, <1>6 DEF IInv
  <2>2. \A b \in Actors : act'[b].mode = act[b].mode /\ act'[b].todo = act[b].todo
    BY <1>3
  <2>3. \A b \in Actors : \/ act'[b].report = act[b].report
                          \/ Off(act[b].report, j) /\ Off(act'[b].report, j)
    BY <1>3, <2>1 DEF Off
  <2> QED BY <1>1, <2>1, <2>2, <2>3, Elsewhere
<1> QED BY <1>4, <1>5, <1>6 DEF IInv

LEMMA ArrivesLateStep == ASSUME IInv, NEW r \in late, ArrivesLate(r) PROVE IInv'
<1>1. /\ UNCHANGED <<remote, held, trusted, act, runs, failures, cut>>
      /\ CompleteJob(r) /\ late' = late \ {r} /\ r \in Reports /\ r.job \in cut
  BY DEF IInv, ArrivesLate, TypeOK, LateIsCut
<1>2. TypeOK'
  BY <1>1, Completed DEF IInv, TypeOK
<1>3. TrustedHoldsNothing' /\ Roles' /\ LateIsCut'
  BY <1>1 DEF IInv, TrustedHoldsNothing, Held, Roles, LateIsCut
<1>4. ASSUME NEW j \in Jobs \ cut PROVE Apart(j)'
  <2>1. status'[j] = status[j]
    BY <1>1, Completed DEF IInv
  <2> QED BY <1>1, <2>1, Unmoved DEF IInv
<1> QED BY <1>1, <1>2, <1>3, <1>4 DEF IInv

\* The service restarts: what it was doing is cut, or was not begun.
LEMMA RestartStep == ASSUME IInv, Restart PROVE IInv'
<1> DEFINE sent == {act[a].report : a \in Actors} \ {None}
           taken == UNION {act[a].todo : a \in {x \in Actors : act[x].mode # "receive"}}
<1>1. /\ UNCHANGED <<status, remote, held, trusted, runs>>
      /\ late' \in {late, late \cup sent}
      /\ cut' = cut \cup {r.job : r \in sent} \cup taken
      /\ act' = [a \in Actors |-> Idle]
      /\ failures < MaxFailures /\ failures' = failures + 1
  BY DEF Restart, Failing
<1>2. sent \subseteq Reports /\ {r.job : r \in sent} \subseteq Jobs /\ taken \subseteq Jobs
  <2>1. \A a \in Actors : act[a] \in Doings
    BY DEF IInv, TypeOK, Doings
  <2>2. sent \subseteq Reports /\ taken \subseteq Jobs
    BY <2>1 DEF Doings
  <2> QED BY <2>2 DEF Reports
<1>3. \A a \in Actors : /\ act'[a].mode = "idle" /\ act'[a].todo = {}
                        /\ act'[a].report = None
  BY <1>1, Constants
<1>4. TypeOK'
  <2>1. failures' \in 0..MaxFailures
    BY <1>1, Constants DEF IInv, TypeOK
  <2>2. act' \in [Actors -> Doings]
    BY <1>1, Constants
  <2>3. late' \subseteq Reports /\ cut' \subseteq Jobs
    BY <1>1, <1>2 DEF IInv, TypeOK
  <2> QED BY <1>1, <2>1, <2>2, <2>3 DEF IInv, TypeOK, Doings
<1>5. TrustedHoldsNothing' /\ Roles'
  BY <1>1, <1>3 DEF IInv, TrustedHoldsNothing, Held, Roles
<1>6. LateIsCut'
  BY <1>1 DEF IInv, LateIsCut
<1>7. ASSUME NEW j \in Jobs \ cut' PROVE Apart(j)'
  <2>1. \A a \in Actors : ~Taken(a, j) /\ ~Telling(a, j, Answers)
    <3>1. ASSUME NEW a \in Actors, Taken(a, j) PROVE FALSE
      BY <1>1, <3>1 DEF Taken
    <3>2. ASSUME NEW a \in Actors, Telling(a, j, Answers) PROVE FALSE
      BY <1>1, <3>2 DEF Telling
    <3> QED BY <3>1, <3>2
  <2>2. \A a \in Actors : ~Taken(a, j)' /\ ~Telling(a, j, Answers)' /\ ~Telling(a, j, Final)'
    BY <1>3 DEF Taken, Telling
  <2>3. \A a \in Actors : ~Telling(a, j, Final)
    BY <2>1 DEF Telling, Final, Answers
  <2>4. Apart(j)
    BY <1>1 DEF IInv
  <2> HIDE DEF sent, taken
  <2> QED BY <1>1, <1>3, <2>1, <2>2, <2>3, <2>4, Constants DEF Apart, Unseen, Unanswered
<1> QED BY <1>4, <1>5, <1>6, <1>7 DEF IInv

-----------------------------------------------------------------------------
LEMMA StepInv == IInv /\ [Next]_vars => IInv'
<1> SUFFICES ASSUME IInv, [Next]_vars PROVE IInv'
  OBVIOUS
<1>1. CASE \/ \E j \in Jobs : Enqueue(j) \/ Age(j)
           \/ Untrust \/ RemoteSwitch \/ RemoteCommand
  BY <1>1, OutsideStep
<1>2. CASE CheckIn
  BY <1>2, AskStep
<1>3. CASE StartCheckIn
  <2>1. CASE remote
    <3>1. /\ UNCHANGED <<status, late, remote, held, trusted, runs, failures, cut>>
          /\ act[Loop].mode = "idle" /\ act[Loop].todo = {} /\ act[Loop].report = None
          /\ act' = [act EXCEPT ![Loop] = Doing("asking", {})]
      BY <1>3, <2>1, Constants DEF StartCheckIn, Set, IInv, Roles
    <3>2. Doing("asking", {}) = [mode |-> "asking", todo |-> {}, report |-> None]
          /\ Doing("asking", {}) \in Doings
      BY DEF Doing, Doings
    <3>3. /\ act'[Loop].mode = "asking" /\ act'[Loop].todo = {} /\ act'[Loop].report = None
          /\ \A a \in Actors : a # Loop => act'[a] = act[a]
          /\ act' \in [Actors -> Doings]
      BY <3>1, <3>2, Constants DEF IInv, TypeOK, Doings
    <3>4. TypeOK' /\ TrustedHoldsNothing' /\ Roles' /\ LateIsCut'
      BY <3>1, <3>3 DEF IInv, TypeOK, Doings, TrustedHoldsNothing, Held, Roles, LateIsCut
    <3>5. ASSUME NEW j \in Jobs \ cut PROVE Apart(j)'
      BY <3>1, <3>3, Constants
         DEF IInv, Apart, Unseen, Unanswered, Taken, Telling, Final, Answers
    <3> QED BY <3>1, <3>4, <3>5 DEF IInv
  <2>2. CASE ~remote
    <3>1. {j \in Jobs : held[j] = "old"} \in SUBSET Held /\ Loop \in Actors
      BY Constants DEF Held
    <3>2. held' = [j \in Jobs |-> IF j \in {k \in Jobs : held[k] = "old"} THEN "no" ELSE held[j]]
      BY <1>3, <2>2 DEF StartCheckIn
    <3>3. trusted \in BOOLEAN
      BY DEF IInv, TypeOK
    <3> QED BY <1>3, <2>2, <3>1, <3>2, <3>3, TakeStep DEF StartCheckIn, Set
  <2> QED BY <2>1, <2>2
<1>4. CASE Expire
  <2>1. {j \in Jobs : held[j] = "old"} \in SUBSET Held /\ Loop \in Actors
    BY Constants DEF Held
  <2>2. held' = [j \in Jobs |-> IF j \in {k \in Jobs : held[k] = "old"} THEN "no" ELSE held[j]]
    BY <1>4 DEF Expire
  <2>3. trusted \in BOOLEAN
    BY DEF IInv, TypeOK
  <2> QED BY <1>4, <2>1, <2>2, <2>3, TakeStep DEF Expire, Set
<1>5. ASSUME NEW p \in Pages, NEW j \in Jobs, Allow(p, j) \/ Deny(p, j)
      PROVE  IInv'
  <2>1. p \in Actors /\ {j} \in SUBSET Held /\ act[p].mode = "idle" /\ trusted \in BOOLEAN
    BY <1>5, Constants DEF Allow, Deny, Actors, IInv, TypeOK
  <2>2. held' = [k \in Jobs |-> IF k \in {j} THEN "no" ELSE held[k]]
    BY <1>5 DEF Allow, Deny, IInv, TypeOK
  <2>3. PICK mode \in {"allow", "deny"} : act' = [act EXCEPT ![p] = Doing(mode, {j})]
    BY <1>5 DEF Allow, Deny, Set
  <2>4. UNCHANGED <<status, late, remote, trusted, runs, failures, cut>>
    BY <1>5 DEF Allow, Deny
  <2> QED BY <2>1, <2>2, <2>3, <2>4, TakeStep
<1>6. ASSUME NEW p \in Pages, Trust(p)
      PROVE  IInv'
  <2>1. p \in Actors /\ act[p].mode = "idle" /\ trusted' \in BOOLEAN /\ Held \in SUBSET Held
    BY <1>6, Constants DEF Trust, Actors
  <2>2. held' = [k \in Jobs |-> IF k \in Held THEN "no" ELSE held[k]]
    BY <1>6 DEF Trust, Held
  <2> QED BY <1>6, <2>1, <2>2, TakeStep DEF Trust, Set
<1>7. ASSUME NEW j \in Jobs, Receive(j)
      PROVE  IInv'
  BY <1>7, AnswerStep, Constants DEF Receive
<1>8. ASSUME NEW a \in Actors, NEW j \in Jobs, Settle(a, j)
      PROVE  IInv'
  BY <1>8, AnswerStep DEF Settle
<1>9. ASSUME NEW a \in Actors, Done(a) \/ Reported(a) \/ ReportFails(a)
      PROVE  IInv'
  BY <1>9, DoneStep, ReportedStep, ReportFailsStep
<1>10. ASSUME NEW r \in late, ArrivesLate(r)
       PROVE  IInv'
  BY <1>10, ArrivesLateStep
<1>11. CASE Restart
  BY <1>11, RestartStep
<1>12. CASE UNCHANGED vars
  <2>1. TypeOK' /\ TrustedHoldsNothing' /\ Roles' /\ LateIsCut'
    BY <1>12 DEF IInv, vars, TypeOK, TrustedHoldsNothing, Held, Roles, LateIsCut
  <2>2. ASSUME NEW j \in Jobs \ cut PROVE Apart(j)'
    BY <1>12, Unmoved DEF IInv, vars
  <2> QED BY <1>12, <2>1, <2>2 DEF IInv, vars
<1> QED BY <1>1, <1>2, <1>3, <1>4, <1>5, <1>6, <1>7, <1>8, <1>9, <1>10, <1>11, <1>12
        DEF Next, LoopStep, Step

LEMMA Invariant == Spec => []IInv
<1> QED BY InitInv, StepInv, PTL DEF Spec

\* Every variable keeps its type, and no health check is ever held.
THEOREM TypeCorrect == Spec => []TypeOK
<1>1. IInv => TypeOK
  BY DEF IInv
<1> QED BY <1>1, Invariant, PTL

\* While the owner allows requests without asking, none is left waiting, whatever the loop
\* receives and however often the window is opened and closed (Receive and Trust).
THEOREM NothingWaitsInTheWindow == Spec => []TrustedHoldsNothing
<1>1. IInv => TrustedHoldsNothing
  BY DEF IInv
<1> QED BY <1>1, Invariant, PTL

\* A request whose reports all arrived ran at most once, and not at all if it is shown as
\* declined, with any number of pages answering it beside the loop.
THEOREM AnsweredOnce == Spec => []RunsOnce
<1>1. IInv => RunsOnce
  BY DEF IInv, RunsOnce, Apart
<1> QED BY <1>1, Invariant, PTL

\* The panel's answer to a request never changes, however late and in whatever order
\* reports of it arrive (CompleteJob).
THEOREM AnswersStay == Spec => AnswerKept
<1>1. ASSUME TypeOK, [Next]_vars, NEW j \in Jobs, status[j] \in Final
      PROVE  status'[j] = status[j]
  <2>1. ASSUME NEW r \in Reports, CompleteJob(r)
        PROVE  status'[j] = status[j]
    BY <1>1, <2>1, Completed
  <2>2. CASE \E a \in Actors : Reported(a)
    BY <1>1, <2>1, <2>2 DEF Reported, TypeOK
  <2>3. CASE \E r \in late : ArrivesLate(r)
    BY <1>1, <2>1, <2>3 DEF ArrivesLate, TypeOK
  <2>4. CASE \E k \in Jobs : Enqueue(k)
    BY <1>1, <2>4 DEF Enqueue, TypeOK, Final
  <2>5. CASE UNCHANGED status
    BY <2>5
  <2> QED BY <1>1, <2>2, <2>3, <2>4, <2>5
          DEF Next, vars, LoopStep, Step, StartCheckIn, CheckIn, Receive, Expire, Settle, Done,
              ReportFails, Age, Allow, Deny, Trust, Untrust, RemoteSwitch, RemoteCommand, Restart
<1>2. TypeOK /\ [Next]_vars => [\A j \in Jobs : status[j] \in Final => status'[j] = status[j]]_status
  BY <1>1
<1> QED BY <1>2, TypeCorrect, PTL DEF Spec, AnswerKept
-----------------------------------------------------------------------------
\* A request the panel shows as waiting for its owner, or is about to, and what the
\* machine must then have of it.
Awaited(j) ==
    \/ status[j] = "awaiting"
    \/ status[j] = "pending" /\ Telling(Loop, j, {"awaiting"})

InHand(j) == held[j] # "no" \/ \E a \in Actors : Taken(a, j) \/ Telling(a, j, Final)

WaitingInHand == \A j \in Jobs \ cut : Awaited(j) => InHand(j)

\* One goroutine turns to something else: it keeps what it has in hand of j, or brings
\* the answer to the panel.
LEMMA StillInHand ==
    ASSUME WaitingInHand, NEW j \in Jobs \ cut, Awaited(j)' => Awaited(j),
           held[j] # "no" => held'[j] # "no" \/ \E a \in Actors : Taken(a, j)',
           \A a \in Actors : Taken(a, j) => Taken(a, j)' \/ Telling(a, j, Final)',
           \A a \in Actors : Telling(a, j, Final) => Telling(a, j, Final)'
    PROVE  Awaited(j)' => InHand(j)'
BY DEF WaitingInHand, InHand

\* What the panel and the clock do leaves what is in hand as it was.
LEMMA OutsideKeeps ==
    ASSUME IInv, WaitingInHand,
           \/ \E j \in Jobs : Enqueue(j) \/ Age(j)
           \/ Untrust \/ RemoteSwitch \/ RemoteCommand \/ UNCHANGED vars
    PROVE  WaitingInHand'
<1>1. UNCHANGED <<act, cut>>
  BY DEF Enqueue, Age, Untrust, RemoteSwitch, RemoteCommand, vars
<1>2. ASSUME NEW j \in Jobs \ cut PROVE Awaited(j)' => InHand(j)'
  <2>1. \A b \in Actors : /\ Taken(b, j)' <=> Taken(b, j)
                          /\ Telling(b, j, Final)' <=> Telling(b, j, Final)
                          /\ Telling(b, j, {"awaiting"})' <=> Telling(b, j, {"awaiting"})
    BY <1>1 DEF Taken, Telling
  <2>2. held'[j] # "no" <=> held[j] # "no"
    BY DEF IInv, TypeOK, Enqueue, Age, Untrust, RemoteSwitch, RemoteCommand, vars
  <2>3. status'[j] = status[j] \/ (status[j] = "none" /\ status'[j] = "pending")
    BY DEF IInv, TypeOK, Enqueue, Age, Untrust, RemoteSwitch, RemoteCommand, vars
  <2>4. status[j] = "none" => ~Telling(Loop, j, {"awaiting"})
    BY Constants DEF IInv, Apart, Unseen, Telling, Answers
  <2>5. Awaited(j)' => Awaited(j)
    BY <2>1, <2>3, <2>4, Constants DEF Awaited
  <2> QED BY <2>1, <2>2, <2>5, StillInHand
<1> QED BY <1>1, <1>2 DEF WaitingInHand

\* What is taken off the queue is in the hands of who took it.
LEMMA TakeKeeps ==
    ASSUME IInv, WaitingInHand,
           NEW a \in Actors, NEW jobs \in SUBSET Held, NEW mode \in {"allow", "deny"},
           act[a].report = None, act[a].todo = {},
           act' = [act EXCEPT ![a] = Doing(mode, jobs)],
           held' = [j \in Jobs |-> IF j \in jobs THEN "no" ELSE held[j]],
           UNCHANGED <<status, cut>>
    PROVE  WaitingInHand'
<1>1. /\ act'[a].mode = mode /\ act'[a].todo = jobs /\ act'[a].report = None
      /\ \A b \in Actors : b # a => act'[b] = act[b]
  BY DEF IInv, TypeOK, Doing
<1>2. ASSUME NEW j \in Jobs \ cut PROVE Awaited(j)' => InHand(j)'
  <2>1. \A b \in Actors : /\ Taken(b, j) => Taken(b, j)'
                          /\ Telling(b, j, Final) => Telling(b, j, Final)'
                          /\ Telling(b, j, {"awaiting"})' => Telling(b, j, {"awaiting"})
    BY <1>1 DEF Taken, Telling
  <2>2. Awaited(j)' => Awaited(j)
    BY <2>1, Constants DEF Awaited
  <2>3. held[j] # "no" => held'[j] # "no" \/ Taken(a, j)'
    BY <1>1 DEF Taken
  <2> QED BY <2>1, <2>2, <2>3, StillInHand
<1> QED BY <1>2 DEF WaitingInHand

\* The loop asks, or an actor is done: nobody had anything in hand.
LEMMA TurnKeeps ==
    ASSUME IInv, WaitingInHand, NEW a \in Actors,
           act[a].report = None, act[a].mode \in {"allow", "deny"} => act[a].todo = {},
           act'[a].report = None, \A b \in Actors : b # a => act'[b] = act[b],
           UNCHANGED <<status, held, cut>>
    PROVE  WaitingInHand'
<1>1. ASSUME NEW j \in Jobs \ cut PROVE Awaited(j)' => InHand(j)'
  <2>1. \A b \in Actors : /\ Taken(b, j) => Taken(b, j)'
                          /\ Telling(b, j, Final) => Telling(b, j, Final)'
                          /\ Telling(b, j, {"awaiting"})' => Telling(b, j, {"awaiting"})
    BY DEF Taken, Telling
  <2>2. Awaited(j)' => Awaited(j)
    BY <2>1, Constants DEF Awaited
  <2> QED BY <2>1, <2>2, StillInHand
<1> QED BY <1>1 DEF WaitingInHand

\* A request is run, declined or held.
LEMMA AnswerKeeps ==
    ASSUME IInv, WaitingInHand, NEW a \in Actors, NEW k \in Jobs, NEW what \in Answers,
           act[a].report = None, Reporting(a, k, what),
           IF what = "awaiting" THEN held' = [held EXCEPT ![k] = "new"] ELSE UNCHANGED held,
           UNCHANGED <<status, cut>>
    PROVE  WaitingInHand'
<1>1. /\ act'[a].mode = act[a].mode /\ act'[a].todo = act[a].todo \ {k}
      /\ act'[a].report # None /\ act'[a].report.job = k /\ act'[a].report.answer = what
      /\ \A b \in Actors : b # a => act'[b] = act[b]
  <2>1. act \in [Actors -> Doings] /\ TypeOK
    BY DEF IInv, TypeOK, Doings
  <2>2. act' = [act EXCEPT ![a] = Answering(a, k, what)]
    BY DEF Reporting, Set, Answering
  <2>3. /\ Answering(a, k, what).mode = act[a].mode
        /\ Answering(a, k, what).todo = act[a].todo \ {k}
        /\ Answering(a, k, what).report = [job |-> k, answer |-> what]
        /\ Answering(a, k, what).report # None
    BY <2>1, AnsweringIs
  <2> QED BY <2>1, <2>2, <2>3
<1>2. held \in [Jobs -> {"no", "new", "old"}]
  BY DEF IInv, TypeOK
<1>3. ASSUME NEW j \in Jobs \ cut PROVE Awaited(j)' => InHand(j)'
  <2>1. CASE j = k
    BY <1>1, <1>2, <2>1 DEF InHand, Telling, Answers
  <2>2. CASE j # k
    <3>1. \A b \in Actors : /\ Taken(b, j) => Taken(b, j)'
                            /\ Telling(b, j, Final) => Telling(b, j, Final)'
                            /\ Telling(b, j, {"awaiting"})' => Telling(b, j, {"awaiting"})
      BY <1>1, <2>2 DEF Taken, Telling
    <3>2. Awaited(j)' => Awaited(j)
      BY <3>1, Constants DEF Awaited
    <3>3. held[j] # "no" => held'[j] # "no"
      BY <1>2, <2>2
    <3> QED BY <3>1, <3>2, <3>3, StillInHand
  <2> QED BY <2>1, <2>2
<1> QED BY <1>3 DEF WaitingInHand

\* An answer arrives: the panel does not show the request as waiting any more.
LEMMA ReportedKeeps ==
    ASSUME IInv, WaitingInHand, NEW a \in Actors, Reported(a)
    PROVE  WaitingInHand'
<1>1. /\ UNCHANGED <<held, cut>> /\ act[a].report # None
      /\ act[a].report \in Reports /\ CompleteJob(act[a].report)
      /\ act[a].report.answer \in Answers
  BY DEF Reported, IInv, TypeOK, Reports, Answers, Final
<1>2. /\ act'[a].mode = act[a].mode /\ act'[a].todo = act[a].todo /\ act'[a].report = None
      /\ \A b \in Actors : b # a => act'[b] = act[b]
  <2>1. act \in [Actors -> Doings] /\ act' = [act EXCEPT ![a] = Sent(a)]
    BY DEF IInv, TypeOK, Doings, Reported, Set, Sent
  <2> QED BY <2>1, SentIs DEF IInv
<1>3. ASSUME NEW j \in Jobs \ cut, Awaited(j)' PROVE InHand(j)'
  <2>1. \A b \in Actors : /\ Taken(b, j) => Taken(b, j)'
                          /\ Telling(b, j, {"awaiting"})' => Telling(b, j, {"awaiting"})
    BY <1>2 DEF Taken, Telling
  <2>2. CASE j = act[a].report.job
    <3>1. act[a].report.answer = "awaiting" \/ Telling(a, j, Final)
      BY <1>1, <2>2 DEF Telling, Answers
    <3>2. ASSUME Telling(a, j, Final) PROVE FALSE
      <4>1. status[j] \in {"pending", "awaiting"} /\ act[a].report.answer \in Final
        BY <3>2, Constants
           DEF IInv, TypeOK, Apart, Unseen, Telling, Final, Answers
      <4>2. status'[j] \in Final
        BY <1>1, <2>2, <4>1, Completed DEF IInv, Final
      <4> QED BY <1>3, <4>2 DEF Awaited, Final
    <3>3. a = Loop /\ Telling(Loop, j, {"awaiting"})
      BY <1>1, <2>2, <3>1, <3>2 DEF IInv, Roles, Telling
    <3>4. Awaited(j)
      BY <1>1, <1>3, <2>2, <3>1, <3>2, <3>3, Completed DEF IInv, Awaited, Final, Telling
    <3>5. \A b \in Actors : Telling(b, j, Final) => Telling(b, j, Final)'
      BY <1>2, <3>2 DEF Telling
    <3> QED BY <1>1, <1>3, <2>1, <3>4, <3>5, StillInHand
  <2>3. CASE j # act[a].report.job
    <3>1. status'[j] = status[j]
      BY <1>1, <2>3, Completed DEF IInv
    <3>2. Awaited(j)
      BY <1>3, <2>1, <3>1, Constants DEF Awaited
    <3>3. \A b \in Actors : Telling(b, j, Final) => Telling(b, j, Final)'
      BY <1>2, <2>3 DEF Telling
    <3> QED BY <1>1, <1>3, <2>1, <3>2, <3>3, StillInHand
  <2> QED BY <2>2, <2>3
<1> QED BY <1>1, <1>3 DEF WaitingInHand

\* What fails is cut, and so is what a restart finds in anyone's hands.
LEMMA FailureKeeps ==
    ASSUME IInv, WaitingInHand,
           \/ \E a \in Actors : ReportFails(a)
           \/ \E r \in late : ArrivesLate(r)
           \/ Restart
    PROVE  WaitingInHand'
<1>1. ASSUME NEW a \in Actors, ReportFails(a), NEW j \in Jobs \ cut', Awaited(j)'
      PROVE  InHand(j)'
  <2>1. /\ UNCHANGED <<status, held>> /\ act[a].report # None /\ cut \subseteq cut'
        /\ j # act[a].report.job /\ act' = [act EXCEPT ![a] = Sent(a)]
    BY <1>1 DEF ReportFails, Set, Sent
  <2>2. /\ act'[a].mode = act[a].mode /\ act'[a].todo = act[a].todo /\ act'[a].report = None
        /\ \A b \in Actors : b # a => act'[b] = act[b]
    <3>1. act \in [Actors -> Doings]
      BY DEF IInv, TypeOK, Doings
    <3> QED BY <2>1, <3>1, SentIs DEF IInv
  <2>3. \A b \in Actors : /\ Taken(b, j) => Taken(b, j)'
                          /\ Telling(b, j, Final) => Telling(b, j, Final)'
                          /\ Telling(b, j, {"awaiting"})' => Telling(b, j, {"awaiting"})
    BY <2>1, <2>2 DEF Taken, Telling
  <2>4. Awaited(j)
    BY <1>1, <2>1, <2>3, Constants DEF Awaited
  <2> QED BY <1>1, <2>1, <2>3, <2>4, StillInHand
<1>2. ASSUME NEW r \in late, ArrivesLate(r), NEW j \in Jobs \ cut', Awaited(j)'
      PROVE  InHand(j)'
  <2>1. /\ UNCHANGED <<held, act, cut>> /\ CompleteJob(r) /\ r \in Reports /\ r.job \in cut
    BY <1>2 DEF ArrivesLate, IInv, TypeOK, LateIsCut
  <2>2. status'[j] = status[j]
    BY <1>2, <2>1, Completed DEF IInv
  <2>3. \A b \in Actors : /\ Taken(b, j) <=> Taken(b, j)'
                          /\ Telling(b, j, Final) <=> Telling(b, j, Final)'
                          /\ Telling(b, j, {"awaiting"})' <=> Telling(b, j, {"awaiting"})
    BY <2>1 DEF Taken, Telling
  <2>4. Awaited(j)
    BY <1>2, <2>2, <2>3, Constants DEF Awaited
  <2> QED BY <1>2, <2>1, <2>3, <2>4, StillInHand
<1>3. ASSUME Restart, NEW j \in Jobs \ cut', Awaited(j)' PROVE InHand(j)'
  <2> DEFINE sent == {act[a].report : a \in Actors} \ {None}
             taken == UNION {act[a].todo : a \in {x \in Actors : act[x].mode # "receive"}}
  <2>1. /\ UNCHANGED <<status, held>> /\ cut' = cut \cup {r.job : r \in sent} \cup taken
        /\ act' = [a \in Actors |-> Idle]
    BY <1>3 DEF Restart
  <2>2. \A a \in Actors : ~Taken(a, j) /\ ~Telling(a, j, Final)
    <3>1. ASSUME NEW a \in Actors, Taken(a, j) PROVE FALSE
      BY <2>1, <3>1 DEF Taken
    <3>2. ASSUME NEW a \in Actors, Telling(a, j, Final) PROVE FALSE
      BY <2>1, <3>2 DEF Telling
    <3> QED BY <3>1, <3>2
  <2>3. j \in Jobs \ cut /\ ~Telling(Loop, j, {"awaiting"})'
    BY <2>1, Constants DEF Telling
  <2>4. Awaited(j)
    BY <1>3, <2>1, <2>3 DEF Awaited
  <2> QED BY <2>1, <2>2, <2>3, <2>4 DEF WaitingInHand, InHand
<1> QED BY <1>1, <1>2, <1>3 DEF WaitingInHand

LEMMA WaitingStep == IInv /\ WaitingInHand /\ [Next]_vars => WaitingInHand'
<1> SUFFICES ASSUME IInv, WaitingInHand, [Next]_vars PROVE WaitingInHand'
  OBVIOUS
<1>1. CASE \/ \E j \in Jobs : Enqueue(j) \/ Age(j)
           \/ Untrust \/ RemoteSwitch \/ RemoteCommand \/ UNCHANGED vars
  BY <1>1, OutsideKeeps
<1>2. CASE (StartCheckIn /\ remote) \/ CheckIn \/ \E a \in Actors : Done(a)
  <2>1. \A jobs \in SUBSET Jobs : /\ Doing("asking", jobs).report = None
                                  /\ Doing("receive", jobs).report = None
    BY DEF Doing
  <2>2. PICK a \in Actors :
          /\ act[a].report = None
          /\ act[a].mode \in {"allow", "deny"} => act[a].todo = {}
          /\ \E d : act' = [act EXCEPT ![a] = d] /\ d.report = None
          /\ UNCHANGED <<status, held, cut>>
    <3>1. CASE StartCheckIn /\ remote
      BY <2>1, <3>1, Constants DEF StartCheckIn, Set, IInv, Roles
    <3>2. CASE CheckIn
      BY <2>1, <3>2, Constants DEF CheckIn, Set, IInv, Roles
    <3>3. CASE \E a \in Actors : Done(a)
      BY <3>3, Constants DEF Done, Set
    <3> QED BY <1>2, <3>1, <3>2, <3>3
  <2>3. act'[a].report = None /\ \A b \in Actors : b # a => act'[b] = act[b]
    BY <2>2 DEF IInv, TypeOK
  <2> QED BY <2>2, <2>3, TurnKeeps
<1>3. CASE Expire \/ (StartCheckIn /\ ~remote)
  <2>1. {j \in Jobs : held[j] = "old"} \in SUBSET Held /\ Loop \in Actors
    BY Constants DEF Held
  <2>2. held' = [j \in Jobs |-> IF j \in {k \in Jobs : held[k] = "old"} THEN "no" ELSE held[j]]
    BY <1>3 DEF Expire, StartCheckIn
  <2>3. act[Loop].report = None /\ act[Loop].todo = {}
    BY <1>3, <2>1 DEF Expire, StartCheckIn, IInv, Roles
  <2>4. act' = [act EXCEPT ![Loop] = Doing("deny", {j \in Jobs : held[j] = "old"})]
        /\ UNCHANGED <<status, cut>>
    BY <1>3 DEF Expire, StartCheckIn, Set
  <2> QED BY <2>1, <2>2, <2>3, <2>4, TakeKeeps
<1>4. ASSUME NEW p \in Pages, Trust(p) \/ \E j \in Jobs : Allow(p, j) \/ Deny(p, j)
      PROVE  WaitingInHand'
  <2>1. p \in Actors /\ act[p].report = None /\ act[p].todo = {}
        /\ UNCHANGED <<status, cut>>
    BY <1>4, Constants DEF Trust, Allow, Deny, Actors
  <2>2. PICK jobs \in SUBSET Held, mode \in {"allow", "deny"} :
          /\ held' = [j \in Jobs |-> IF j \in jobs THEN "no" ELSE held[j]]
          /\ act' = [act EXCEPT ![p] = Doing(mode, jobs)]
    <3>1. CASE Trust(p)
      <4>1. held' = [j \in Jobs |-> IF j \in Held THEN "no" ELSE held[j]]
        BY <3>1 DEF Trust, Held
      <4> QED BY <3>1, <4>1 DEF Trust, Set
    <3>2. ASSUME NEW j \in Jobs, Allow(p, j) \/ Deny(p, j)
          PROVE  \E jobs \in SUBSET Held, mode \in {"allow", "deny"} :
                   /\ held' = [k \in Jobs |-> IF k \in jobs THEN "no" ELSE held[k]]
                   /\ act' = [act EXCEPT ![p] = Doing(mode, jobs)]
      <4>1. {j} \in SUBSET Held
            /\ held' = [k \in Jobs |-> IF k \in {j} THEN "no" ELSE held[k]]
        BY <3>2 DEF Allow, Deny, IInv, TypeOK
      <4>2. PICK mode \in {"allow", "deny"} : act' = [act EXCEPT ![p] = Doing(mode, {j})]
        BY <3>2 DEF Allow, Deny, Set
      <4> QED BY <4>1, <4>2
    <3> QED BY <1>4, <3>1, <3>2
  <2> QED BY <2>1, <2>2, TakeKeeps
<1>5. ASSUME NEW a \in Actors, NEW j \in Jobs, (Receive(j) /\ a = Loop) \/ Settle(a, j)
      PROVE  WaitingInHand'
  <2>1. act[a].report = None /\ UNCHANGED <<status, cut>>
    BY <1>5 DEF Receive, Settle
  <2>2. PICK what \in Answers :
          /\ Reporting(a, j, what)
          /\ IF what = "awaiting" THEN held' = [held EXCEPT ![j] = "new"] ELSE UNCHANGED held
    BY <1>5 DEF Receive, Settle, Run, Answers, Final
  <2> QED BY <2>1, <2>2, AnswerKeeps
<1>6. ASSUME NEW a \in Actors, Reported(a) PROVE WaitingInHand'
  BY <1>6, ReportedKeeps
<1>7. CASE \/ \E a \in Actors : ReportFails(a)
           \/ \E r \in late : ArrivesLate(r)
           \/ Restart
  BY <1>7, FailureKeeps
<1> QED BY <1>1, <1>2, <1>3, <1>4, <1>5, <1>6, <1>7, Constants DEF Next, LoopStep, Step

\* What the panel shows as waiting for the owner is on the machine's list for the owner
\* to see, or someone has it off the list and is answering it: no request is shown as
\* waiting that nobody can decide any more, unless a report of it was lost (Queue.Receive,
\* take and Expire, db.CompleteJob).
THEOREM NothingShownWaitsForNobody ==
    Spec => [](\A j \in Jobs \ cut : status[j] = "awaiting" => InHand(j))
<1>1. Init => WaitingInHand
  BY DEF Init, WaitingInHand, Awaited
<1>2. WaitingInHand => \A j \in Jobs \ cut : status[j] = "awaiting" => InHand(j)
  BY DEF WaitingInHand, Awaited
<1> QED BY <1>1, <1>2, WaitingStep, Invariant, PTL DEF Spec
=============================================================================
