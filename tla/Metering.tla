------------------------------ MODULE Metering ------------------------------
(* What the gateway counts and what it turns away: a member's request from its
   quota standing to the usage row of its answer (internal/gateway/gateway.go,
   metering.go; cmd/clawdh-server/db.go, dbwriter.go, usagepoll.go, main.go; panelpg's
   usage, windows and limits).

   One account is modelled. How much of its weekly window is used is one fact, full:
   past the ceiling a limit puts on it, or not. Usage events are numbered as the
   writer numbers them; they leave its queue only from the front, so the queue is
   the events head..seq. What SharedLogin models, the token behind a request and
   the queue of credentials, is here a choice: it works or it does not.
 *)
EXTENDS Naturals, FiniteSets

CONSTANTS
  Members,      \* requests at a time
  MaxAnswers,   \* bound: answers Anthropic gives
  MaxPending,   \* maxPendingEvents
  None          \* no reading

ASSUME MeteringAssumption ==
  /\ IsFiniteSet(Members)
  /\ MaxAnswers \in Nat /\ MaxPending \in Nat \ {0} /\ None \notin BOOLEAN

VARIABLES
  life,       \* the process: serving, shutting down, draining, over
  ceiling,    \* a limit applies to the member or the account
  full,       \* Anthropic: the week is used past that limit
  stored,     \* account_windows: the reading
  standing,   \* limitCache: over, as last read
  stale,      \* limitCache: read limitCacheTTL ago or never
  reading,    \* limitCache: a readLimit under way, and what it has found
  req,        \* where each request is
  answers,    \* history: answers begun so far
  window,     \* writer.windows: a reading not yet stored
  head, seq,  \* writer.events: the oldest event queued, the last one numbered
  flush,      \* the calls of flush: runWriter's and drain's
  rows,       \* usage_events: how often each event is there
  overflowed, \* history: events dropped, and counted as dropped
  unheard,    \* history: events stored by a write that was reported as failed
  troubled    \* history: something failed, or ran out of time, since the stop

quota == <<ceiling, full, stored, standing, stale, reading>>
queue == <<window, head, seq, overflowed>>
table == <<rows, unheard>>
vars == <<life, quota, req, answers, queue, flush, table, troubled>>

Events == 1..MaxAnswers
Flushers == {"runWriter", "drain"}
Idle == [at |-> "off", win |-> None, first |-> 0, next |-> 0, last |-> 0]

TypeOK ==
  /\ life \in {"up", "stopping", "draining", "gone"}
  /\ ceiling \in BOOLEAN /\ full \in BOOLEAN /\ stored \in BOOLEAN \cup {None}
  /\ standing \in BOOLEAN /\ stale \in BOOLEAN
  /\ reading \in {"no", "begun", "over", "under"}
  /\ req \in [Members -> {"idle", "sent", "resent", "streaming", "read"}]
  /\ answers \in 0..MaxAnswers
  /\ window \in BOOLEAN \cup {None}
  /\ seq \in 0..answers /\ head \in 1..seq + 1 /\ seq < head + MaxPending
  /\ flush \in [Flushers -> [at : {"off", "windows", "rows", "done"},
                             win : BOOLEAN \cup {None}, first : 0..MaxAnswers + 1,
                             next : 0..MaxAnswers + 1, last : 0..MaxAnswers]]
  /\ rows \in [Events -> Nat]
  /\ overflowed \subseteq 1..seq /\ unheard \subseteq 1..seq
  /\ troubled \in BOOLEAN

Init ==
  /\ life = "up"
  /\ ceiling \in BOOLEAN /\ full \in BOOLEAN /\ stored = None
  /\ standing = FALSE /\ stale = TRUE /\ reading = "no"
  /\ req = [m \in Members |-> "idle"] /\ answers = 0
  /\ window = None /\ head = 1 /\ seq = 0 /\ overflowed = {}
  /\ flush = [f \in Flushers |-> Idle]
  /\ rows = [e \in Events |-> 0] /\ unheard = {}
  /\ troubled = FALSE

Moves(m, at) == req' = [req EXCEPT ![m] = at]
-----------------------------------------------------------------------------
(* The quota a request is judged on. *)

SetLimit == ceiling' = TRUE
DeleteLimit == ceiling' = FALSE

ChangeCeiling ==
  /\ life = "up"
  /\ SetLimit \/ DeleteLimit
  /\ UNCHANGED <<life, full, stored, standing, stale, reading, req, answers, queue, flush,
                 table, troubled>>

Uses ==     \* the week fills up, through clawdh or beside it, or rolls over
  /\ life = "up"
  /\ full' = ~full
  /\ UNCHANGED <<life, ceiling, stored, standing, stale, reading, req, answers, queue,
                 flush, table, troubled>>

(* The usage poller stores what it reads, with no queue between. A poll that
   fails leaves the reading as it was. *)
pollAccountUsage ==
  /\ life = "up"
  /\ stored' = full
  /\ UNCHANGED <<life, ceiling, full, standing, stale, reading, req, answers, queue,
                 flush, table, troubled>>

MemberLimitStatus ==
  /\ reading = "begun"
  /\ reading' = IF ceiling /\ stored = TRUE THEN "over" ELSE "under"
  /\ UNCHANGED <<life, ceiling, full, stored, standing, stale, req, answers, queue, flush,
                 table, troubled>>

(* readLimit: what was found is kept; or the read failed, and the standing stays. *)
readLimit ==
  /\ reading \in {"over", "under"}
  /\ standing' = (reading = "over") /\ reading' = "no" /\ stale' = FALSE
  /\ UNCHANGED <<life, ceiling, full, stored, req, answers, queue, flush, table, troubled>>

readLimitFails ==
  /\ reading = "begun"
  /\ reading' = "no" /\ stale' = FALSE
  /\ UNCHANGED <<life, ceiling, full, stored, standing, req, answers, queue, flush, table,
                 troubled>>

Ages ==
  /\ ~stale /\ stale' = TRUE
  /\ UNCHANGED <<life, ceiling, full, stored, standing, reading, req, answers, queue, flush,
                 table, troubled>>

(* Judged on the standing last read; an old one is read again meanwhile. *)
StatusUnlessOver ==    \* mistaken: who is over is turned away first
  reading' = IF stale /\ reading = "no" /\ ~standing THEN "begun" ELSE reading

Status ==
  reading' = IF stale /\ reading = "no" THEN "begun" ELSE reading
-----------------------------------------------------------------------------
(* A member's request. *)

Ask(m) ==
  /\ life = "up" /\ req[m] = "idle"
  /\ Status
  /\ IF standing THEN UNCHANGED req ELSE Moves(m, "sent")
  /\ UNCHANGED <<life, ceiling, full, stored, standing, stale, answers, queue, flush, table,
                 troubled>>

(* A 401 renews the token, where that works, and replays the request once. *)
Refused(m) ==
  /\ \/ req[m] = "sent" /\ (Moves(m, "resent") \/ Moves(m, "idle"))
     \/ req[m] = "resent" /\ Moves(m, "idle")
  /\ UNCHANGED <<life, quota, answers, queue, flush, table, troubled>>

upstreamFailed(m) ==
  /\ req[m] \in {"sent", "resent"} /\ Moves(m, "idle")
  /\ UNCHANGED <<life, quota, answers, queue, flush, table, troubled>>

(* The answer's headers may carry the account's reading, which is queued. *)
ModifyResponse(m) ==
  /\ req[m] \in {"sent", "resent"} /\ Moves(m, "streaming")
  /\ answers < MaxAnswers /\ answers' = answers + 1
  /\ window' \in {window, full}
  /\ UNCHANGED <<life, quota, head, seq, overflowed, flush, table, troubled>>

(* writer.event: a full queue loses its oldest. *)
event ==
  /\ seq' = seq + 1
  /\ IF seq + 1 - head >= MaxPending
     THEN head' = head + 1 /\ overflowed' = overflowed \cup {head}
     ELSE UNCHANGED <<head, overflowed>>

(* An answer may carry no usage: an error, or cut before it said. *)
emit == event \/ UNCHANGED <<head, seq, overflowed>>

Read(m) ==
  /\ req[m] = "streaming" /\ Moves(m, "read") /\ emit
  /\ UNCHANGED <<life, quota, answers, window, flush, table, troubled>>

CloseAgain(m) ==     \* mistaken: no done flag
  /\ req[m] \in {"streaming", "read"} /\ Moves(m, "idle") /\ seq < MaxAnswers /\ emit
  /\ UNCHANGED <<life, quota, answers, window, flush, table, troubled>>

Close(m) ==
  /\ Moves(m, "idle")
  /\ \/ req[m] = "streaming" /\ emit
     \/ req[m] = "read" /\ UNCHANGED <<head, seq, overflowed>>
  /\ UNCHANGED <<life, quota, answers, window, flush, table, troubled>>
-----------------------------------------------------------------------------
(* The writer. One flush at a time: the lock is held from FlushStart to its end. *)
Flushing(f) == flush[f].at \in {"windows", "rows"}

FlushFrom(f) ==
  /\ flush[f].at = "off"
  /\ CASE f = "runWriter" -> life # "gone" [] f = "drain" -> life = "draining"
  /\ flush' = [flush EXCEPT ![f] = [at |-> "windows", win |-> window, first |-> head,
                                    next |-> head, last |-> seq]]
  /\ UNCHANGED <<life, quota, req, answers, queue, table, troubled>>

FlushStart(f) == (\A g \in Flushers : ~Flushing(g)) /\ FlushFrom(f)

(* The deferred removal, by sequence, and the lock's release. *)
Removes(f, to) ==
  /\ head' = IF head <= to THEN to + 1 ELSE head
  /\ flush' = [flush EXCEPT ![f] = IF f = "drain" THEN [Idle EXCEPT !.at = "done"] ELSE Idle]
  /\ UNCHANGED <<window, seq, overflowed>>

FlushEndsAfter(f, written) == Removes(f, written)

FlushEndsByCount(f, written) ==   \* mistaken: as many from the front as were written
  Removes(f, head + (written + 1 - flush[f].first) - 1)

FlushEnds(f, written) == FlushEndsAfter(f, written)

(* A reading is written, or is not, and either way is done with. *)
RecordWindows(f) ==
  /\ flush[f].at = "windows"
  /\ flush' = [flush EXCEPT ![f].at = "rows"]
  /\ \/ flush[f].win # None /\ stored' = flush[f].win
     \/ UNCHANGED stored
  /\ window' = IF window = flush[f].win THEN None ELSE window
  /\ UNCHANGED <<life, ceiling, full, standing, stale, reading, req, answers, head, seq,
                 overflowed, table, troubled>>

(* A credential or a collision note that cannot be stored ends the flush. *)
FlushStops(f) ==
  /\ Flushing(f) /\ flush[f].next = flush[f].first
  /\ FlushEnds(f, flush[f].next - 1)
  /\ troubled' = (troubled \/ f = "drain")
  /\ UNCHANGED <<life, quota, req, answers, table>>

(* One event's row: stored; not stored; or stored, and the answer lost. *)
RecordUsage(f) ==
  LET e == flush[f].next IN
  /\ flush[f].at = "rows" /\ e <= flush[f].last
  /\ \/ /\ rows' = [rows EXCEPT ![e] = @ + 1]
        /\ flush' = [flush EXCEPT ![f].next = e + 1]
        /\ UNCHANGED <<queue, unheard, troubled>>
     \/ /\ FlushEnds(f, e - 1)
        /\ troubled' = (troubled \/ f = "drain")
        /\ \/ UNCHANGED table
           \/ /\ e \notin unheard      \* bound: once for each event
              /\ rows' = [rows EXCEPT ![e] = @ + 1] /\ unheard' = unheard \cup {e}
  /\ UNCHANGED <<life, quota, req, answers>>

FlushDone(f) ==
  /\ flush[f].at = "rows" /\ flush[f].next > flush[f].last
  /\ FlushEnds(f, flush[f].last)
  /\ UNCHANGED <<life, quota, req, answers, table, troubled>>
-----------------------------------------------------------------------------
(* A deploy restarts the gateway: no new requests, those under way have 20 seconds,
   and then what is queued has 10. Nobody is judged any more, so what the quota
   would do from here on is left out. *)
SIGTERM ==
  /\ life = "up" /\ life' = "stopping"
  /\ standing' = FALSE /\ stale' = TRUE /\ reading' = "no"
  /\ UNCHANGED <<ceiling, full, stored, req, answers, queue, flush, table, troubled>>

Shutdown ==
  /\ life = "stopping" /\ life' = "draining"
  /\ troubled' = (troubled \/ \E m \in Members : req[m] # "idle")
  /\ UNCHANGED <<quota, req, answers, queue, flush, table>>

Gone ==
  /\ life' = "gone"
  /\ req' = [m \in Members |-> "idle"] /\ flush' = [f \in Flushers |-> Idle]
  /\ window' = None /\ standing' = FALSE /\ stale' = TRUE /\ reading' = "no"
  /\ UNCHANGED <<ceiling, full, stored, answers, head, seq, overflowed, table>>

Exit ==
  /\ life = "draining" /\ Gone
  /\ troubled' = (troubled \/ flush["drain"].at # "done")

Killed == life # "gone" /\ Gone /\ troubled' = TRUE
-----------------------------------------------------------------------------
Next ==
  \/ ChangeCeiling \/ Uses \/ pollAccountUsage
  \/ MemberLimitStatus \/ readLimit \/ readLimitFails \/ Ages
  \/ \E m \in Members : Ask(m) \/ Refused(m) \/ upstreamFailed(m) \/ ModifyResponse(m)
                          \/ Read(m) \/ Close(m)
  \/ \E f \in Flushers : FlushStart(f) \/ RecordWindows(f) \/ FlushStops(f)
                           \/ RecordUsage(f) \/ FlushDone(f)
  \/ SIGTERM \/ Shutdown \/ Exit \/ Killed

(* The poller's rounds go on, and time; a read of the limits tried for ever
   succeeds at some time; a request gets an answer or loses its connection, which
   pings find out, and an answer ends. *)
Fairness ==
  /\ WF_vars(pollAccountUsage) /\ WF_vars(Ages)
  /\ SF_vars(MemberLimitStatus) /\ WF_vars(readLimit)
  /\ \A m \in Members : WF_vars(Refused(m) \/ upstreamFailed(m) \/ ModifyResponse(m))
                          /\ WF_vars(Close(m))

Spec == Init /\ [][Next]_vars /\ Fairness
-----------------------------------------------------------------------------
(* An event's row is written once, although flushes of two goroutines meet at a
   shutdown and a failed one starts over; twice only when a write was stored and
   reported as failed (dbwriter.go:63, 236). *)
MeteredOnce == \A e \in Events : rows[e] <= IF e \in unheard THEN 2 ELSE 1

(* No usage disappears: what is not in the table is queued, or was dropped and counted
   as dropped; and a stop in which nothing failed or ran late leaves nothing
   behind (dbwriter.go:233-242, main.go:107-126). *)
EveryEventAccounted ==
  \A e \in 1..seq :
    \/ rows[e] > 0 \/ e \in overflowed
    \/ IF life = "gone" THEN troubled ELSE e >= head

(* A ceiling lets go: once the week has rolled over, or the limit is gone, a member
   who keeps asking is served again, though those turned away bring no reading
   and an older reading may be stored after a newer one (db.go:301-338). *)
CeilingLifts ==
  /\ <>[](life = "up" /\ ~full) \/ <>[](life = "up" /\ ~ceiling)
  /\ WF_vars(\E m \in Members : Ask(m))
  => <>[]~standing
=============================================================================
