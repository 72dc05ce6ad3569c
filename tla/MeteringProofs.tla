--------------------------- MODULE MeteringProofs ---------------------------
(***************************************************************************)
(* Proofs about Metering, for any members, answers and length of queue.    *)
(*                                                                         *)
(* None of the three invariants is inductive.  What makes them so is       *)
(* what a flush under way has done (Frontier, Written): behind its mark    *)
(* every event of its snapshot has its row, and from the mark on no event  *)
(* has one the writer was told of.  It needs the writer's lock (OneFlush), *)
(* and the snapshot never ahead of the queue (Snapshots).                  *)
(***************************************************************************)
EXTENDS Metering, FiniteSetTheorems, TLAPS

Streaming == {m \in Members : req[m] = "streaming"}

\* Every answer is numbered as an event once, or is still streaming, or carried none.
Answering == Cardinality(Streaming) + seq <= answers

OneFlush == ~(Flushing("runWriter") /\ Flushing("drain"))

Snapshot(f) ==
    LET c == flush[f] IN
    /\ 1 <= c.first /\ c.first <= head
    /\ c.first <= c.next /\ c.next <= c.last + 1 /\ c.last <= seq
    /\ c.at = "windows" => c.next = c.first
Snapshots == \A f \in Flushers : Flushing(f) => Snapshot(f)

\* An event that is yet to be written: only a write reported as failed has stored it.
Unwritten(e) == rows[e] <= IF e \in unheard THEN 1 ELSE 0
Frontier ==
    /\ \A f \in Flushers, e \in Events : Flushing(f) /\ flush[f].next <= e => Unwritten(e)
    /\ life # "gone" /\ (\A f \in Flushers : ~Flushing(f)) =>
          \A e \in Events : head <= e => Unwritten(e)

\* What a flush has passed is in the table.
Written ==
    \A f \in Flushers, e \in Events :
        Flushing(f) /\ flush[f].first <= e /\ e < flush[f].next => rows[e] > 0

\* The stop: drain runs after serving has ended, and unless something goes wrong
\* what it takes up is all there is.
Drain ==
    /\ flush["drain"].at # "off" => life = "draining"
    /\ flush["runWriter"].at # "done"
    /\ life \in {"draining", "gone"} /\ ~troubled =>
          /\ \A m \in Members : req[m] = "idle"
          /\ Flushing("drain") => flush["drain"].last = seq
          /\ flush["drain"].at = "done" => head > seq

IInv ==
    /\ TypeOK /\ Answering /\ OneFlush /\ Snapshots /\ Frontier /\ Written /\ Drain
    /\ MeteredOnce /\ EveryEventAccounted

-----------------------------------------------------------------------------
LEMMA EventsNat == MaxAnswers \in Nat /\ Events \subseteq Nat \ {0} /\ MaxPending \in Nat \ {0}
BY MeteringAssumption DEF Events

LEMMA StreamingFinite == IsFiniteSet(Streaming) /\ Cardinality(Streaming) \in Nat
<1>1. IsFiniteSet(Streaming)
  BY MeteringAssumption, FS_Subset DEF Streaming
<1> QED BY <1>1, FS_CardinalityType

LEMMA InitInv == Init => IInv
<1> SUFFICES ASSUME Init PROVE IInv
  OBVIOUS
<1> USE DEF Init
<1>1. TypeOK
  <2>1. flush \in [Flushers -> [at : {"off", "windows", "rows", "done"},
                               win : BOOLEAN \cup {None}, first : 0..MaxAnswers + 1,
                               next : 0..MaxAnswers + 1, last : 0..MaxAnswers]]
    BY EventsNat DEF Idle
  <2>2. rows \in [Events -> Nat] /\ req \in [Members -> {"idle", "sent", "resent", "streaming", "read"}]
    OBVIOUS
  <2>3. answers \in 0..MaxAnswers /\ seq \in 0..answers /\ head \in 1..seq + 1 /\ seq < head + MaxPending
    BY EventsNat
  <2> QED BY <2>1, <2>2, <2>3 DEF TypeOK
<1>2. Answering
  <2>1. Streaming = {}
    BY DEF Streaming
  <2> QED BY <2>1, FS_EmptySet DEF Answering
<1>3. \A f \in Flushers : ~Flushing(f) /\ flush[f].at = "off"
  BY DEF Flushing, Flushers, Idle
<1>4. OneFlush /\ Snapshots /\ Written /\ Drain
  BY <1>3 DEF OneFlush, Snapshots, Written, Drain, Flushers
<1>5. Frontier
  BY <1>3, EventsNat DEF Frontier, Unwritten
<1>6. MeteredOnce /\ EveryEventAccounted
  BY EventsNat DEF MeteredOnce, EveryEventAccounted
<1> QED BY <1>1, <1>2, <1>4, <1>5, <1>6 DEF IInv

\* Whatever leaves the requests, the queue, the writer and the table alone.
LEMMA Rest ==
    ASSUME IInv, TypeOK',
           UNCHANGED <<life, req, answers, head, seq, overflowed, rows, unheard, troubled>>,
           \A f \in Flushers : /\ Flushing(f)' = Flushing(f)
                               /\ flush'[f].first = flush[f].first
                               /\ flush'[f].next = flush[f].next
                               /\ flush'[f].last = flush[f].last
                               /\ flush'[f].at \in {flush[f].at, "rows"}
    PROVE  IInv'
<1> USE DEF IInv
<1>1. Answering'
  <2>1. Streaming' = Streaming
    BY DEF Streaming
  <2> QED BY <2>1 DEF Answering
<1>2. OneFlush' /\ Snapshots' /\ Written'
  BY DEF OneFlush, Snapshots, Snapshot, Written, Flushers
<1>3. Frontier'
  BY DEF Frontier, Unwritten
<1>4. Drain'
  BY DEF Drain, Flushers, Flushing
<1>5. MeteredOnce' /\ EveryEventAccounted'
  BY DEF MeteredOnce, EveryEventAccounted
<1> QED BY <1>1, <1>2, <1>3, <1>4, <1>5

\* The quota a request is judged on has no part in what is metered.
LEMMA QuotaStep ==
    ASSUME IInv,
           \/ ChangeCeiling \/ Uses \/ pollAccountUsage
           \/ MemberLimitStatus \/ readLimit \/ readLimitFails \/ Ages
    PROVE  IInv'
<1> USE DEF queue, table
<1>1. UNCHANGED <<life, req, answers, window, head, seq, overflowed, flush, rows, unheard, troubled>>
  BY DEF ChangeCeiling, Uses, pollAccountUsage, MemberLimitStatus, readLimit,
         readLimitFails, Ages
<1>2. /\ ceiling' \in BOOLEAN /\ full' \in BOOLEAN /\ stored' \in BOOLEAN \cup {None}
      /\ standing' \in BOOLEAN /\ stale' \in BOOLEAN
      /\ reading' \in {"no", "begun", "over", "under"}
  BY DEF IInv, TypeOK, ChangeCeiling, SetLimit, DeleteLimit, Uses, pollAccountUsage,
         MemberLimitStatus, readLimit, readLimitFails, Ages
<1>3. TypeOK'
  BY <1>1, <1>2 DEF IInv, TypeOK
<1>4. \A f \in Flushers : Flushing(f)' = Flushing(f)
  BY <1>1 DEF Flushing
<1> QED BY <1>1, <1>3, <1>4, Rest DEF Flushers

-----------------------------------------------------------------------------
\* A request moves, and no event is queued.
LEMMA RequestMoves ==
    ASSUME IInv, TypeOK', Answering',
           UNCHANGED <<life, head, seq, overflowed, flush, rows, unheard, troubled>>,
           life \in {"draining", "gone"} /\ ~troubled => \A m \in Members : req'[m] = "idle"
    PROVE  IInv'
<1> USE DEF IInv
<1>1. OneFlush' /\ Snapshots' /\ Written' /\ Frontier'
  BY DEF OneFlush, Snapshots, Snapshot, Written, Frontier, Unwritten, Flushing
<1>2. Drain'
  BY DEF Drain, Flushing
<1>3. MeteredOnce' /\ EveryEventAccounted'
  BY DEF MeteredOnce, EveryEventAccounted
<1> QED BY <1>1, <1>2, <1>3

LEMMA SendStep ==
    ASSUME IInv, NEW m \in Members, Ask(m) \/ Refused(m) \/ upstreamFailed(m)
    PROVE  IInv'
<1> USE DEF queue, table, quota, Moves
<1>1. UNCHANGED <<life, answers, window, head, seq, overflowed, flush, rows, unheard, troubled>>
  BY DEF Ask, Refused, upstreamFailed
<1>2. /\ req' \in [Members -> {"idle", "sent", "resent", "streaming", "read"}]
      /\ \A n \in Members : req'[n] = "streaming" <=> req[n] = "streaming"
  BY DEF IInv, TypeOK, Ask, Refused, upstreamFailed
<1>3. /\ UNCHANGED <<ceiling, full, stored, standing, stale>>
      /\ reading' \in {"no", "begun", "over", "under"}
  BY DEF IInv, TypeOK, Ask, Status, Refused, upstreamFailed
<1>4. TypeOK'
  BY <1>1, <1>2, <1>3 DEF IInv, TypeOK
<1>5. Answering'
  <2>1. Streaming' = Streaming
    BY <1>2 DEF Streaming
  <2> QED BY <1>1, <2>1 DEF IInv, Answering
<1>6. life \in {"draining", "gone"} /\ ~troubled => \A n \in Members : req'[n] = "idle"
  BY DEF IInv, TypeOK, Drain, Ask, Refused, upstreamFailed
<1> QED BY <1>1, <1>4, <1>5, <1>6, RequestMoves

LEMMA AnswerStep ==
    ASSUME IInv, NEW m \in Members, ModifyResponse(m)
    PROVE  IInv'
<1> USE DEF queue, table, quota, Moves
<1>1. /\ UNCHANGED <<life, quota, head, seq, overflowed, flush, rows, unheard, troubled>>
      /\ answers' = answers + 1 /\ answers < MaxAnswers
      /\ window' \in BOOLEAN \cup {None}
      /\ req[m] \in {"sent", "resent"} /\ req' = [req EXCEPT ![m] = "streaming"]
  BY DEF IInv, TypeOK, ModifyResponse
<1>2. TypeOK'
  <2>1. answers' \in 0..MaxAnswers /\ seq' \in 0..answers'
    BY <1>1, EventsNat DEF IInv, TypeOK
  <2>2. req' \in [Members -> {"idle", "sent", "resent", "streaming", "read"}]
    BY <1>1 DEF IInv, TypeOK
  <2> QED BY <1>1, <2>1, <2>2 DEF IInv, TypeOK
<1>3. Answering'
  <2>1. Streaming' = Streaming \cup {m} /\ m \notin Streaming
    BY <1>1 DEF IInv, TypeOK, Streaming
  <2>2. Cardinality(Streaming') = Cardinality(Streaming) + 1
    BY <2>1, StreamingFinite, FS_AddElement
  <2> QED BY <1>1, <2>2, StreamingFinite, EventsNat DEF IInv, TypeOK, Answering
<1>4. life \in {"draining", "gone"} /\ ~troubled => \A n \in Members : req'[n] = "idle"
  BY <1>1 DEF IInv, Drain
<1> QED BY <1>1, <1>2, <1>3, <1>4, RequestMoves

\* An answer is metered: its event is queued, and a full queue loses its oldest.
LEMMA EmitStep ==
    ASSUME IInv, NEW m \in Members, NEW at \in {"idle", "read"},
           req[m] = "streaming", Moves(m, at), emit,
           UNCHANGED <<life, quota, answers, window, flush, table, troubled>>
    PROVE  IInv'
<1> USE DEF IInv, table, quota
<1>1. req' = [req EXCEPT ![m] = at] /\ req' \in [Members -> {"idle", "sent", "resent", "streaming", "read"}]
  BY DEF Moves, TypeOK
<1>2. Streaming' = Streaming \ {m} /\ m \in Streaming
  BY <1>1 DEF Streaming, TypeOK
<1>3. Cardinality(Streaming') = Cardinality(Streaming) - 1 /\ Cardinality(Streaming) \in Nat
      /\ Cardinality(Streaming') \in Nat
  <2>1. Cardinality(Streaming') = Cardinality(Streaming) - 1
    BY <1>2, StreamingFinite, FS_RemoveElement
  <2>2. IsFiniteSet(Streaming')
    BY <1>2, StreamingFinite, FS_RemoveElement
  <2> QED BY <2>1, <2>2, StreamingFinite, FS_CardinalityType
<1>4. /\ seq \in Nat /\ head \in Nat /\ answers \in Nat
      /\ 1 <= head /\ head <= seq + 1 /\ seq < head + MaxPending /\ seq <= answers
  BY EventsNat DEF TypeOK
<1>5. /\ seq' \in {seq, seq + 1} /\ head' \in {head, head + 1}
      /\ head' <= seq' + 1 /\ seq' < head' + MaxPending
      /\ overflowed \subseteq overflowed' /\ overflowed' \subseteq 1..seq'
      /\ head' = head + 1 => head \in overflowed'
  <2>1. CASE UNCHANGED <<head, seq, overflowed>>
    <3>1. overflowed \subseteq 1..seq /\ head' # head + 1
      BY <2>1, <1>4 DEF TypeOK
    <3> QED BY <2>1, <3>1, <1>4
  <2>2. CASE event
    <3>1. seq' = seq + 1 /\ overflowed \subseteq 1..seq /\ MaxPending \in Nat \ {0}
      BY <2>2, EventsNat DEF event, TypeOK
    <3>2. CASE seq + 1 - head >= MaxPending
      <4>1. head' = head + 1 /\ overflowed' = overflowed \cup {head}
        BY <3>2, <2>2 DEF event
      <4>2. overflowed' \subseteq 1..seq'
        BY <3>1, <4>1, <1>4
      <4>3. head' <= seq' + 1 /\ seq' < head' + MaxPending
        BY <3>1, <4>1, <1>4
      <4> QED BY <3>1, <4>1, <4>2, <4>3
    <3>3. CASE ~(seq + 1 - head >= MaxPending)
      <4>1. head' = head /\ overflowed' = overflowed
        BY <3>3, <2>2 DEF event
      <4>2. overflowed' \subseteq 1..seq' /\ ~(head' = head + 1)
        BY <3>1, <4>1, <1>4
      <4>3. head' <= seq' + 1 /\ seq' < head' + MaxPending
        BY <3>1, <3>3, <4>1, <1>4
      <4> QED BY <3>1, <4>1, <4>2, <4>3
    <3> QED BY <3>2, <3>3
  <2> QED BY <2>1, <2>2 DEF emit
<1>6. Answering' /\ seq' <= answers
  BY <1>3, <1>4, <1>5 DEF Answering
<1>7. TypeOK'
  <2>1. /\ seq' \in 0..answers' /\ head' \in 1..seq' + 1
    <3>1. answers' = answers /\ seq' \in Nat /\ head' \in Nat /\ 1 <= head'
      BY <1>4, <1>5
    <3>2. seq' <= answers /\ head' <= seq' + 1
      BY <1>5, <1>6
    <3>3. seq' \in 0..answers
      BY <3>1, <3>2, <1>4
    <3>4. head' \in 1..seq' + 1
      <4>1. \A a, b \in Nat : 1 <= a /\ a <= b + 1 => a \in 1..b + 1
        OBVIOUS
      <4> QED BY <3>1, <3>2, <4>1
    <3> QED BY <3>1, <3>3, <3>4
  <2>2. unheard' \subseteq 1..seq'
    BY <1>4, <1>5 DEF TypeOK
  <2>3. /\ life' \in {"up", "stopping", "draining", "gone"}
        /\ ceiling' \in BOOLEAN /\ full' \in BOOLEAN /\ stored' \in BOOLEAN \cup {None}
        /\ standing' \in BOOLEAN /\ stale' \in BOOLEAN
        /\ reading' \in {"no", "begun", "over", "under"}
        /\ answers' \in 0..MaxAnswers /\ window' \in BOOLEAN \cup {None}
    BY DEF TypeOK
  <2>4. /\ flush' \in [Flushers -> [at : {"off", "windows", "rows", "done"},
                             win : BOOLEAN \cup {None}, first : 0..MaxAnswers + 1,
                             next : 0..MaxAnswers + 1, last : 0..MaxAnswers]]
        /\ rows' \in [Events -> Nat] /\ troubled' \in BOOLEAN
    BY DEF TypeOK
  <2>5. overflowed' \subseteq 1..seq' /\ seq' < head' + MaxPending
    BY <1>5
  <2> HIDE DEF IInv, table, quota
  <2> QED BY <1>1, <2>1, <2>2, <2>3, <2>4, <2>5 DEF TypeOK
<1>8. OneFlush' /\ Written'
  BY DEF OneFlush, Written, Flushing
<1>9. Snapshots'
  <2> SUFFICES ASSUME NEW f \in Flushers, Flushing(f)' PROVE Snapshot(f)'
    BY DEF Snapshots
  <2>1. Snapshot(f)
    BY DEF Snapshots, Flushing
  <2>2. flush[f].first \in Nat /\ flush[f].last \in Nat
    BY EventsNat DEF TypeOK
  <2> QED BY <2>1, <2>2, <1>4, <1>5 DEF Snapshot
<1>10. Frontier'
  <2>1. \A e \in Events : head' <= e => head <= e
    BY <1>4, <1>5, EventsNat
  <2> QED BY <2>1 DEF Frontier, Unwritten, Flushing
<1>11. Drain'
  <2>1. ~(life \in {"draining", "gone"} /\ ~troubled)
    BY DEF Drain
  <2> QED BY <2>1 DEF Drain
<1>12. MeteredOnce'
  BY DEF MeteredOnce
<1>13. EveryEventAccounted'
  <2> SUFFICES ASSUME NEW e \in 1..seq'
               PROVE  rows[e] > 0 \/ e \in overflowed'
                        \/ IF life = "gone" THEN troubled ELSE e >= head'
    BY DEF EveryEventAccounted
  <2>1. CASE life = "gone"
    BY <2>1 DEF Drain
  <2>2. CASE life # "gone" /\ e <= seq
    <3>1. rows[e] > 0 \/ e \in overflowed \/ e >= head
      BY <2>2, <1>4 DEF EveryEventAccounted
    <3> QED BY <3>1, <2>2, <1>4, <1>5
  <2>3. CASE life # "gone" /\ e > seq
    BY <2>3, <1>4, <1>5
  <2> QED BY <2>1, <2>2, <2>3, <1>4, <1>5
<1> QED BY <1>6, <1>7, <1>8, <1>9, <1>10, <1>11, <1>12, <1>13

LEMMA EndStep ==
    ASSUME IInv, NEW m \in Members, Read(m) \/ Close(m)
    PROVE  IInv'
<1>1. CASE Read(m)
  BY <1>1, EmitStep DEF Read
<1>2. CASE Close(m) /\ req[m] = "streaming"
  BY <1>2, EmitStep DEF Close
<1>3. CASE Close(m) /\ req[m] = "read"
  <2> USE DEF queue, table, quota
  <2>1. /\ UNCHANGED <<life, quota, answers, window, head, seq, overflowed, flush, rows,
                       unheard, troubled>>
        /\ req' = [req EXCEPT ![m] = "idle"]
    BY <1>3 DEF Close, Moves
  <2>2. TypeOK'
    BY <2>1 DEF IInv, TypeOK
  <2>3. Answering'
    <3>1. Streaming' = Streaming
      BY <1>3, <2>1 DEF IInv, TypeOK, Streaming
    <3> QED BY <2>1, <3>1 DEF IInv, Answering
  <2>4. life \in {"draining", "gone"} /\ ~troubled => \A n \in Members : req'[n] = "idle"
    BY <1>3, <2>1 DEF IInv, Drain
  <2> QED BY <2>1, <2>2, <2>3, <2>4, RequestMoves
<1> QED BY <1>1, <1>2, <1>3 DEF Close

-----------------------------------------------------------------------------
LEMMA FlushTypes ==
    ASSUME IInv, NEW f \in Flushers
    PROVE  /\ flush[f].first \in Nat /\ flush[f].next \in Nat /\ flush[f].last \in Nat
           /\ flush[f].at \in {"off", "windows", "rows", "done"}
           /\ flush[f].win \in BOOLEAN \cup {None}
           /\ seq \in Nat /\ head \in Nat /\ head >= 1 /\ head <= seq + 1
           /\ seq <= MaxAnswers /\ answers \in Nat /\ answers <= MaxAnswers
BY EventsNat DEF IInv, TypeOK

LEMMA FlushStartStep ==
    ASSUME IInv, NEW f \in Flushers, FlushStart(f)
    PROVE  IInv'
<1> USE DEF IInv, queue, table, quota
<1>1. /\ UNCHANGED <<life, quota, req, answers, queue, rows, unheard, troubled>>
      /\ flush' = [flush EXCEPT ![f] = [at |-> "windows", win |-> window, first |-> head,
                                        next |-> head, last |-> seq]]
      /\ \A g \in Flushers : ~Flushing(g)
      /\ flush[f].at = "off" /\ life # "gone" /\ (f = "drain" => life = "draining")
  BY DEF FlushStart, FlushFrom, Flushers
<1>2. flush'[f] = [at |-> "windows", win |-> window, first |-> head, next |-> head, last |-> seq]
      /\ \A g \in Flushers \ {f} : flush'[g] = flush[g]
  BY <1>1 DEF TypeOK
<1>3. \A g \in Flushers : Flushing(g)' <=> g = f
  BY <1>1, <1>2 DEF Flushing
<1>4. TypeOK'
  <2>1. head \in 0..MaxAnswers + 1 /\ seq \in 0..MaxAnswers
    BY FlushTypes, EventsNat
  <2>2. flush' \in [Flushers -> [at : {"off", "windows", "rows", "done"},
                               win : BOOLEAN \cup {None}, first : 0..MaxAnswers + 1,
                               next : 0..MaxAnswers + 1, last : 0..MaxAnswers]]
    BY <1>1, <2>1 DEF TypeOK
  <2> QED BY <1>1, <2>2 DEF TypeOK
<1>5. Answering'
  <2>1. Streaming' = Streaming
    BY <1>1 DEF Streaming
  <2> QED BY <1>1, <2>1 DEF Answering
<1>6. OneFlush'
  BY <1>3 DEF OneFlush, Flushers
<1>7. Snapshots'
  BY <1>1, <1>2, <1>3, FlushTypes DEF Snapshots, Snapshot
<1>8. Frontier'
  BY <1>1, <1>2, <1>3 DEF Frontier, Unwritten
<1>9. Written'
  <2>1. \A e \in Events : ~(head <= e /\ e < head)
    BY FlushTypes, EventsNat
  <2> QED BY <1>2, <1>3, <2>1 DEF Written
<1>10. Drain'
  BY <1>1, <1>2, <1>3 DEF Drain, Flushers
<1>11. MeteredOnce' /\ EveryEventAccounted'
  BY <1>1 DEF MeteredOnce, EveryEventAccounted
<1> QED BY <1>4, <1>5, <1>6, <1>7, <1>8, <1>9, <1>10, <1>11

LEMMA WindowsStep ==
    ASSUME IInv, NEW f \in Flushers, RecordWindows(f)
    PROVE  IInv'
<1> USE DEF queue, table
<1>1. /\ UNCHANGED <<life, ceiling, full, standing, stale, reading, req, answers, head, seq,
                     overflowed, rows, unheard, troubled>>
      /\ flush' = [flush EXCEPT ![f].at = "rows"] /\ flush[f].at = "windows"
      /\ stored' \in BOOLEAN \cup {None} /\ window' \in BOOLEAN \cup {None}
  BY FlushTypes DEF IInv, TypeOK, RecordWindows
<1>2. flush' \in [Flushers -> [at : {"off", "windows", "rows", "done"},
                               win : BOOLEAN \cup {None}, first : 0..MaxAnswers + 1,
                               next : 0..MaxAnswers + 1, last : 0..MaxAnswers]]
  BY <1>1 DEF IInv, TypeOK
<1>3. TypeOK'
  BY <1>1, <1>2 DEF IInv, TypeOK
<1>4. \A g \in Flushers : /\ Flushing(g)' = Flushing(g)
                          /\ flush'[g].first = flush[g].first
                          /\ flush'[g].next = flush[g].next
                          /\ flush'[g].last = flush[g].last
                          /\ flush'[g].at \in {flush[g].at, "rows"}
  BY <1>1 DEF IInv, TypeOK, Flushing
<1> QED BY <1>1, <1>3, <1>4, Rest

\* A flush ends: what it has written leaves the queue, whatever it did last.
LEMMA FlushEndsStep ==
    ASSUME IInv, NEW f \in Flushers, Flushing(f), FlushEnds(f, flush[f].next - 1),
           UNCHANGED <<life, quota, req, answers>>,
           rows' \in [Events -> Nat], unheard' \subseteq 1..seq,
           troubled' \in BOOLEAN, troubled => troubled',
           \A e \in Events : rows'[e] >= rows[e],
           MeteredOnce',
           \A e \in Events : flush[f].next <= e => Unwritten(e)',
           f = "drain" /\ ~troubled' => flush[f].next = flush[f].last + 1
    PROVE  IInv'
<1> USE DEF IInv, quota
<1> DEFINE to == flush[f].next - 1
<1>1. /\ head' = IF head <= to THEN to + 1 ELSE head
      /\ flush' = [flush EXCEPT ![f] = IF f = "drain" THEN [Idle EXCEPT !.at = "done"] ELSE Idle]
      /\ UNCHANGED <<window, seq, overflowed>>
  BY DEF FlushEnds, FlushEndsAfter, Removes
<1>2. Snapshot(f) /\ to \in Nat /\ to <= seq /\ flush[f].first <= head
      /\ to + 1 = flush[f].next
  <2>1. Snapshot(f)
    BY DEF Snapshots
  <2> QED BY <2>1, FlushTypes DEF Snapshot
<1>3. head' \in Nat /\ head' >= head /\ head' >= to + 1 /\ head' <= seq + 1
      /\ head' \in {head, to + 1}
  BY <1>1, <1>2, FlushTypes
<1>4. \A g \in Flushers : ~Flushing(g)'
  <2>1. \A g \in Flushers : g # f => ~Flushing(g) /\ flush'[g] = flush[g]
    BY <1>1 DEF OneFlush, Flushers, TypeOK
  <2>2. ~Flushing(f)'
    BY <1>1 DEF Flushing, Idle, TypeOK
  <2> QED BY <2>1, <2>2 DEF Flushing
<1>5. TypeOK'
  <2>1. Idle \in [at : {"off", "windows", "rows", "done"}, win : BOOLEAN \cup {None},
                 first : 0..MaxAnswers + 1, next : 0..MaxAnswers + 1, last : 0..MaxAnswers]
        /\ [Idle EXCEPT !.at = "done"] \in
               [at : {"off", "windows", "rows", "done"}, win : BOOLEAN \cup {None},
                first : 0..MaxAnswers + 1, next : 0..MaxAnswers + 1, last : 0..MaxAnswers]
    BY EventsNat DEF Idle
  <2>2. flush' \in [Flushers -> [at : {"off", "windows", "rows", "done"},
                               win : BOOLEAN \cup {None}, first : 0..MaxAnswers + 1,
                               next : 0..MaxAnswers + 1, last : 0..MaxAnswers]]
    BY <1>1, <2>1 DEF TypeOK
  <2>3. head' \in 1..seq' + 1 /\ seq' < head' + MaxPending
    <3>1. seq < head + MaxPending /\ head >= 1
      BY FlushTypes DEF TypeOK
    <3> QED BY <1>1, <1>3, <3>1, FlushTypes, EventsNat
  <2> QED BY <1>1, <2>2, <2>3 DEF TypeOK
<1>6. Answering'
  <2>1. Streaming' = Streaming
    BY DEF Streaming
  <2> QED BY <1>1, <2>1 DEF Answering
<1>7. OneFlush' /\ Snapshots' /\ Written'
  BY <1>4 DEF OneFlush, Snapshots, Written, Flushers
<1>8. Frontier'
  <2>1. \A e \in Events : head' <= e => flush[f].next <= e
    BY <1>2, <1>3, EventsNat
  <2> QED BY <1>4, <2>1 DEF Frontier
<1>9. Drain'
  <2>1. CASE f = "drain"
    <3>1. flush'["drain"] = [Idle EXCEPT !.at = "done"] /\ flush'["runWriter"] = flush["runWriter"]
      BY <1>1, <2>1 DEF TypeOK, Flushers
    <3>2. life = "draining"
      BY <2>1 DEF Drain, Flushing
    <3>3. ~troubled' => to = flush[f].last /\ ~troubled
      BY <2>1, FlushTypes
    <3>4. ~troubled' => head' > seq
      BY <2>1, <3>2, <3>3, <1>3, FlushTypes DEF Drain
    <3> QED BY <1>1, <1>4, <3>1, <3>2, <3>3, <3>4 DEF Drain, Idle, Flushers
  <2>2. CASE f = "runWriter"
    <3>1. flush'["drain"] = flush["drain"] /\ flush'["runWriter"] = Idle
      BY <1>1, <2>2 DEF TypeOK, Flushers
    <3>2. head > seq => head' > seq
      BY <1>3, FlushTypes
    <3> QED BY <1>1, <1>4, <3>1, <3>2 DEF Drain, Idle, Flushers
  <2> QED BY <2>1, <2>2 DEF Flushers
<1>10. EveryEventAccounted'
  <2> SUFFICES ASSUME NEW e \in 1..seq
               PROVE  rows'[e] > 0 \/ e \in overflowed
                        \/ IF life = "gone" THEN troubled' ELSE e >= head'
    BY <1>1 DEF EveryEventAccounted
  <2>1. e \in Events /\ e \in Nat
    BY FlushTypes, EventsNat DEF Events
  <2>2. rows'[e] >= rows[e] /\ rows[e] \in Nat /\ rows'[e] \in Nat
    BY <2>1 DEF TypeOK
  <2>3. CASE e < head \/ life = "gone"
    <3>1. rows[e] > 0 \/ e \in overflowed \/ (life = "gone" /\ troubled)
      BY <2>1, <2>3, FlushTypes DEF EveryEventAccounted
    <3> QED BY <3>1, <2>2
  <2>4. CASE head <= e /\ e < head' /\ life # "gone"
    <3>1. flush[f].first <= e /\ e < flush[f].next
      BY <2>1, <2>4, <1>2, <1>3, FlushTypes
    <3>2. rows[e] > 0
      BY <3>1, <2>1 DEF Written
    <3> QED BY <3>2, <2>2
  <2>5. CASE e >= head' /\ life # "gone"
    BY <2>5
  <2> QED BY <2>1, <2>3, <2>4, <2>5, <1>3, FlushTypes
<1> QED BY <1>5, <1>6, <1>7, <1>8, <1>9, <1>10

LEMMA StopsStep ==
    ASSUME IInv, NEW f \in Flushers, FlushStops(f) \/ FlushDone(f)
    PROVE  IInv'
<1> USE DEF IInv, table, quota
<1>1. /\ Flushing(f) /\ UNCHANGED <<life, quota, req, answers, rows, unheard>>
      /\ troubled' \in BOOLEAN /\ (troubled => troubled')
  BY DEF FlushStops, FlushDone, TypeOK, Flushing
<1>2. Snapshot(f)
  BY <1>1 DEF Snapshots
<1>3. FlushEnds(f, flush[f].next - 1)
  <2>1. CASE FlushStops(f)
    BY <2>1 DEF FlushStops
  <2>2. CASE FlushDone(f)
    <3>1. flush[f].last = flush[f].next - 1
      BY <2>2, <1>2, FlushTypes DEF FlushDone, Snapshot
    <3> QED BY <2>2, <3>1 DEF FlushDone
  <2> QED BY <2>1, <2>2
<1>4. f = "drain" /\ ~troubled' => flush[f].next = flush[f].last + 1
  <2>1. CASE FlushStops(f)
    BY <2>1 DEF FlushStops
  <2>2. CASE FlushDone(f)
    BY <2>2, <1>2, FlushTypes DEF FlushDone, Snapshot
  <2> QED BY <2>1, <2>2
<1>5. rows' \in [Events -> Nat] /\ unheard' \subseteq 1..seq /\ MeteredOnce'
  BY <1>1 DEF TypeOK, MeteredOnce
<1>6. \A e \in Events : rows'[e] >= rows[e]
  BY <1>1 DEF TypeOK
<1>7. \A e \in Events : flush[f].next <= e => Unwritten(e)'
  BY <1>1 DEF Frontier, Unwritten
<1> QED BY <1>1, <1>3, <1>4, <1>5, <1>6, <1>7, FlushEndsStep

\* The row of the event at the flush's mark.
LEMMA UsageStep ==
    ASSUME IInv, NEW f \in Flushers, RecordUsage(f)
    PROVE  IInv'
<1> USE DEF IInv, table, quota, queue
<1> DEFINE e == flush[f].next
<1>1. /\ Flushing(f) /\ flush[f].at = "rows" /\ e <= flush[f].last
      /\ UNCHANGED <<life, quota, req, answers>>
  BY DEF RecordUsage, Flushing
<1>2. Snapshot(f) /\ e \in 1..seq /\ e \in Events /\ e \in Nat
  <2>1. Snapshot(f)
    BY <1>1 DEF Snapshots
  <2> QED BY <1>1, <2>1, FlushTypes, EventsNat DEF Snapshot, Events
<1>3. rows \in [Events -> Nat] /\ unheard \subseteq 1..seq
      /\ rows[e] <= IF e \in unheard THEN 1 ELSE 0
  BY <1>1, <1>2 DEF TypeOK, Frontier, Unwritten
<1>4. CASE /\ rows' = [rows EXCEPT ![e] = @ + 1]
           /\ flush' = [flush EXCEPT ![f].next = e + 1]
           /\ UNCHANGED <<queue, unheard, troubled>>
  <2>1. TypeOK'
    <3>1. rows' \in [Events -> Nat]
      BY <1>2, <1>3, <1>4
    <3>2. e + 1 \in 0..MaxAnswers + 1
      BY <1>2, FlushTypes, EventsNat
    <3>3. flush' \in [Flushers -> [at : {"off", "windows", "rows", "done"},
                               win : BOOLEAN \cup {None}, first : 0..MaxAnswers + 1,
                               next : 0..MaxAnswers + 1, last : 0..MaxAnswers]]
      BY <1>4, <3>2 DEF TypeOK
    <3> QED BY <1>1, <1>4, <3>1, <3>3 DEF TypeOK
  <2>2. Answering'
    <3>1. Streaming' = Streaming
      BY <1>1 DEF Streaming
    <3> QED BY <1>1, <1>4, <3>1 DEF Answering
  <2>3. /\ \A g \in Flushers : /\ Flushing(g)' = Flushing(g)
                               /\ flush'[g].at = flush[g].at
                               /\ flush'[g].first = flush[g].first
                               /\ flush'[g].last = flush[g].last
                               /\ g # f => flush'[g].next = flush[g].next
      /\ flush'[f].next = e + 1
    BY <1>4 DEF TypeOK, Flushing
  <2>4. \A g \in Flushers : Flushing(g) => g = f
    BY <1>1 DEF OneFlush, Flushers
  <2>5. OneFlush'
    BY <2>3 DEF OneFlush, Flushers
  <2>6. Snapshots'
    <3>1. Snapshot(f)'
      BY <1>1, <1>2, <1>4, <2>3, FlushTypes DEF Snapshot
    <3> QED BY <2>3, <2>4, <3>1 DEF Snapshots
  <2>7. Frontier'
    <3>1. \A x \in Events : e + 1 <= x => Unwritten(x)'
      <4> SUFFICES ASSUME NEW x \in Events, e + 1 <= x PROVE Unwritten(x)'
        OBVIOUS
      <4>1. x # e /\ e <= x
        BY <1>2, EventsNat
      <4>2. Unwritten(x)
        BY <1>1, <4>1 DEF Frontier
      <4> QED BY <1>3, <1>4, <4>1, <4>2 DEF Unwritten
    <3>2. Flushing(f)'
      BY <1>1, <2>3
    <3> QED BY <2>3, <2>4, <3>1, <3>2 DEF Frontier
  <2>8. Written'
    <3> SUFFICES ASSUME NEW x \in Events, flush[f].first <= x, x < e + 1 PROVE rows'[x] > 0
      BY <2>3, <2>4 DEF Written
    <3>1. CASE x = e
      BY <1>3, <1>4, <3>1
    <3>2. CASE x < e
      <4>1. rows[x] > 0
        BY <1>1, <3>2 DEF Written
      <4> QED BY <1>2, <1>3, <1>4, <3>2, <4>1, EventsNat
    <3> QED BY <3>1, <3>2, <1>2, EventsNat
  <2>9. Drain'
    BY <1>1, <1>4, <2>3 DEF Drain, Flushers
  <2>10. MeteredOnce'
    BY <1>3, <1>4 DEF MeteredOnce
  <2>11. EveryEventAccounted'
    <3>1. \A x \in 1..seq : rows[x] > 0 => rows'[x] > 0
      <4>1. 1..seq \subseteq Events
        BY FlushTypes, EventsNat DEF Events
      <4> QED BY <1>3, <1>4, <4>1
    <3> QED BY <1>1, <1>4, <3>1 DEF EveryEventAccounted
  <2> QED BY <2>1, <2>2, <2>5, <2>6, <2>7, <2>8, <2>9, <2>10, <2>11
<1>5. CASE /\ FlushEnds(f, e - 1)
           /\ troubled' = (troubled \/ f = "drain")
           /\ \/ UNCHANGED table
              \/ /\ e \notin unheard
                 /\ rows' = [rows EXCEPT ![e] = @ + 1] /\ unheard' = unheard \cup {e}
  <2>1. rows' \in [Events -> Nat] /\ unheard' \subseteq 1..seq
    BY <1>2, <1>3, <1>5
  <2>2. \A x \in Events : rows'[x] >= rows[x]
    BY <1>2, <1>3, <1>5
  <2>3. MeteredOnce'
    BY <1>2, <1>3, <1>5 DEF MeteredOnce
  <2>4. \A x \in Events : e <= x => Unwritten(x)'
    BY <1>1, <1>2, <1>3, <1>5 DEF Frontier, Unwritten
  <2>5. troubled' \in BOOLEAN /\ (troubled => troubled') /\ ~(f = "drain" /\ ~troubled')
    BY <1>5 DEF TypeOK
  <2> QED BY <1>1, <1>5, <2>1, <2>2, <2>3, <2>4, <2>5, FlushEndsStep
<1> QED BY <1>4, <1>5 DEF RecordUsage

-----------------------------------------------------------------------------
\* The process stops serving, drains and is over.
LEMMA StoppingStep ==
    ASSUME IInv, SIGTERM \/ Shutdown
    PROVE  IInv'
<1> USE DEF IInv, quota, queue, table
<1>1. /\ UNCHANGED <<req, answers, head, seq, overflowed, window, flush, rows, unheard>>
      /\ life \in {"up", "stopping"} /\ life' \in {"stopping", "draining"}
  BY DEF SIGTERM, Shutdown
<1>2. TypeOK'
  <2>1. /\ ceiling' \in BOOLEAN /\ full' \in BOOLEAN /\ stored' \in BOOLEAN \cup {None}
        /\ standing' \in BOOLEAN /\ stale' \in BOOLEAN
        /\ reading' \in {"no", "begun", "over", "under"}
    BY DEF TypeOK, SIGTERM, Shutdown
  <2>2. troubled' \in BOOLEAN
    <3>1. CASE SIGTERM
      BY <3>1 DEF TypeOK, SIGTERM
    <3>2. CASE Shutdown
      BY <3>2, Zenon DEF Shutdown
    <3> QED BY <3>1, <3>2
  <2>3. /\ req' \in [Members -> {"idle", "sent", "resent", "streaming", "read"}]
        /\ answers' \in 0..MaxAnswers /\ window' \in BOOLEAN \cup {None}
        /\ seq' \in 0..answers' /\ head' \in 1..seq' + 1 /\ seq' < head' + MaxPending
        /\ rows' \in [Events -> Nat]
        /\ overflowed' \subseteq 1..seq' /\ unheard' \subseteq 1..seq'
    BY <1>1 DEF TypeOK
  <2>4. flush' \in [Flushers -> [at : {"off", "windows", "rows", "done"},
                             win : BOOLEAN \cup {None}, first : 0..MaxAnswers + 1,
                             next : 0..MaxAnswers + 1, last : 0..MaxAnswers]]
    BY <1>1 DEF TypeOK
  <2> HIDE DEF IInv, quota, queue, table
  <2> QED BY <1>1, <2>1, <2>2, <2>3, <2>4 DEF TypeOK
<1>3. Answering'
  <2>1. Streaming' = Streaming
    BY <1>1 DEF Streaming
  <2> QED BY <1>1, <2>1 DEF Answering
<1>4. OneFlush' /\ Snapshots' /\ Written' /\ Frontier'
  BY <1>1 DEF OneFlush, Snapshots, Snapshot, Written, Frontier, Unwritten, Flushing
<1>5. Drain'
  <2>1. flush["drain"].at = "off"
    BY <1>1 DEF Drain
  <2>2. life' = "draining" /\ ~troubled' => \A m \in Members : req'[m] = "idle"
    BY <1>1 DEF SIGTERM, Shutdown
  <2> QED BY <1>1, <2>1, <2>2 DEF Drain, Flushing
<1>6. MeteredOnce' /\ EveryEventAccounted'
  BY <1>1 DEF MeteredOnce, EveryEventAccounted
<1> QED BY <1>2, <1>3, <1>4, <1>5, <1>6

LEMMA GoneStep ==
    ASSUME IInv, Exit \/ Killed
    PROVE  IInv'
<1> USE DEF IInv, quota, queue, table
<1>1. /\ life # "gone" /\ life' = "gone" /\ req' = [m \in Members |-> "idle"]
      /\ flush' = [f \in Flushers |-> Idle]
      /\ window' = None /\ standing' = FALSE /\ stale' = TRUE /\ reading' = "no"
      /\ UNCHANGED <<ceiling, full, stored, answers, head, seq, overflowed, rows, unheard>>
      /\ troubled' \in BOOLEAN
      /\ ~troubled' => ~troubled /\ life = "draining" /\ flush["drain"].at = "done"
  BY DEF Exit, Killed, Gone, TypeOK
<1>2. TypeOK'
  <2>1. Idle \in [at : {"off", "windows", "rows", "done"}, win : BOOLEAN \cup {None},
                 first : 0..MaxAnswers + 1, next : 0..MaxAnswers + 1, last : 0..MaxAnswers]
    BY EventsNat DEF Idle
  <2>2. flush' \in [Flushers -> [at : {"off", "windows", "rows", "done"},
                               win : BOOLEAN \cup {None}, first : 0..MaxAnswers + 1,
                               next : 0..MaxAnswers + 1, last : 0..MaxAnswers]]
    BY <1>1, <2>1
  <2> QED BY <1>1, <2>2 DEF TypeOK
<1>3. Answering'
  <2>1. Streaming' = {}
    BY <1>1 DEF Streaming
  <2>2. Cardinality(Streaming') = 0
    BY <2>1, FS_EmptySet
  <2> QED BY <1>1, <2>2, FlushTypes DEF TypeOK, Answering
<1>4. \A f \in Flushers : ~Flushing(f)' /\ flush'[f].at = "off"
  BY <1>1 DEF Flushing, Idle
<1>5. OneFlush' /\ Snapshots' /\ Written' /\ Frontier'
  BY <1>1, <1>4 DEF OneFlush, Snapshots, Written, Frontier, Flushers
<1>6. Drain'
  BY <1>1, <1>4 DEF Drain, Flushers
<1>7. MeteredOnce'
  BY <1>1 DEF MeteredOnce
<1>8. EveryEventAccounted'
  <2>1. CASE troubled'
    BY <1>1, <2>1 DEF EveryEventAccounted
  <2>2. CASE ~troubled'
    <3>1. head > seq
      BY <1>1, <2>2 DEF Drain
    <3>2. \A e \in 1..seq : ~(e >= head)
      <4>1. "drain" \in Flushers
        BY DEF Flushers
      <4> QED BY <3>1, <4>1, FlushTypes
    <3>3. \A e \in 1..seq : rows[e] > 0 \/ e \in overflowed
      BY <1>1, <3>2 DEF EveryEventAccounted
    <3> QED BY <1>1, <3>3 DEF EveryEventAccounted
  <2> QED BY <2>1, <2>2
<1> QED BY <1>2, <1>3, <1>5, <1>6, <1>7, <1>8

LEMMA StutterStep == IInv /\ UNCHANGED vars => IInv'
<1> SUFFICES ASSUME IInv, UNCHANGED vars PROVE IInv'
  OBVIOUS
<1> USE DEF vars, quota, queue, table
<1>1. TypeOK'
  BY DEF IInv, TypeOK
<1>2. \A f \in Flushers : Flushing(f)' = Flushing(f)
  BY DEF Flushing
<1> QED BY <1>1, <1>2, Rest DEF IInv, TypeOK

LEMMA NextInv == IInv /\ [Next]_vars => IInv'
<1> SUFFICES ASSUME IInv, [Next]_vars PROVE IInv'
  OBVIOUS
<1>1. CASE \/ ChangeCeiling \/ Uses \/ pollAccountUsage
           \/ MemberLimitStatus \/ readLimit \/ readLimitFails \/ Ages
  BY <1>1, QuotaStep
<1>2. ASSUME NEW m \in Members,
             \/ Ask(m) \/ Refused(m) \/ upstreamFailed(m) \/ ModifyResponse(m)
             \/ Read(m) \/ Close(m)
      PROVE  IInv'
  BY <1>2, SendStep, AnswerStep, EndStep
<1>3. ASSUME NEW f \in Flushers,
             \/ FlushStart(f) \/ RecordWindows(f) \/ FlushStops(f)
             \/ RecordUsage(f) \/ FlushDone(f)
      PROVE  IInv'
  BY <1>3, FlushStartStep, WindowsStep, StopsStep, UsageStep
<1>4. CASE SIGTERM \/ Shutdown \/ Exit \/ Killed
  BY <1>4, StoppingStep, GoneStep
<1>5. CASE UNCHANGED vars
  BY <1>5, StutterStep
<1> QED BY <1>1, <1>2, <1>3, <1>4, <1>5 DEF Next

LEMMA InvHolds == Spec => []IInv
BY InitInv, NextInv, PTL DEF Spec
-----------------------------------------------------------------------------
\* What the gateway's metering keeps: requests, the queue between its bounds, the
\* writer's flushes and the table, whatever is asked, refused, dropped or killed.
THEOREM MeteringTypes == Spec => []TypeOK
<1>1. IInv => TypeOK
  BY DEF IInv
<1> QED BY <1>1, InvHolds, PTL

\* No usage event is written twice, whichever goroutine's flush takes it up, in
\* whatever order flushes fail, start over and meet at a shutdown, unless a write was
\* stored and reported as failed.
THEOREM UsageMeteredOnce == Spec => []MeteredOnce
<1>1. IInv => MeteredOnce
  BY DEF IInv
<1> QED BY <1>1, InvHolds, PTL

\* No usage event is lost without being counted as dropped, and a stop in which
\* nothing fails or runs late leaves none behind.
THEOREM UsageAccounted == Spec => []EveryEventAccounted
<1>1. IInv => EveryEventAccounted
  BY DEF IInv
<1> QED BY <1>1, InvHolds, PTL
=============================================================================
