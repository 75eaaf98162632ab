---------------------------- MODULE StageBatch ----------------------------
(***************************************************************************)
(* Packing a cohort of prompt chunks into one execution batch and giving   *)
(* every chunk its own rows back: model_executor/kt_stage_batch.py.        *)
(*                                                                         *)
(* A chunk carries one hidden row per token between two layer groups.  A   *)
(* row is modelled by what the properties tell apart: whose token it is    *)
(* and how many groups it went through.  The fields of the batch that are  *)
(* concatenated and sliced the same way (positions, residual, per-token    *)
(* model states) are represented by these rows.                            *)
(***************************************************************************)
EXTENDS Naturals, Sequences, SequencesExt

(* The rows of chunk c after its first n groups.                           *)
RowsOf(owner, count, n) == [i \in 1 .. count |-> [owner |-> owner, token |-> i, depth |-> n]]

(* _token_spans: a cursor that moves by the token count of every payload.  *)
Cursors(payloads) ==
    LET after[i \in 0 .. Len(payloads)] ==
            IF i = 0 THEN 0 ELSE after[i - 1] + Len(payloads[i].rows)
    IN  after
EqualSpans(payloads) ==
    LET n == Len(payloads[1].rows) IN
    [i \in DOMAIN payloads |-> <<(i - 1) * n, i * n>>]
TokenSpans(payloads) ==
    [i \in DOMAIN payloads |-> <<Cursors(payloads)[i - 1], Cursors(payloads)[i]>>]

(* _validate_payload and the cursor check of pack_stage_batches.           *)
Packable(payloads, g) == payloads # <<>> /\ \A i \in DOMAIN payloads : payloads[i].group = g

Packed(payloads) == FlattenSeq([i \in DOMAIN payloads |-> payloads[i].rows])

(* The model takes every row of the execution batch through one group.     *)
Forwarded(rows) == [i \in DOMAIN rows |-> [rows[i] EXCEPT !.depth = @ + 1]]

(* demux_stage_batch slices the rows by the spans frozen when packing and  *)
(* moves the cursor of every chunk to the next group.                      *)
Demuxed(payloads, spans, rows) ==
    [i \in DOMAIN payloads |->
        [payloads[i] EXCEPT !.rows = SubSeq(rows, spans[i][1] + 1, spans[i][2]),
                            !.group = @ + 1]]
=============================================================================
