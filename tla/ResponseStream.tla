--------------------------- MODULE ResponseStream ---------------------------
(***************************************************************************)
(* POST /v1/responses, streaming (gateway/src/handlers/responses.rs): the  *)
(* SSE bytes of the chat handler are cut into frames as they arrive, each  *)
(* frame is translated to Responses events, and the response is finalized  *)
(* at [DONE] or at the end of the bytes, whichever comes.                  *)
(*                                                                         *)
(* A frame travels in two pieces, so that the bytes of one poll may end    *)
(* inside a frame or hold several.  The text of a chunk is a token.        *)
(***************************************************************************)
EXTENDS Integers, Sequences, FiniteSets, SequencesExt

CONSTANTS
  None,
  Streams,      \* the frame sequences the chat handler writes
  MaxPieces     \* the pieces one poll may return

VARIABLES
  bytes_in,     \* pieces the chat handler has yet to write
  buf,          \* pieces received and not consumed
  st,           \* StreamState
  done,
  sent,         \* events the client has received
  seen          \* history: the frames handed to the translation

vars == <<bytes_in, buf, st, done, sent, seen>>

Pieces(frames) ==
  FlattenSeq([i \in DOMAIN frames |-> <<[frame |-> frames[i], last |-> FALSE],
                                        [frame |-> frames[i], last |-> TRUE]>>])

-----------------------------------------------------------------------------
(* StreamState; its out queue is filled by a poll and drained by the next. *)

NewState == [started |-> FALSE, text |-> << >>, finished |-> FALSE, usage |-> None,
             out |-> << >>]

Event(type, body) == [type |-> type, body |-> body]
Push(s, events) == [s EXCEPT !.out = @ \o events]

start(s) ==
  IF s.started THEN s
  ELSE Push([s EXCEPT !.started = TRUE],
            <<Event("response.created", << >>), Event("response.output_item.added", << >>),
              Event("response.content_part.added", << >>)>>)

(* Of a delta only the text is looked at. *)
handle_chunk(s, frame) ==
  LET t == [start(s) EXCEPT
              !.usage = IF frame.usage = None THEN @ ELSE frame.usage,
              !.finished = @ \/ frame.finish]
  IN IF frame.text = None THEN t
     ELSE Push([t EXCEPT !.text = Append(@, frame.text)],
               <<Event("response.output_text.delta", <<frame.text>>)>>)

finalize(s) ==
  LET t == start(s)
  IN Push([t EXCEPT !.text = << >>],
          <<Event("response.content_part.done", t.text),
            Event("response.output_item.done", t.text),
            [type |-> "response.completed", body |-> t.text, usage |-> t.usage,
             status |-> IF t.finished THEN "completed" ELSE "incomplete"]>>)

Translate(s, frame) ==
  CASE frame.kind = "done" -> finalize(s)
    [] frame.kind = "error" -> Push(s, <<Event("error", << >>)>>)
    [] frame.kind = "chunk" -> handle_chunk(s, frame)

-----------------------------------------------------------------------------
(* The unfold's closure. *)

Emit ==
  /\ st.out # << >>
  /\ sent' = Append(sent, Head(st.out))
  /\ st' = [st EXCEPT !.out = Tail(@)]
  /\ UNCHANGED <<bytes_in, buf, done, seen>>

Polls == st.out = << >> /\ ~done

(* Bytes arrive, and every complete frame in the buffer is processed: a    *)
(* frame after [DONE] too, if the bytes of one poll hold it.               *)
Data_GoesOn(k) ==   \* [DONE] does not end the stream
  LET all == buf \o SubSeq(bytes_in, 1, k)
      frames == [i \in 1..(Len(all) \div 2) |-> all[2 * i].frame]
  IN /\ Polls
     /\ k <= Len(bytes_in)
     /\ bytes_in' = SubSeq(bytes_in, k + 1, Len(bytes_in))
     /\ buf' = SubSeq(all, 2 * Len(frames) + 1, Len(all))
     /\ st' = FoldLeft(Translate, st, frames)
     /\ seen' = seen \o frames
     /\ UNCHANGED <<done, sent>>

Data(k) ==
  LET all == buf \o SubSeq(bytes_in, 1, k)
      frames == [i \in 1..(Len(all) \div 2) |-> all[2 * i].frame]
  IN /\ Polls
     /\ k <= Len(bytes_in)
     /\ bytes_in' = SubSeq(bytes_in, k + 1, Len(bytes_in))
     /\ buf' = SubSeq(all, 2 * Len(frames) + 1, Len(all))
     /\ st' = FoldLeft(Translate, st, frames)
     /\ done' = \E i \in DOMAIN frames : frames[i].kind = "done"
     /\ seen' = seen \o frames
     /\ UNCHANGED sent

(* The bytes end, or fail, wherever the chat handler stopped writing. *)
BytesEnd ==
  /\ Polls
  /\ st' = finalize(st)
  /\ done' = TRUE
  /\ UNCHANGED <<bytes_in, buf, sent, seen>>

-----------------------------------------------------------------------------
Init ==
  /\ bytes_in \in {Pieces(frames) : frames \in Streams}
  /\ buf = << >>
  /\ st = NewState
  /\ done = FALSE
  /\ sent = << >>
  /\ seen = << >>

Next ==
  \/ Emit
  \/ \E k \in 1..MaxPieces : Data(k)
  \/ BytesEnd

Spec == Init /\ [][Next]_vars

-----------------------------------------------------------------------------
Typed(type) == {i \in DOMAIN sent : sent[i].type = type}
Texts(frames) ==
  FoldLeft(LAMBDA s, f : IF f.kind = "chunk" /\ f.text # None THEN Append(s, f.text) ELSE s,
           << >>, frames)

(* However the bytes are cut and wherever they end, the client receives    *)
(* one response: created and the two openings once and before any text,    *)
(* the two closings and completed once, in that order, and nothing after   *)
(* completed.  The deltas spell the text of the frames, the closings       *)
(* repeat it whole, and the status is completed just when a frame gave a   *)
(* finish reason.                                                          *)
ResponseIsWhole ==
  LET ended == Typed("response.completed")
      deltas == SelectSeq(sent, LAMBDA e : e.type = "response.output_text.delta")
  IN /\ \A type \in {"response.created", "response.output_item.added",
                     "response.content_part.added", "response.content_part.done",
                     "response.output_item.done", "response.completed"} :
          Cardinality(Typed(type)) <= 1
     /\ \A i \in Typed("response.output_text.delta") :
          /\ \E j \in Typed("response.content_part.added") : j < i
          /\ \A j \in Typed("response.content_part.done") : i < j
     /\ \A i \in ended :
          /\ i = Len(sent) /\ st.out = << >>
          /\ sent[i].body = Texts(seen)
          /\ sent[i].body = FlattenSeq([n \in DOMAIN deltas |-> deltas[n].body])
          /\ \A j \in Typed("response.content_part.done") \cup Typed("response.output_item.done") :
               sent[j].body = sent[i].body
          /\ sent[i].status = "completed"
               <=> \E n \in DOMAIN seen : seen[n].kind = "chunk" /\ seen[n].finish
     /\ done /\ st.out = << >> => ended # {}
=============================================================================
