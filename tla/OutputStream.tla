---------------------------- MODULE OutputStream ----------------------------
(***************************************************************************)
(* What loi promises of its output, whatever the format: one line for each *)
(* event that passes every active filter, in the order of the events, each *)
(* line once and never rewritten.  An error may cut the stream anywhere,   *)
(* and then nothing follows.  "Ok" is claimed only for a whole stream, or  *)
(* one nobody reads any more.                                              *)
(***************************************************************************)
EXTENDS Naturals, SequencesExt

CONSTANTS
  Event,      \* every event there may be
  Parts       \* into how many pieces a line can be cut

VARIABLES
  wanted,     \* the events that pass the filters
  events,     \* the events so far
  written,    \* the pieces that have left the process
  reader,     \* whether somebody reads them
  verdict     \* how loi ends

streamVars == <<wanted, events, written, reader, verdict>>

\* The stream: the pieces <<event number, part>> of the wanted events, by number
\* and then by part.
Stream(evs) == {n \in DOMAIN evs : evs[n] \in wanted} \X (1 .. Parts)
Precedes(a, b) == a[1] < b[1] \/ (a[1] = b[1] /\ a[2] < b[2])

\* w is a beginning of the stream: in its order, and without a gap.
Begins(w, stream) ==
  /\ \A i \in DOMAIN w : w[i] \in stream
  /\ \A i, j \in DOMAIN w : i < j => Precedes(w[i], w[j])
  /\ \A i \in DOMAIN w : \A p \in stream : Precedes(p, w[i]) => p \in Range(w)

\* ... or all of it.
Completes(w, stream) == Begins(w, stream) /\ stream \subseteq Range(w)

StreamInit ==
  /\ wanted \in SUBSET Event
  /\ events = <<>> /\ written = <<>>
  /\ reader = "there" /\ verdict = "none"

Receive ==
  /\ verdict = "none"
  /\ \E e \in Event : events' = Append(events, e)
  /\ UNCHANGED <<wanted, written, reader, verdict>>

\* More of the stream leaves the process.
Extends ==
  /\ IsPrefix(written, written')
  /\ Begins(written', Stream(events))
  /\ written' # written => reader = "there"

Write == Extends /\ UNCHANGED <<wanted, events, reader, verdict>>

Conclude ==
  /\ verdict = "none"
  /\ verdict' \in {"Ok", "failed"}
  /\ Extends
  /\ verdict' = "Ok" => Completes(written', Stream(events)) \/ reader = "gone"
  /\ UNCHANGED <<wanted, events, reader>>

ReaderLeaves ==
  /\ reader' = "gone"
  /\ UNCHANGED <<wanted, events, written, verdict>>

StreamNext == Receive \/ Write \/ Conclude \/ ReaderLeaves

StreamSpec == StreamInit /\ [][StreamNext]_streamVars

=============================================================================
