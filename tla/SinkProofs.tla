----------------------------- MODULE SinkProofs -----------------------------
(***************************************************************************)
(* Proofs about Sink, for every set of events, every command line and any  *)
(* capacity of the buffer, number of events and of failed writes.          *)
(***************************************************************************)
EXTENDS SinkInv, SequenceTheorems, FiniteSetTheorems, TLAPS

-----------------------------------------------------------------------------
(* Beginnings of a stream of pieces                                        *)

\* Where the elements of a concatenation come from.
LEMMA Joined ==
  ASSUME NEW S, NEW s \in Seq(S), NEW t \in Seq(S)
  PROVE  /\ s \o t \in Seq(S)
         /\ Len(s \o t) = Len(s) + Len(t)
         /\ DOMAIN (s \o t) = 1 .. Len(s) + Len(t)
         /\ \A i \in DOMAIN s : i \in DOMAIN (s \o t) /\ (s \o t)[i] = s[i]
         /\ \A i \in DOMAIN (s \o t) \ DOMAIN s :
              i - Len(s) \in DOMAIN t /\ (s \o t)[i] = t[i - Len(s)]
BY ConcatProperties

LEMMA SameRange ==
  ASSUME NEW f
  PROVE  Promise!Range(f) = Range(f)
BY DEF Promise!Range, Range

LEMMA PiecesOf ==
  ASSUME NEW s \in Seq(Piece)
  PROVE  \A i \in DOMAIN s : s[i] \in Piece
OBVIOUS

\* The order of the pieces is strict.
LEMMA PrecedesStrict ==
  ASSUME NEW a \in Piece, NEW b \in Piece, NEW c \in Piece
  PROVE  /\ ~(Promise!Precedes(a, b) /\ Promise!Precedes(b, a))
         /\ ~Promise!Precedes(a, a)
         /\ Promise!Precedes(a, b) /\ Promise!Precedes(b, c) => Promise!Precedes(a, c)
BY DEF Piece, Parts, Promise!Precedes

\* A beginning can be cut anywhere.
LEMMA BeginsCut ==
  ASSUME NEW stream \in SUBSET Piece, NEW s \in Seq(Piece), NEW t \in Seq(Piece),
         Promise!Begins(s \o t, stream)
  PROVE  Promise!Begins(s, stream)
<1> DEFINE w == s \o t
<1>1. \A i \in DOMAIN s : s[i] \in stream
  BY Joined DEF Promise!Begins
<1>2. \A i, j \in DOMAIN s : i < j => Promise!Precedes(s[i], s[j])
  BY Joined DEF Promise!Begins
<1>3. ASSUME NEW i \in DOMAIN s, NEW p \in stream, Promise!Precedes(p, s[i])
      PROVE  p \in Range(s)
  <2>1. PICK j \in DOMAIN w : w[j] = p
    BY <1>3, Joined DEF Promise!Begins, Promise!Range, Range
  <2>2. CASE j \in DOMAIN s
    BY <2>1, <2>2, Joined DEF Range
  <2>3. CASE j \notin DOMAIN s
    <3>1. i < j
      BY <2>3, Joined, LenProperties
    <3>2. Promise!Precedes(s[i], p)
      BY <2>1, <3>1, Joined DEF Promise!Begins
    <3> QED
      BY <1>3, <3>2, PrecedesStrict, PiecesOf
  <2> QED
    BY <2>2, <2>3
<1> QED
  BY <1>1, <1>2, <1>3 DEF Promise!Begins, Promise!Range, Range

\* It still is one when the stream gets longer ...
LEMMA BeginsLonger ==
  ASSUME NEW stream \in SUBSET Piece, NEW more \in SUBSET Piece, NEW w \in Seq(Piece),
         Promise!Begins(w, stream),
         \A p \in stream, q \in more : Promise!Precedes(p, q)
  PROVE  Promise!Begins(w, stream \cup more)
<1>1. ASSUME NEW i \in DOMAIN w, NEW q \in more
      PROVE  ~Promise!Precedes(q, w[i])
  BY <1>1, PrecedesStrict DEF Promise!Begins
<1> QED
  BY <1>1 DEF Promise!Begins, Promise!Range, Range

\* ... and a whole one followed by all that was added is whole again.
LEMMA CompletesLonger ==
  ASSUME NEW stream \in SUBSET Piece, NEW more \in SUBSET Piece,
         NEW w \in Seq(Piece), NEW t \in Seq(Piece),
         Promise!Completes(w, stream), Promise!Completes(t, more),
         \A p \in stream, q \in more : Promise!Precedes(p, q)
  PROVE  Promise!Completes(w \o t, stream \cup more)
<1> DEFINE wt == w \o t
<1>1. Promise!Range(wt) = Promise!Range(w) \cup Promise!Range(t)
  BY RangeConcatenation, SameRange
<1>2. stream \cup more \subseteq Promise!Range(wt)
  BY <1>1 DEF Promise!Completes
<1>3. \A i \in DOMAIN wt : wt[i] \in stream \cup more
  BY Joined DEF Promise!Completes, Promise!Begins
<1>4. ASSUME NEW i \in DOMAIN wt, NEW j \in DOMAIN wt, i < j
      PROVE  Promise!Precedes(wt[i], wt[j])
  <2>1. CASE j \in DOMAIN w
    BY <1>4, <2>1, Joined, LenProperties DEF Promise!Completes, Promise!Begins
  <2>2. CASE i \in DOMAIN w /\ j \notin DOMAIN w
    BY <1>4, <2>2, Joined DEF Promise!Completes, Promise!Begins
  <2>3. CASE i \notin DOMAIN w /\ j \notin DOMAIN w
    BY <1>4, <2>3, Joined, LenProperties DEF Promise!Completes, Promise!Begins
  <2>4. CASE i \notin DOMAIN w /\ j \in DOMAIN w
    BY <1>4, <2>4, Joined, LenProperties
  <2> QED
    BY <2>1, <2>2, <2>3, <2>4
<1>5. \A i \in DOMAIN wt : \A p \in stream \cup more :
        Promise!Precedes(p, wt[i]) => p \in Promise!Range(wt)
  BY <1>2
<1> QED
  BY <1>2, <1>3, <1>4, <1>5 DEF Promise!Completes, Promise!Begins

-----------------------------------------------------------------------------
(* The filter, and the stream it defines                                   *)

\* The filter that was parsed lets exactly the events through that the flags ask
\* for: an argument that no decoder made sense of is no path.
LEMMA PassesWanted ==
  ASSUME NEW ev \in Event, filter = parse(cli)
  PROVE  Passes(ev) <=> Wanted(ev)
<1>1. matches_event(filter, ev) <=>
        /\ cli.fail => ev.ret < 0
        /\ cli.syscall \cap Glob # {} => SomeGlob(cli.syscall, ev.name)
  BY DEF matches_event, parse, compile_globs, Gate, NoGate, SomeGlob
<1>2. needs_decode(filter) <=> cli.path \cap Glob # {}
  BY DEF needs_decode, parse, compile_globs, Gate, NoGate
<1> DEFINE args == decode(ev).args
<1>3. \A p : (\E i \in DOMAIN args : p \in as_path(args[i][2])) <=> p \in PathsOf(ev)
  <2>1. CASE Decodes(ev)
    BY <2>1 DEF decode, PathsOf
  <2>2. CASE ~Decodes(ev)
    <3>1. args = fallback_decoded(ev)
      BY <2>2 DEF decode
    <3>2. \A i \in DOMAIN args : args[i][2][1] = "Uint"
      BY <3>1 DEF fallback_decoded
    <3>3. \A i \in DOMAIN args : as_path(args[i][2]) = {}
      BY <3>2 DEF as_path
    <3> QED
      BY <2>2, <3>3 DEF PathsOf
  <2> QED
    BY <2>1, <2>2
<1>4. ASSUME cli.path \cap Glob # {}
      PROVE  matches_decoded(filter, args)
               <=> \E p \in PathsOf(ev) : SomeGlob(cli.path, p)
  <2>1. filter.paths.on /\ filter.paths.passes = UNION {Matches[g] : g \in cli.path \cap Glob}
    BY <1>4 DEF parse, compile_globs, Gate
  <2>2. \A p : p \in filter.paths.passes <=> SomeGlob(cli.path, p)
    BY <2>1 DEF SomeGlob
  <2>3. matches_decoded(filter, args)
          <=> \E i \in DOMAIN args : \E p : p \in as_path(args[i][2]) /\ SomeGlob(cli.path, p)
    BY <2>1, <2>2 DEF matches_decoded
  <2> HIDE DEF args
  <2> QED
    BY <1>3, <2>3
<1> QED
  BY <1>1, <1>2, <1>4 DEF Passes, Wanted

LEMMA StreamType ==
  ASSUME NEW evs \in Seq(Event)
  PROVE  Promise!Stream(evs) \in SUBSET Piece
BY DEF Promise!Stream, Piece

\* What the next event adds to the stream comes at its end.
Added(evs, ev) == IF Wanted(ev) THEN {Len(evs) + 1} \X (1 .. Parts) ELSE {}

LEMMA StreamGrows ==
  ASSUME NEW evs \in Seq(Event), NEW ev \in Event
  PROVE  /\ Promise!Stream(Append(evs, ev)) = Promise!Stream(evs) \cup Added(evs, ev)
         /\ Added(evs, ev) \in SUBSET Piece
         /\ \A p \in Promise!Stream(evs), q \in Added(evs, ev) : Promise!Precedes(p, q)
<1> DEFINE more == Added(evs, ev)
<1>1. /\ DOMAIN Append(evs, ev) = DOMAIN evs \cup {Len(evs) + 1}
      /\ Append(evs, ev)[Len(evs) + 1] = ev
      /\ \A i \in DOMAIN evs : Append(evs, ev)[i] = evs[i]
  OBVIOUS
<1>2. Promise!Stream(Append(evs, ev)) = Promise!Stream(evs) \cup more
  BY <1>1 DEF Promise!Stream, Added
<1>3. \A p \in Promise!Stream(evs), q \in more : Promise!Precedes(p, q)
  BY DEF Promise!Stream, Promise!Precedes, Added
<1> QED
  BY <1>2, <1>3 DEF Piece, Added

\* The command line, and with it what is wanted, never changes.
LEMMA StreamKept ==
  ASSUME cli' = cli, NEW evs \in Seq(Event), events' = evs
  PROVE  Promise!Stream(events)' = Promise!Stream(evs)
<1>1. \A e \in Event : Wanted(e)' <=> Wanted(e)
  BY DEF Wanted
<1> QED
  BY <1>1 DEF Promise!Stream

-----------------------------------------------------------------------------
(* The buffer                                                              *)

\* A flush moves pieces from the buffer to stdout and loses none.
LEMMA FlushMoves ==
  ASSUME out \in Seq(Piece), buf \in Seq(Piece), Len(buf) <= Cap,
         reader \in {"there", "gone"},
         (FlushOk /\ buf' = <<>>) \/ (\E kind : FlushErr(kind))
  PROVE  /\ out' \in Seq(Piece) /\ buf' \in Seq(Piece) /\ Len(buf') <= Cap
         /\ out' \o buf' = out \o buf
         /\ \E s \in Seq(Piece) : out' = out \o s
         /\ out' # out => reader = "there"
<1>c. Cap \in Nat
  BY SinkAssumption
<1>1. CASE FlushOk /\ buf' = <<>>
  <2>1. out' = out \o buf
    BY <1>1 DEF FlushOk
  <2>2. out' \in Seq(Piece) /\ out' \o <<>> = out'
    BY <2>1, ConcatProperties, ConcatEmptySeq
  <2>3. buf = <<>> => out' = out
    BY <2>1, ConcatEmptySeq
  <2>4. buf' \in Seq(Piece) /\ Len(buf') <= Cap
    BY <1>1, <1>c, EmptySeq
  <2>5. out' # out => reader = "there"
    BY <1>1, <2>3 DEF FlushOk
  <2> QED
    BY <1>1, <2>1, <2>2, <2>4, <2>5
<1>2. ASSUME NEW kind, FlushErr(kind), UNCHANGED <<out, buf>>
      PROVE  \E s \in Seq(Piece) : out' = out \o s
  BY <1>2, ConcatEmptySeq, EmptySeq
<1>3. ASSUME NEW n \in 0 .. Len(buf) - 1, reader = "there",
             out' = out \o SubSeq(buf, 1, n), buf' = SubSeq(buf, n + 1, Len(buf))
      PROVE  /\ out' \in Seq(Piece) /\ buf' \in Seq(Piece) /\ Len(buf') <= Cap
             /\ out' \o buf' = out \o buf
             /\ \E s \in Seq(Piece) : out' = out \o s
  <2> DEFINE s == SubSeq(buf, 1, n)  t == SubSeq(buf, n + 1, Len(buf))
  <2>1. s \in Seq(Piece) /\ t \in Seq(Piece) /\ Len(t) <= Len(buf)
    BY SubSeqProperties, LenProperties
  <2>2. s \o t = buf
    BY ConcatAdjacentSubSeq, SubSeqFull, LenProperties
  <2>h. out' = out \o s /\ buf' = t
    BY <1>3
  <2> HIDE DEF s, t
  <2>3. (out \o s) \o t = out \o (s \o t)
    BY <2>1, ConcatAssociative, SMTT(20)
  <2>4. Len(buf') <= Cap
    BY <1>c, <2>h, <2>1, LenProperties
  <2> QED
    BY <2>h, <2>1, <2>2, <2>3, <2>4, ConcatProperties
<1>4. ASSUME NEW kind, FlushErr(kind)
      PROVE  \/ UNCHANGED <<out, buf>>
             \/ /\ reader = "there"
                /\ \E n \in 0 .. Len(buf) - 1 :
                     out' = out \o SubSeq(buf, 1, n) /\ buf' = SubSeq(buf, n + 1, Len(buf))
  BY <1>4 DEF FlushErr
<1> QED
  BY <1>1, <1>2, <1>3, <1>4

\* The piece that enters the buffer is the first of those left of the line.
LEMMA PieceMoves ==
  ASSUME out \in Seq(Piece), buf \in Seq(Piece), todo \in Seq(Piece), todo # <<>>
  PROVE  /\ Head(todo) \in Piece /\ Tail(todo) \in Seq(Piece)
         /\ (out \o Append(buf, Head(todo))) \o Tail(todo) = Pipeline
         /\ ((out \o buf) \o <<Head(todo)>>) \o Tail(todo) = Pipeline
<1> DEFINE h == Head(todo)  t == Tail(todo)
<1>1. h \in Piece /\ t \in Seq(Piece)
  BY HeadTailProperties
<1>2. todo = <<h>> \o t
  <2>1. <<h>> \in Seq(Piece) /\ Len(<<h>>) = 1 /\ <<h>>[1] = h
    BY <1>1
  <2>2. /\ <<h>> \o t \in Seq(Piece)
        /\ Len(<<h>> \o t) = Len(todo)
        /\ \A i \in 1 .. Len(todo) : (<<h>> \o t)[i] = todo[i]
    BY <1>1, <2>1, ConcatProperties, HeadTailProperties, LenProperties
  <2> QED
    BY <2>2, SeqEqual
<1>3. Append(buf, h) = buf \o <<h>> /\ <<h>> \in Seq(Piece)
  BY <1>1, AppendIsConcat
<1>4. out \o buf \in Seq(Piece) /\ out \o (buf \o <<h>>) = (out \o buf) \o <<h>>
  BY <1>3, ConcatProperties, ConcatAssociative
<1>5. ((out \o buf) \o <<h>>) \o t = (out \o buf) \o (<<h>> \o t)
  BY <1>1, <1>3, <1>4, ConcatAssociative, SMTT(20)
<1> HIDE DEF h, t
<1> QED
  BY <1>1, <1>2, <1>3, <1>4, <1>5 DEF Pipeline, h, t

-----------------------------------------------------------------------------
(* Where main is, and what it knows of the errors                          *)

ControlTypeOK ==
  /\ pc \in PCs /\ verdict \in Verdicts
  /\ cli \in Setups /\ filter.only_fail \in BOOLEAN
  /\ closed \in BOOLEAN /\ first_err \in BOOLEAN
  /\ reader \in {"there", "gone"} /\ faults \in 0 .. MaxFaults

Control == ControlTypeOK /\ StartedInSync /\ WritingInSync /\ ErrorsInSync

\* A flush that fails says so in one of the two flags, and the reader being gone
\* is no fault.
LEMMA FlushFails ==
  ASSUME ControlTypeOK, NEW kind \in {"BrokenPipe", "Other"}, FlushErr(kind)
  PROVE  /\ reader' = reader /\ faults' \in 0 .. MaxFaults
         /\ kind = "BrokenPipe" => reader = "gone" /\ faults' = faults
         /\ kind = "Other" => faults' = faults + 1
<1>1. faults \in Nat /\ MaxFaults \in Nat
  BY SinkAssumption DEF ControlTypeOK
<1> QED
  BY <1>1 DEF FlushErr, ControlTypeOK

LEMMA ControlInductive ==
  ASSUME Control, [Next]_vars
  PROVE  Control'
<1>f. faults \in Nat /\ MaxFaults \in Nat
  BY SinkAssumption DEF Control, ControlTypeOK
<1> USE DEF Control, ControlTypeOK, StartedInSync, WritingInSync, ErrorsInSync,
            Handling, Silenced, PCs, Verdicts
<1>1. CASE UsageError \/ SpawnFails
  BY <1>1, <1>f DEF UsageError, SpawnFails, lineVars, deviceVars
<1>2. CASE Start
  <2>1. parse(cli).only_fail \in BOOLEAN
    BY SinkAssumption DEF parse, Cli, Switches
  <2> QED
    BY <1>2, <1>f, <2>1 DEF Start, lineVars, deviceVars, Usable
<1>3. ASSUME NEW ev \in Event, Drop(ev)
      PROVE  Control'
  BY <1>3, <1>f DEF Drop, Handle, lineVars, deviceVars, Usable
<1>4. ASSUME NEW ev \in Event, BeginLine(ev)
      PROVE  Control'
  <2>1. cli.output = "Pretty" => lines' # <<>>
    BY <1>4, AppendProperties DEF BeginLine
  <2> QED
    BY <1>4, <1>f, <2>1 DEF BeginLine, Handle, lineVars, deviceVars, Usable
<1>5. CASE WritePiece
  BY <1>5, <1>f DEF WritePiece, FlushOk, lineVars, deviceVars, Usable
<1>6. CASE WriteFails
  <2>1. PICK kind \in {"BrokenPipe", "Other"} :
          FlushErr(kind) /\ Record(SeenAs(kind, Head(todo)[2]))
    BY <1>6 DEF WriteFails
  <2>2. closed' => reader' = "gone"
    BY <2>1, FlushFails DEF Record, SeenAs
  <2>3. faults' > 0 => first_err'
    BY <2>1, <1>f, <1>6, FlushFails DEF Record, SeenAs, WriteFails
  <2>4. first_err' /\ cli.output = "Pretty" => faults' > 0
    <3>1. CASE kind = "Other"
      BY <2>1, <3>1, <1>f, FlushFails
    <3>2. CASE kind = "BrokenPipe"
      BY <2>1, <3>2, <1>f, FlushFails DEF Record, SeenAs
    <3> QED
      BY <3>1, <3>2
  <2>5. closed' \in BOOLEAN /\ first_err' \in BOOLEAN
    BY <2>1 DEF Record
  <2> QED
    BY <1>6, <1>f, <2>1, <2>2, <2>3, <2>4, <2>5, FlushFails
    DEF WriteFails, lineVars, Usable
<1>7. CASE EndLine
  BY <1>7, <1>f DEF EndLine, lineVars, deviceVars, Usable
<1>8. CASE RunReturns
  BY <1>8, <1>f DEF RunReturns, lineVars, deviceVars, Usable
<1>9. CASE Finish
  <2>1. CASE FlushOk /\ buf' = <<>> /\ UNCHANGED <<closed, first_err>>
    BY <1>9, <1>f, <2>1 DEF Finish, FlushOk, lineVars
  <2>2. ASSUME NEW kind \in {"BrokenPipe", "Other"}, FlushErr(kind), Record(kind)
        PROVE  Control'
    <3>1. closed' => reader' = "gone"
      BY <2>2, FlushFails DEF Record
    <3>2. faults' > 0 => first_err'
      BY <2>2, <1>f, <1>9, FlushFails DEF Record, Finish
    <3>3. first_err' /\ cli.output = "Pretty" => faults' > 0
      <4>1. CASE kind = "Other"
        BY <2>2, <4>1, <1>f, FlushFails
      <4>2. CASE kind = "BrokenPipe"
        BY <2>2, <4>2, <1>f, FlushFails DEF Record
      <4> QED
        BY <4>1, <4>2
    <3>4. closed' \in BOOLEAN /\ first_err' \in BOOLEAN
      BY <2>2 DEF Record
    <3>5. ~first_err' => reader' = "gone"
      BY <2>2, FlushFails DEF Record
    <3> QED
      BY <1>9, <1>f, <2>2, <3>1, <3>2, <3>3, <3>4, <3>5, FlushFails DEF Finish, lineVars
  <2> QED
    BY <1>9, <2>1, <2>2 DEF Finish
<1>10. CASE DropWriter
  <2>1. CASE FlushOk /\ buf' = <<>>
    BY <1>10, <1>f, <2>1 DEF DropWriter, FlushOk, lineVars
  <2>2. ASSUME NEW kind \in {"BrokenPipe", "Other"}, FlushErr(kind)
        PROVE  Control'
    <3>1. verdict = "Ok" => reader = "gone"
      BY <2>2 DEF FlushErr
    <3>2. reader = "gone" => faults' = faults
      BY <2>2 DEF FlushErr
    <3> QED
      BY <1>10, <1>f, <2>2, <3>1, <3>2, FlushFails DEF DropWriter, lineVars
  <2> QED
    BY <1>10, <2>1, <2>2 DEF DropWriter
<1>11. CASE ReaderLeaves
  BY <1>11, <1>f DEF ReaderLeaves, lineVars, Usable
<1>12. CASE Over \/ UNCHANGED vars
  BY <1>12, <1>f DEF Over, vars, lineVars, deviceVars, Usable
<1> QED
  BY <1>1, <1>2, <1>3, <1>4, <1>5, <1>6, <1>7, <1>8, <1>9, <1>10, <1>11, <1>12 DEF Next

\* ... which is what the verdict tells.
LEMMA ReportedByControl ==
  ASSUME Control'
  PROVE  ErrorsReported'
BY DEF Control, ControlTypeOK, ErrorsInSync, ErrorsReported

-----------------------------------------------------------------------------
(* What is written, what is buffered and what is left of the line          *)

PipeTypeOK ==
  /\ events \in Seq(Event) /\ Len(events) <= MaxEvents
  /\ todo \in Seq(Piece) /\ buf \in Seq(Piece) /\ out \in Seq(Piece)
  /\ Len(todo) <= Parts /\ Len(buf) <= Cap

\* A line that begins is put behind everything on its way.
LEMMA LineBegins ==
  ASSUME Control, PipeTypeOK, NEW ev \in Event, BeginLine(ev)
  PROVE  PipeTypeOK' /\ Pipeline' = Pipeline \o todo' /\ UNCHANGED out
<1>1. /\ events' \in Seq(Event) /\ Len(events') <= MaxEvents
      /\ Len(events) + 1 \in Nat
  BY AppendProperties, LenProperties, SinkAssumption DEF BeginLine, Handle, PipeTypeOK
<1>2. todo' \in Seq(Piece) /\ Len(todo') = Parts
  BY <1>1 DEF BeginLine, Piece, Parts
<1>3. todo = <<>> /\ buf' = buf /\ out' = out
  BY DEF BeginLine, Handle, Control, WritingInSync, deviceVars
<1>4. out \o buf \in Seq(Piece) /\ Pipeline = out \o buf
  BY <1>3, ConcatProperties, ConcatEmptySeq DEF PipeTypeOK, Pipeline
<1> QED
  BY <1>1, <1>2, <1>3, <1>4 DEF PipeTypeOK, Pipeline, Parts

\* What a step does to the pieces on their way: nothing is lost, reordered or
\* written twice, and what is left of a line is given up when a write fails.
LEMMA PipeStep ==
  ASSUME Control, PipeTypeOK, [Next]_vars
  PROVE  /\ PipeTypeOK'
         /\ \/ Pipeline' = Pipeline
            \/ Silenced' /\ Pipeline = Pipeline' \o todo
            \/ \E ev \in Event : BeginLine(ev)
         /\ \E s \in Seq(Piece) : out' = out \o s
         /\ out' # out => reader = "there"
<1>c. Cap \in Nat \ {0} /\ Parts = 2
  BY SinkAssumption DEF Parts
<1>t. /\ events \in Seq(Event) /\ Len(events) <= MaxEvents
      /\ todo \in Seq(Piece) /\ buf \in Seq(Piece) /\ out \in Seq(Piece)
      /\ Len(todo) <= Parts /\ Len(buf) <= Cap /\ Len(todo) \in Nat /\ Len(buf) \in Nat
      /\ reader \in {"there", "gone"}
  BY LenProperties DEF PipeTypeOK, Control, ControlTypeOK
<1>n. UNCHANGED out => \E s \in Seq(Piece) : out' = out \o s
  BY <1>t, ConcatEmptySeq, EmptySeq
<1>e. todo = <<>> => Pipeline = out \o buf /\ Pipeline \in Seq(Piece)
  BY <1>t, ConcatProperties, ConcatEmptySeq DEF Pipeline
<1>1. CASE UNCHANGED <<events, todo, buf, out>>
  BY <1>1, <1>n DEF PipeTypeOK, Pipeline
<1>2. ASSUME NEW ev \in Event, Drop(ev)
      PROVE  PipeTypeOK' /\ Pipeline' = Pipeline /\ UNCHANGED out
  <2>1. events' \in Seq(Event) /\ Len(events') <= MaxEvents
    BY <1>2, <1>t, AppendProperties, LenProperties, SinkAssumption DEF Drop, Handle
  <2> QED
    BY <1>2, <1>t, <2>1 DEF Drop, deviceVars, PipeTypeOK, Pipeline
<1>3. ASSUME NEW ev \in Event, BeginLine(ev)
      PROVE  PipeTypeOK' /\ UNCHANGED out
  BY <1>3, LineBegins
<1>4. CASE WritePiece
  <2>1. /\ todo # <<>> /\ todo' = Tail(todo) /\ events' = events
        /\ todo' \in Seq(Piece) /\ Len(todo') <= Parts /\ Head(todo) \in Piece
    BY <1>4, <1>t, <1>c, HeadTailProperties DEF WritePiece
  <2>2. CASE Len(buf) < Cap
    <3>1. buf' = Append(buf, Head(todo)) /\ out' = out
      BY <1>4, <2>2 DEF WritePiece, deviceVars
    <3>2. buf' \in Seq(Piece) /\ Len(buf') <= Cap
      BY <1>t, <1>c, <2>1, <2>2, <3>1, AppendProperties
    <3>3. Pipeline' = Pipeline
      BY <1>t, <2>1, <3>1, PieceMoves DEF Pipeline
    <3> QED
      BY <1>t, <1>n, <2>1, <3>1, <3>2, <3>3 DEF PipeTypeOK
  <2>3. CASE ~(Len(buf) < Cap)
    <3>1. FlushOk /\ buf' = <<Head(todo)>> /\ out' = out \o buf
      BY <1>4, <2>3 DEF WritePiece, FlushOk
    <3>2. buf' \in Seq(Piece) /\ Len(buf') <= Cap
      BY <1>c, <2>1, <3>1
    <3>3. Pipeline' = Pipeline
      BY <1>t, <2>1, <3>1, PieceMoves DEF Pipeline
    <3>4. out' \in Seq(Piece) /\ (out' # out => reader = "there")
      BY <1>t, <3>1, ConcatProperties, ConcatEmptySeq DEF FlushOk
    <3> QED
      BY <1>t, <2>1, <3>1, <3>2, <3>3, <3>4 DEF PipeTypeOK
  <2> QED
    BY <2>2, <2>3
<1>5. ASSUME events' = events, todo' = <<>>, todo = <<>> \/ Silenced',
             (FlushOk /\ buf' = <<>>) \/ (\E kind : FlushErr(kind))
      PROVE  /\ PipeTypeOK'
             /\ Pipeline' = Pipeline \/ (Silenced' /\ Pipeline = Pipeline' \o todo)
             /\ \E s \in Seq(Piece) : out' = out \o s
             /\ out' # out => reader = "there"
  <2>1. /\ out' \in Seq(Piece) /\ buf' \in Seq(Piece) /\ Len(buf') <= Cap
        /\ out' \o buf' = out \o buf
        /\ \E s \in Seq(Piece) : out' = out \o s
        /\ out' # out => reader = "there"
    BY <1>5, <1>t, FlushMoves
  <2>2. PipeTypeOK'
    BY <1>5, <1>t, <1>c, <2>1, EmptySeq DEF PipeTypeOK
  <2>3. Pipeline' = out \o buf
    BY <1>5, <1>t, <2>1, ConcatProperties, ConcatEmptySeq DEF Pipeline
  <2>4. Pipeline = Pipeline' \o todo
    BY <2>3 DEF Pipeline
  <2> QED
    BY <1>5, <1>e, <2>1, <2>2, <2>3, <2>4
<1>6. CASE WriteFails
  BY <1>5, <1>6 DEF WriteFails, Record, Silenced
<1>7. CASE Finish \/ DropWriter
  <2>1. todo = <<>>
    BY <1>7 DEF Finish, DropWriter, Control, WritingInSync
  <2> QED
    BY <1>5, <1>7, <2>1 DEF Finish, DropWriter
<1>8. CASE UsageError \/ SpawnFails \/ Start \/ EndLine \/ RunReturns \/ ReaderLeaves
           \/ Over \/ UNCHANGED vars
  BY <1>1, <1>8 DEF UsageError, SpawnFails, Start, EndLine, RunReturns, ReaderLeaves, Over,
       vars, deviceVars
<1> QED
  <2>1. CASE \E ev \in Event : Drop(ev)
    BY <1>n, <1>2, <2>1
  <2>2. CASE \E ev \in Event : BeginLine(ev)
    BY <1>n, <1>3, <2>2
  <2> QED
    BY <1>4, <1>6, <1>7, <1>8, <2>1, <2>2 DEF Next

\* The pieces of one line are all that its event adds to the stream.
LEMMA LineCompletes ==
  ASSUME NEW n \in Nat \ {0}, NEW line, line = [k \in 1 .. Parts |-> <<n, k>>]
  PROVE  line \in Seq(Piece) /\ Promise!Completes(line, {n} \X (1 .. Parts))
<1>1. /\ DOMAIN line = {1, 2} /\ 1 .. Parts = {1, 2}
      /\ line[1] = <<n, 1>> /\ line[2] = <<n, 2>>
  BY DEF Parts
<1>2. line \in Seq(Piece)
  BY DEF Parts, Piece
<1>3. {n} \X (1 .. Parts) = {line[1], line[2]}
  BY <1>1
<1>4. Promise!Range(line) = {line[1], line[2]}
  BY <1>1 DEF Promise!Range
<1>5. Promise!Precedes(line[1], line[2])
  BY <1>1 DEF Promise!Precedes
<1> QED
  BY <1>1, <1>2, <1>3, <1>4, <1>5 DEF Promise!Completes, Promise!Begins

LEMMA StreamInductive ==
  ASSUME Control, Control', PipeTypeOK, PipeTypeOK', StreamInSync, [Next]_vars
  PROVE  StreamInSync'
<1> DEFINE stream == Promise!Stream(events)
<1>t. /\ events \in Seq(Event) /\ stream \in SUBSET Piece
      /\ Pipeline \in Seq(Piece) /\ Pipeline' \in Seq(Piece) /\ todo \in Seq(Piece)
  BY StreamType, ConcatProperties DEF PipeTypeOK, Pipeline
<1>s. Promise!Begins(Pipeline, stream)
  BY DEF StreamInSync
<1>c. cli' = cli
  BY DEF Next, vars, UsageError, SpawnFails, Start, Drop, BeginLine, WritePiece, WriteFails,
         EndLine, RunReturns, Finish, DropWriter, ReaderLeaves, Over
<1>1. ASSUME NEW ev \in Event, BeginLine(ev), Pipeline' = Pipeline \o todo'
      PROVE  StreamInSync'
  <2>1. /\ events' = Append(events, ev) /\ todo' = [k \in 1 .. Parts |-> <<Len(events) + 1, k>>]
        /\ Handling /\ ~Silenced /\ Passes(ev) /\ ~Silenced'
    BY <1>1 DEF BeginLine, Handle, Handling, Silenced
  <2>2. Wanted(ev)
    BY <2>1, PassesWanted DEF Control, StartedInSync
  <2> DEFINE more == Added(events, ev)
  <2>3. Len(events) + 1 \in Nat \ {0}
    BY <1>t, LenProperties
  <2>4. todo' \in Seq(Piece) /\ Promise!Completes(todo', more)
    BY <2>1, <2>2, <2>3, LineCompletes DEF Added
  <2>5. /\ Promise!Stream(Append(events, ev)) = stream \cup more
        /\ more \in SUBSET Piece
        /\ \A p \in stream, q \in more : Promise!Precedes(p, q)
    BY <1>t, StreamGrows
  <2>6. Promise!Completes(Pipeline, stream)
    BY <2>1 DEF StreamInSync
  <2> HIDE DEF more, stream
  <2>7. Promise!Completes(Pipeline \o todo', stream \cup more)
    BY <1>t, <2>4, <2>5, <2>6, CompletesLonger
  <2>8. Promise!Stream(events)' = stream \cup more
    BY <1>t, <1>c, <2>1, <2>5, StreamKept, AppendProperties
  <2> QED
    BY <1>1, <2>7, <2>8 DEF StreamInSync, Promise!Completes
<1>2. ASSUME NEW ev \in Event, Drop(ev), Pipeline' = Pipeline
      PROVE  StreamInSync'
  <2>1. /\ events' = Append(events, ev) /\ Handling /\ (Silenced \/ ~Passes(ev))
        /\ UNCHANGED <<closed, first_err>>
    BY <1>2 DEF Drop, Handle, Handling
  <2>2. Silenced \/ ~Wanted(ev)
    BY <2>1, PassesWanted DEF Control, StartedInSync
  <2> DEFINE more == Added(events, ev)
  <2>3. /\ Promise!Stream(Append(events, ev)) = stream \cup more
        /\ more \in SUBSET Piece
        /\ \A p \in stream, q \in more : Promise!Precedes(p, q)
    BY <1>t, StreamGrows
  <2>4. ~Silenced => more = {}
    BY <2>2 DEF Added
  <2> HIDE DEF more, stream
  <2>5. Promise!Begins(Pipeline, stream \cup more)
    BY <1>t, <1>s, <2>3, BeginsLonger
  <2>6. Promise!Stream(events)' = stream \cup more
    BY <1>t, <1>c, <2>1, <2>3, StreamKept, AppendProperties
  <2>7. Silenced' <=> Silenced
    BY <2>1 DEF Silenced
  <2>8. ~Silenced => Promise!Completes(Pipeline, stream \cup more)
    BY <2>1, <2>4 DEF StreamInSync, stream
  <2> QED
    BY <1>2, <2>5, <2>6, <2>7, <2>8 DEF StreamInSync
<1>3. ASSUME events' = events, Pipeline' = Pipeline, Handling' => Handling,
             ~Silenced' => ~Silenced
      PROVE  StreamInSync'
  <2>1. Promise!Stream(events)' = stream
    BY <1>t, <1>3, <1>c, StreamKept
  <2> QED
    BY <1>3, <2>1 DEF StreamInSync
<1>4. ASSUME Silenced', Pipeline = Pipeline' \o todo, events' = events
      PROVE  StreamInSync'
  <2>1. Promise!Stream(events)' = stream
    BY <1>t, <1>4, <1>c, StreamKept
  <2>2. Promise!Begins(Pipeline', stream)
    BY <1>4, <1>s, <1>t, BeginsCut
  <2> QED
    BY <1>4, <2>1, <2>2 DEF StreamInSync
<1>5. ASSUME ~\E ev \in Event : BeginLine(ev) \/ Drop(ev)
      PROVE  events' = events /\ (Handling' /\ ~Handling => Start) /\ (~Silenced' => ~Silenced)
  BY <1>5 DEF Next, vars, UsageError, SpawnFails, Start, WritePiece, WriteFails, EndLine,
       RunReturns, Finish, DropWriter, ReaderLeaves, Over, Handling, Silenced, Record
<1>6. CASE Start
  <2>1. events = <<>> /\ Pipeline = <<>> /\ events' = events /\ Pipeline' = Pipeline
    BY <1>6, ConcatEmptySeq, EmptySeq
    DEF Start, Control, StartedInSync, WritingInSync, Pipeline, deviceVars
  <2>2. Promise!Stream(events)' = {} /\ Promise!Stream(events) = {}
    BY <1>t, <1>c, <2>1, StreamKept DEF Promise!Stream
  <2>3. Promise!Begins(<<>>, {}) /\ Promise!Completes(<<>>, {})
    BY DEF Promise!Begins, Promise!Completes
  <2> QED
    BY <2>1, <2>2, <2>3 DEF StreamInSync
<1>7. ASSUME NEW ev \in Event, Drop(ev)
      PROVE  Pipeline' = Pipeline
  BY <1>7 DEF Drop, deviceVars, Pipeline
<1> QED
  <2>1. CASE \E ev \in Event : Drop(ev)
    BY <1>2, <1>7, <2>1
  <2>2. CASE \E ev \in Event : BeginLine(ev)
    BY <1>1, <2>2, LineBegins
  <2>3. CASE ~\E ev \in Event : BeginLine(ev) \/ Drop(ev)
    BY <1>3, <1>4, <1>5, <1>6, <2>3, PipeStep
  <2> QED
    BY <2>1, <2>2, <2>3

-----------------------------------------------------------------------------
(* The promise                                                             *)

\* What leaves the process at a step is put behind what has left it already, and
\* it is still a beginning of the stream.
LEMMA StepExtends ==
  ASSUME Control, PipeTypeOK, PipeTypeOK', StreamInSync', [Next]_vars,
         cli' = cli, events' = events
  PROVE  Promise!Extends
<1>1. PICK s \in Seq(Piece) : out' = out \o s
  BY PipeStep
<1>2. out \in Seq(Piece) /\ out' \in Seq(Piece) /\ buf' \in Seq(Piece) /\ todo' \in Seq(Piece)
      /\ events \in Seq(Event)
  BY DEF PipeTypeOK
<1>3. Promise!IsPrefix(out, out')
  <2>1. Len(out) \in Nat /\ Len(s) \in Nat /\ Len(out') = Len(out) + Len(s)
    BY <1>1, <1>2, ConcatProperties, LenProperties
  <2>2. CASE Len(out) = 0
    BY <2>1, <2>2, SubSeqEmpty DEF Promise!IsPrefix
  <2>3. CASE Len(out) # 0
    <3>1. Len(out) \in 1 .. Len(out) /\ 1 \in 1 .. Len(out)
      BY <2>1, <2>3
    <3>2. SubSeq(out \o s, 1, Len(out)) = SubSeq(out, 1, Len(out))
      BY <1>2, <3>1, SubSeqOfConcat1
    <3> QED
      BY <1>1, <2>1, <3>2 DEF Promise!IsPrefix
  <2> QED
    BY <2>2, <2>3
<1>4. Promise!Begins(out', Promise!Stream(events))
  <2>1. Promise!Begins(Pipeline', Promise!Stream(events)) /\ Promise!Stream(events) \in SUBSET Piece
    BY <1>2, StreamKept, StreamType DEF StreamInSync
  <2>2. Pipeline' = (out' \o buf') \o todo' /\ out' \o buf' \in Seq(Piece)
    BY <1>2, ConcatProperties DEF Pipeline
  <2>3. Promise!Begins(out' \o buf', Promise!Stream(events))
    BY <1>2, <2>1, <2>2, BeginsCut
  <2> QED
    BY <1>2, <2>1, <2>3, BeginsCut
<1>5. out' # out => reader = "there"
  BY PipeStep
<1> QED
  BY <1>3, <1>4, <1>5 DEF Promise!Extends

\* The end that main comes to, as the promise sees it.
Told(v) == IF v \in {"none", "Ok"} THEN v ELSE "failed"
Wants == {ev \in Event : Wanted(ev)}

\* Ok is said when the buffer is empty and the line is whole, or nobody reads.
LEMMA OkIsWhole ==
  ASSUME Control, Control', PipeTypeOK, PipeTypeOK', StreamInSync, Finish, verdict' = "Ok"
  PROVE  Promise!Completes(out', Promise!Stream(events)) \/ reader = "gone"
<1>1. ~first_err' /\ todo = <<>> /\ Handling
  BY DEF Finish, Control, WritingInSync, Handling
<1>2. CASE FlushOk /\ buf' = <<>> /\ UNCHANGED <<closed, first_err>>
  <2>1. CASE closed
    BY <2>1 DEF Control, ErrorsInSync
  <2>2. CASE ~closed
    <3>1. Promise!Completes(Pipeline, Promise!Stream(events))
      BY <1>1, <1>2, <2>2 DEF StreamInSync, Silenced
    <3>2. Pipeline = out'
      BY <1>1, <1>2, ConcatProperties, ConcatEmptySeq DEF FlushOk, Pipeline, PipeTypeOK
    <3> QED
      BY <3>1, <3>2
  <2> QED
    BY <2>1, <2>2
<1>3. CASE \E kind \in {"BrokenPipe", "Other"} : FlushErr(kind) /\ Record(kind)
  <2>1. FlushErr("BrokenPipe")
    BY <1>1, <1>3 DEF Record
  <2> QED
    BY <2>1 DEF FlushErr
<1> QED
  BY <1>2, <1>3 DEF Finish

\* Every step of main is one of the promise, or none to it.
LEMMA PromiseStep ==
  ASSUME Control, Control', PipeTypeOK, PipeTypeOK', StreamInSync, StreamInSync', [Next]_vars
  PROVE  [Promise!StreamNext]_(Promise!streamVars)
<1>c. cli' = cli
  BY DEF Next, vars, UsageError, SpawnFails, Start, Drop, BeginLine, WritePiece, WriteFails,
         EndLine, RunReturns, Finish, DropWriter, ReaderLeaves, Over
<1>w. Wants' = Wants
  BY <1>c DEF Wants, Wanted
<1> USE DEF Told
<1>1. ASSUME NEW ev \in Event, Drop(ev) \/ BeginLine(ev)
      PROVE  Promise!Receive
  <2>1. verdict = "none" /\ events' = Append(events, ev)
    BY <1>1 DEF Drop, BeginLine, Handle, Control, StartedInSync, Handling
  <2>2. UNCHANGED <<out, reader, verdict>>
    BY <1>1 DEF Drop, BeginLine, deviceVars
  <2> QED
    BY <1>w, <2>1, <2>2 DEF Promise!Receive, Wants
<1>2. ASSUME events' = events, reader' = reader, Told(verdict') = Told(verdict)
      PROVE  Promise!Write
  BY <1>2, <1>c, <1>w, StepExtends DEF Promise!Write, Wants
<1>3. ASSUME events' = events, reader' = reader, verdict = "none", verdict' \in Verdicts \ {"none"},
             verdict' = "Ok" => Finish
      PROVE  Promise!Conclude
  <2>1. Promise!Extends
    BY <1>3, <1>c, StepExtends
  <2> QED
    BY <1>3, <1>w, <2>1, OkIsWhole DEF Promise!Conclude, Wants, Verdicts
<1>4. CASE ReaderLeaves
  <2>1. reader' = "gone" /\ UNCHANGED <<events, out, verdict>>
    BY <1>4 DEF ReaderLeaves
  <2> QED
    BY <1>w, <2>1 DEF Promise!StreamNext, Promise!ReaderLeaves, Wants
<1>5. CASE UsageError \/ SpawnFails \/ RunReturns \/ Finish
  <2>1. verdict = "none"
    BY <1>5 DEF UsageError, SpawnFails, RunReturns, Finish, Control, StartedInSync, Handling
  <2>2. events' = events /\ reader' = reader
    BY <1>5, FlushFails DEF UsageError, SpawnFails, RunReturns, Finish, deviceVars, FlushOk, Control
  <2>3. verdict' = "Ok" => Finish
    BY <1>5, <2>1 DEF UsageError, SpawnFails, RunReturns
  <2>4. verdict' \in Verdicts
    BY DEF Control, ControlTypeOK
  <2> QED
    BY <1>2, <1>3, <2>1, <2>2, <2>3, <2>4 DEF Promise!StreamNext
<1>6. CASE Start \/ WritePiece \/ WriteFails \/ EndLine \/ DropWriter
  <2>1. events' = events /\ reader' = reader /\ verdict' = verdict
    BY <1>6, FlushFails
    DEF Start, WritePiece, WriteFails, EndLine, DropWriter, deviceVars, FlushOk, Control
  <2> QED
    BY <1>2, <2>1 DEF Promise!StreamNext
<1>7. CASE Over \/ UNCHANGED vars
  BY <1>7, <1>2 DEF Over, vars, deviceVars, Promise!StreamNext
<1> QED
  BY <1>1, <1>4, <1>5, <1>6, <1>7 DEF Next, Promise!StreamNext

-----------------------------------------------------------------------------
(* The lines of the pretty format                                          *)

Tokens == {"pid", "arrow", "spaces", "name", "args", "ret", "errno", "desc", "duration"}
Styles == {"plain", "dimmed", "bold", "bold_red", "bold_cyan", "bold_blue", "bold_magenta",
           "bold_yellow"}
CellSet == Tokens \X Nat \X Styles

LinesTypeOK ==
  /\ \A i \in DOMAIN lines : \A k \in DOMAIN lines[i].cells : Width(lines[i].cells[k]) \in Nat
  /\ pretty_state.pid_width \in Nat /\ pretty_state.name_width \in Nat

LEMMA SpacesCells ==
  ASSUME NEW n \in Nat
  PROVE  /\ write_spaces(n) \in Seq(CellSet)
         /\ \A c \in Range(write_spaces(n)) : Token(c) = "spaces" /\ StyleOf(c) = "plain"
<1>1. CASE n = 0
  BY <1>1 DEF write_spaces, Range
<1>2. CASE n # 0
  <2>1. write_spaces(n) = <<<<"spaces", n, "plain">>>>
    BY <1>2 DEF write_spaces, Cell
  <2>2. <<"spaces", n, "plain">> \in CellSet
    BY DEF CellSet, Tokens, Styles
  <2>3. Range(write_spaces(n)) = {<<"spaces", n, "plain">>}
    BY <2>1 DEF Range
  <2> QED
    BY <2>1, <2>2, <2>3 DEF Token, StyleOf
<1> QED
  BY <1>1, <1>2

\* What write_ret adds: nothing but the three cells that speak of the result.
RetStyle(ret, color, dim) ==
  IF dim THEN "dimmed"
  ELSE IF ~color THEN "plain"
  ELSE IF errno_of_ret(ret) # NoErrno THEN "bold_red" ELSE "bold"

LEMMA RetCells ==
  ASSUME NEW ret, NEW color \in BOOLEAN, NEW dim \in BOOLEAN
  PROVE  /\ write_ret(ret, color, dim) \in Seq(CellSet)
         /\ Range(write_ret(ret, color, dim)) =
              IF errno_of_ret(ret) # NoErrno
              THEN {<<"ret", 0, RetStyle(ret, color, dim)>>, <<"errno", 0, RetStyle(ret, color, dim)>>,
                    <<"desc", 0, IF dim THEN "dimmed" ELSE "plain">>}
              ELSE {<<"ret", 0, RetStyle(ret, color, dim)>>}
<1> DEFINE style == RetStyle(ret, color, dim)
           a == <<"ret", 0, style>>  b == <<"errno", 0, style>>
           c == <<"desc", 0, IF dim THEN "dimmed" ELSE "plain">>
<1>1. a \in CellSet /\ b \in CellSet /\ c \in CellSet
  BY DEF CellSet, Tokens, Styles, RetStyle
<1>2. CASE errno_of_ret(ret) # NoErrno
  <2>1. write_ret(ret, color, dim) = <<a>> \o <<b, c>>
    BY <1>2 DEF write_ret, Cell, RetStyle
  <2> HIDE DEF a, b, c
  <2> DEFINE s == <<a>>  t == <<b, c>>
  <2>2. s \in Seq(CellSet) /\ t \in Seq(CellSet)
    BY <1>1
  <2>3. Range(<<a>>) = {a} /\ Range(<<b, c>>) = {b, c}
    BY DEF Range
  <2> HIDE DEF s, t
  <2>4. Range(s \o t) = Range(s) \cup Range(t) /\ s \o t \in Seq(CellSet)
    <3>1. Range(s \o t) = Range(s) \cup Range(t)
      BY <2>2, RangeConcatenation
    <3> QED
      BY <2>2, <3>1, ConcatProperties
  <2>5. write_ret(ret, color, dim) = s \o t /\ Range(s) \cup Range(t) = {a, b, c}
    BY <2>1, <2>3 DEF s, t
  <2> QED
    BY <1>2, <2>4, <2>5 DEF a, b, c
<1>3. CASE errno_of_ret(ret) = NoErrno
  <2>1. write_ret(ret, color, dim) = <<a>> \o <<>>
    BY <1>3 DEF write_ret, Cell, RetStyle
  <2> HIDE DEF a
  <2>2. <<a>> \in Seq(CellSet) /\ <<a>> \o <<>> = <<a>>
    BY <1>1, ConcatEmptySeq
  <2>3. Range(<<a>>) = {a}
    BY DEF Range
  <2> QED
    BY <1>3, <2>1, <2>2, <2>3 DEF a
<1> QED
  BY <1>2, <1>3

LEMMA Glued ==
  ASSUME NEW S, NEW s \in Seq(S), NEW t \in Seq(S)
  PROVE  s \o t \in Seq(S) /\ Range(s \o t) = Range(s) \cup Range(t)
BY ConcatProperties, RangeConcatenation

LEMMA RangeOfFive ==
  ASSUME NEW S, NEW a \in Seq(S), NEW b \in Seq(S), NEW c \in Seq(S), NEW d \in Seq(S),
         NEW e \in Seq(S)
  PROVE  /\ (((a \o b) \o c) \o d) \o e \in Seq(S)
         /\ Range((((a \o b) \o c) \o d) \o e)
              = Range(a) \cup Range(b) \cup Range(c) \cup Range(d) \cup Range(e)
<1> DEFINE ab == a \o b  abc == ab \o c  abcd == abc \o d
<1>1. ab \in Seq(S) /\ Range(ab) = Range(a) \cup Range(b)
  BY Glued
<1> HIDE DEF ab
<1>2. abc \in Seq(S) /\ Range(abc) = Range(ab) \cup Range(c)
  BY <1>1, Glued
<1> HIDE DEF abc
<1>3. abcd \in Seq(S) /\ Range(abcd) = Range(abc) \cup Range(d)
  BY <1>2, Glued
<1> HIDE DEF abcd
<1>4. abcd \o e \in Seq(S) /\ Range(abcd \o e) = Range(abcd) \cup Range(e)
  BY <1>3, Glued
<1>5. abcd \o e \in Seq(S)
      /\ Range(abcd \o e) = Range(a) \cup Range(b) \cup Range(c) \cup Range(d) \cup Range(e)
  BY <1>1, <1>2, <1>3, <1>4
<1> QED
  BY <1>5 DEF ab, abc, abcd

\* A cell on its own, and two.
LEMMA RangeOfCells ==
  ASSUME NEW a \in CellSet, NEW b \in CellSet
  PROVE  /\ <<a>> \in Seq(CellSet) /\ Range(<<a>>) = {a}
         /\ <<a, b>> \in Seq(CellSet) /\ Range(<<a, b>>) = {a, b}
BY DEF Range

\* The pid column, in colour or not, has no cell that speaks of the call.
LEMMA PidColumn ==
  ASSUME NEW pid \in DOMAIN PidLen, NEW pad \in Nat, NEW arrow \in BOOLEAN
  PROVE  /\ write_pid_column_color(pid, pad, arrow) \in Seq(CellSet)
         /\ \A c \in Range(write_pid_column_color(pid, pad, arrow)) :
              Token(c) \in {"pid", "spaces", "arrow"}
         /\ write_pid_column_plain(pid, pad, arrow) \in Seq(CellSet)
         /\ \A c \in Range(write_pid_column_plain(pid, pad, arrow)) : StyleOf(c) = "plain"
<1>1. PidLen[pid] \in Nat /\ PidLen[pid] + pad - BURST_PREFIX \in Nat /\ BURST_PREFIX \in Nat
      /\ PidLen[pid] + pad \in Nat
  BY PrettyAssumption DEF BURST_PREFIX
<1> DEFINE lead == write_spaces(Lead(pid, pad))  behind == write_spaces(pad)
           arrow_color == <<"arrow", BURST_PREFIX, "dimmed">>
           arrow_plain == <<"arrow", BURST_PREFIX, "plain">>
           pid_color == <<"pid", PidLen[pid], "dimmed">>
           pid_plain == <<"pid", PidLen[pid] + pad, "plain">>
<1>2. /\ arrow_color \in CellSet /\ arrow_plain \in CellSet
      /\ pid_color \in CellSet /\ pid_plain \in CellSet
  BY <1>1 DEF CellSet, Tokens, Styles
<1>3. /\ lead \in Seq(CellSet) /\ behind \in Seq(CellSet)
      /\ \A c \in Range(lead) \cup Range(behind) : Token(c) = "spaces" /\ StyleOf(c) = "plain"
  BY <1>1, SpacesCells DEF Lead
<1>4. /\ Token(arrow_color) = "arrow" /\ StyleOf(arrow_plain) = "plain"
      /\ Token(pid_color) = "pid" /\ StyleOf(pid_plain) = "plain"
  BY DEF Token, StyleOf
<1>5. /\ write_pid_column_color(pid, pad, arrow) =
           IF arrow THEN lead \o <<arrow_color>> ELSE <<pid_color>> \o behind
      /\ write_pid_column_plain(pid, pad, arrow) =
           IF arrow THEN lead \o <<arrow_plain>> ELSE <<pid_plain>>
  BY DEF write_pid_column_color, write_pid_column_plain, Cell
<1> HIDE DEF lead, behind, arrow_color, arrow_plain, pid_color, pid_plain
<1> DEFINE ac == <<arrow_color>>  ap == <<arrow_plain>>  pc1 == <<pid_color>>
           pp == <<pid_plain>>
<1>6. /\ ac \in Seq(CellSet) /\ ap \in Seq(CellSet) /\ pc1 \in Seq(CellSet)
      /\ pp \in Seq(CellSet)
      /\ Range(ac) = {arrow_color} /\ Range(ap) = {arrow_plain}
      /\ Range(pc1) = {pid_color} /\ Range(pp) = {pid_plain}
  BY <1>2, RangeOfCells
<1> HIDE DEF ac, ap, pc1, pp
<1>7. /\ lead \o ac \in Seq(CellSet) /\ Range(lead \o ac) = Range(lead) \cup {arrow_color}
      /\ lead \o ap \in Seq(CellSet) /\ Range(lead \o ap) = Range(lead) \cup {arrow_plain}
      /\ pc1 \o behind \in Seq(CellSet) /\ Range(pc1 \o behind) = {pid_color} \cup Range(behind)
  BY <1>3, <1>6, ConcatProperties, RangeConcatenation
<1>8. /\ write_pid_column_color(pid, pad, arrow) = IF arrow THEN lead \o ac ELSE pc1 \o behind
      /\ write_pid_column_plain(pid, pad, arrow) = IF arrow THEN lead \o ap ELSE pp
  BY <1>5 DEF ac, ap, pc1, pp
<1> QED
  BY <1>3, <1>4, <1>6, <1>7, <1>8

\* In no colour every cell is plain.
LEMMA PlainLine ==
  ASSUME NEW cfg, ~cfg.color, NEW ev \in Event, NEW family, NEW pad,
         pad.pid \in Nat, pad.name \in Nat, NEW arrow \in BOOLEAN
  PROVE  /\ Cells(cfg, ev, family, pad, arrow) \in Seq(CellSet)
         /\ Range(Cells(cfg, ev, family, pad, arrow)) # {}
         /\ \A c \in Range(Cells(cfg, ev, family, pad, arrow)) : StyleOf(c) = "plain"
<1>1. ev.pid \in DOMAIN PidLen /\ ev.name \in DOMAIN NameLen /\ NameLen[ev.name] + pad.name \in Nat
  BY SinkAssumption, PrettyAssumption
<1> DEFINE column == write_pid_column_plain(ev.pid, pad.pid, arrow)
           space == write_spaces(1)
           name == <<"name", NameLen[ev.name] + pad.name, "plain">>
           args == <<"args", 0, "plain">>
           ret == write_ret(ev.ret, FALSE, FALSE)
           duration == <<"duration", 0, "plain">>
           text == <<name, args>>
           end == <<duration>>
<1>2. Cells(cfg, ev, family, pad, arrow) = (((column \o space) \o text) \o ret) \o end
  BY DEF Cells, Cell
<1>3. name \in CellSet /\ args \in CellSet /\ duration \in CellSet
  BY <1>1 DEF CellSet, Tokens, Styles
<1>4. /\ text \in Seq(CellSet) /\ Range(text) = {name, args}
      /\ end \in Seq(CellSet) /\ Range(end) = {duration}
  BY <1>3, RangeOfCells
<1>5. StyleOf(name) = "plain" /\ StyleOf(args) = "plain" /\ StyleOf(duration) = "plain"
  BY DEF StyleOf
<1>6. column \in Seq(CellSet) /\ \A c \in Range(column) : StyleOf(c) = "plain"
  BY <1>1, PidColumn
<1>7. space \in Seq(CellSet) /\ \A c \in Range(space) : StyleOf(c) = "plain"
  BY SpacesCells
<1>8. ret \in Seq(CellSet) /\ \A c \in Range(ret) : StyleOf(c) = "plain"
  <2>1. RetStyle(ev.ret, FALSE, FALSE) = "plain"
    BY DEF RetStyle
  <2>2. /\ ret \in Seq(CellSet)
        /\ Range(ret) \subseteq {<<"ret", 0, "plain">>, <<"errno", 0, "plain">>, <<"desc", 0, "plain">>}
    <3>1. /\ write_ret(ev.ret, FALSE, FALSE) \in Seq(CellSet)
          /\ Range(write_ret(ev.ret, FALSE, FALSE)) =
               IF errno_of_ret(ev.ret) # NoErrno
               THEN {<<"ret", 0, RetStyle(ev.ret, FALSE, FALSE)>>,
                     <<"errno", 0, RetStyle(ev.ret, FALSE, FALSE)>>,
                     <<"desc", 0, IF FALSE THEN "dimmed" ELSE "plain">>}
               ELSE {<<"ret", 0, RetStyle(ev.ret, FALSE, FALSE)>>}
      BY RetCells
    <3> QED
      BY <2>1, <3>1
  <2> HIDE DEF ret
  <2> QED
    BY <2>2 DEF StyleOf
<1> HIDE DEF column, space, name, args, ret, duration, text, end
<1>9. /\ (((column \o space) \o text) \o ret) \o end \in Seq(CellSet)
      /\ Range((((column \o space) \o text) \o ret) \o end)
           = Range(column) \cup Range(space) \cup Range(text) \cup Range(ret) \cup Range(end)
  <2>1. /\ column \in Seq(CellSet) /\ space \in Seq(CellSet) /\ text \in Seq(CellSet)
        /\ ret \in Seq(CellSet) /\ end \in Seq(CellSet)
    BY <1>4, <1>6, <1>7, <1>8
  <2> QED
    BY ONLY <2>1, RangeOfFive
<1> QED
  BY <1>2, <1>4, <1>5, <1>6, <1>7, <1>8, <1>9

\* The cells that speak of the call: in colour these are the name, and what
\* write_ret adds.
Speaking == {"name", "ret", "errno", "desc"}
Spoken(cells) == {c \in Range(cells) : Token(c) \in Speaking}

LEMMA ColorLine ==
  ASSUME NEW cfg, cfg.color, NEW ev \in Event, NEW family, NEW pad,
         pad.pid \in Nat, pad.name \in Nat, NEW arrow \in BOOLEAN,
         DimLine(cfg, ev) \in BOOLEAN, name_style(cfg, family, DimLine(cfg, ev)) \in Styles
  PROVE  /\ Cells(cfg, ev, family, pad, arrow) \in Seq(CellSet)
         /\ Spoken(Cells(cfg, ev, family, pad, arrow))
              = {<<"name", NameLen[ev.name], name_style(cfg, family, DimLine(cfg, ev))>>}
                  \cup Range(write_ret(ev.ret, TRUE, DimLine(cfg, ev)))
<1>1. ev.pid \in DOMAIN PidLen /\ ev.name \in DOMAIN NameLen /\ NameLen[ev.name] \in Nat
  BY SinkAssumption, PrettyAssumption
<1> DEFINE dim == DimLine(cfg, ev)  style == name_style(cfg, family, dim)
           column == write_pid_column_color(ev.pid, pad.pid, arrow)
           space == write_spaces(1)
           name == <<"name", NameLen[ev.name], style>>
           behind == write_spaces(pad.name)
           args == <<"args", 0, "plain">>
           ret == write_ret(ev.ret, TRUE, dim)
           duration == <<"duration", 0, "dimmed">>
           head == <<name>>
           text == <<args>>
           end == <<duration>>
           cells == (((((column \o space) \o head) \o behind) \o text) \o ret) \o end
<1>2. Cells(cfg, ev, family, pad, arrow) = cells
  BY DEF Cells, Cell
<1>3. name \in CellSet /\ args \in CellSet /\ duration \in CellSet
  BY <1>1 DEF CellSet, Tokens, Styles
<1>4. /\ head \in Seq(CellSet) /\ Range(head) = {name}
      /\ text \in Seq(CellSet) /\ Range(text) = {args}
      /\ end \in Seq(CellSet) /\ Range(end) = {duration}
  BY <1>3, RangeOfCells
<1>5. Token(name) = "name" /\ Token(args) = "args" /\ Token(duration) = "duration"
  BY DEF Token
<1>6. column \in Seq(CellSet) /\ \A c \in Range(column) : Token(c) \in {"pid", "spaces", "arrow"}
  BY <1>1, PidColumn
<1>7. /\ space \in Seq(CellSet) /\ \A c \in Range(space) : Token(c) = "spaces"
      /\ behind \in Seq(CellSet) /\ \A c \in Range(behind) : Token(c) = "spaces"
  BY SpacesCells
<1>8. ret \in Seq(CellSet) /\ \A c \in Range(ret) : Token(c) \in {"ret", "errno", "desc"}
  <2>1. ret \in Seq(CellSet)
    BY RetCells
  <2>2. \E s, t : Range(ret) \subseteq {<<"ret", 0, s>>, <<"errno", 0, s>>, <<"desc", 0, t>>}
    <3> DEFINE s == RetStyle(ev.ret, TRUE, dim)  t == IF dim THEN "dimmed" ELSE "plain"
    <3>1. Range(ret) = IF errno_of_ret(ev.ret) # NoErrno
                       THEN {<<"ret", 0, s>>, <<"errno", 0, s>>, <<"desc", 0, t>>}
                       ELSE {<<"ret", 0, s>>}
      BY RetCells
    <3> HIDE DEF ret, s, t
    <3>2. Range(ret) \subseteq {<<"ret", 0, s>>, <<"errno", 0, s>>, <<"desc", 0, t>>}
      BY <3>1
    <3> QED
      BY <3>2
  <2> HIDE DEF ret
  <2> QED
    BY <2>1, <2>2 DEF Token
<1> HIDE DEF column, space, name, behind, args, ret, duration, head, text, end
<1>9. /\ cells \in Seq(CellSet)
      /\ Range(cells) = Range(column) \cup Range(space) \cup Range(head) \cup Range(behind)
                          \cup Range(text) \cup Range(ret) \cup Range(end)
  <2> DEFINE five == (((column \o space) \o head) \o behind) \o text
             six == five \o ret
  <2>1. /\ column \in Seq(CellSet) /\ space \in Seq(CellSet) /\ head \in Seq(CellSet)
        /\ behind \in Seq(CellSet) /\ text \in Seq(CellSet)
        /\ ret \in Seq(CellSet) /\ end \in Seq(CellSet)
    BY <1>4, <1>6, <1>7, <1>8
  <2>2. /\ five \in Seq(CellSet)
        /\ Range(five) = Range(column) \cup Range(space) \cup Range(head) \cup Range(behind)
                            \cup Range(text)
    BY ONLY <2>1, RangeOfFive, SMTT(20)
  <2> HIDE DEF five
  <2>3. six \in Seq(CellSet) /\ Range(six) = Range(five) \cup Range(ret)
    BY ONLY <2>1, <2>2, Glued
  <2> HIDE DEF six
  <2>4. six \o end \in Seq(CellSet) /\ Range(six \o end) = Range(six) \cup Range(end)
    BY ONLY <2>1, <2>3, Glued
  <2> HIDE DEF cells
  <2>5. cells = six \o end
    BY DEF cells, six, five
  <2> QED
    BY <2>2, <2>3, <2>4, <2>5
<1> HIDE DEF cells
<1>10. Spoken(cells) = {name} \cup Range(ret)
  BY <1>4, <1>5, <1>6, <1>7, <1>8, <1>9 DEF Spoken, Speaking
<1> QED
  BY <1>2, <1>9, <1>10 DEF name, ret

\* What the configuration of main switches.
LEMMA ConfigIs ==
  ASSUME cli \in Setups
  PROVE  /\ Config.color = Colored
         /\ Config.aligned
         /\ Config.category_colors = ~cli.no_category_colors
         /\ Config.color \in BOOLEAN /\ Config.category_colors \in BOOLEAN
         /\ Config.dim_lookups \in BOOLEAN /\ Config.group_lookups \in BOOLEAN
<1>1. /\ cli.terminal \in BOOLEAN /\ cli.no_category_colors \in BOOLEAN
      /\ cli.no_dim_lookups \in BOOLEAN /\ cli.no_group_lookups \in BOOLEAN
  BY SinkAssumption DEF Cli, Switches
<1>2. /\ Config.color = Colored
      /\ Config.aligned = TRUE
      /\ Config.category_colors = ~cli.no_category_colors
      /\ Config.dim_lookups = ~cli.no_dim_lookups
      /\ Config.group_lookups = ~cli.no_group_lookups
  <2> DEFINE a == ~cli.no_category_colors  b == ~cli.no_dim_lookups  c == ~cli.no_group_lookups
  <2>1. Config = group_lookups(dim_lookups(category_colors(PrettyConfig(Colored), a), b), c)
    BY Zenon DEF Config
  <2> HIDE DEF a, b, c
  <2>2. /\ Config.color = Colored /\ Config.aligned = TRUE /\ Config.category_colors = a
        /\ Config.dim_lookups = b /\ Config.group_lookups = c
    BY <2>1 DEF group_lookups, dim_lookups, category_colors, PrettyConfig
  <2> QED
    BY <2>2, Zenon DEF a, b, c
<1>3. Colored \in BOOLEAN
  BY <1>1 DEF Colored
<1> QED
  BY <1>1, <1>2, <1>3

\* A width that has grown leaves room for what it grew for.
LEMMA PaddingNat ==
  ASSUME LinesTypeOK, cli \in Setups, NEW ev \in Event
  PROVE  /\ Padding(Config, pretty_state, ev).pid \in Nat
         /\ Padding(Config, pretty_state, ev).name \in Nat
         /\ Grown(Config, pretty_state, ev).pid_width \in Nat
         /\ Grown(Config, pretty_state, ev).name_width \in Nat
         /\ Grown(Config, pretty_state, ev).last_basename = pretty_state.last_basename
         /\ Grown(Config, pretty_state, ev).last_pid = pretty_state.last_pid
<1>1. PidLen[ev.pid] \in Nat /\ NameLen[ev.name] \in Nat /\ Config.aligned
  BY SinkAssumption, PrettyAssumption, ConfigIs
<1> QED
  BY <1>1 DEF LinesTypeOK, Padding, Grown, Wider

\* The style of a name: nothing but dim_line dims it, it is never red, and it
\* has the colour of a family only when there is a category.
LEMMA NameStyle ==
  ASSUME NEW cfg, cfg.color, NEW family, NEW dim \in BOOLEAN
  PROVE  /\ name_style(cfg, family, dim) \in Styles \ {"bold_red", "plain"}
         /\ name_style(cfg, family, dim) = "dimmed" <=> dim
         /\ cfg.category_colors /\ family = NoCategory =>
              name_style(cfg, family, dim) \in {"bold", "dimmed"}
<1>1. CASE dim
  <2>1. name_style(cfg, family, dim) = "dimmed"
    BY <1>1 DEF name_style
  <2> QED
    BY <1>1, <2>1 DEF Styles
<1>2. CASE ~dim /\ ~cfg.category_colors
  <2>1. name_style(cfg, family, dim) = "bold_cyan"
    BY <1>2 DEF name_style
  <2> QED
    BY <1>2, <2>1 DEF Styles
<1>3. CASE ~dim /\ cfg.category_colors
  <2>1. name_style(cfg, family, dim) =
          CASE family = "File" -> "bold_cyan"
            [] family = "FileMeta" -> "bold_blue"
            [] family = "Memory" -> "bold_magenta"
            [] family = "Process" -> "bold_yellow"
            [] OTHER -> "bold"
    BY <1>3 DEF name_style
  <2>2. /\ name_style(cfg, family, dim) \in {"bold_cyan", "bold_blue", "bold_magenta", "bold_yellow", "bold"}
        /\ family = NoCategory => name_style(cfg, family, dim) = "bold"
    BY <2>1 DEF NoCategory
  <2> QED
    BY <1>3, <2>2 DEF Styles
<1> QED
  BY <1>1, <1>2, <1>3

\* What FailuresStandOut, PlainOffTerminal and ColourMeansDecoded say of one line.
PlainIn(line) ==
  ~cli.terminal => StylesOf(line, {Token(c) : c \in Range(line.cells)}) = {"plain"}
StandsOutIn(line) ==
  cli.terminal =>
    LET spoken == StylesOf(line, Speaking)
        red == "bold_red" \in spoken  dim == "dimmed" \in spoken
    IN  /\ line.errno # NoErrno <=> red \/ dim
        /\ dim => spoken = {"dimmed"} /\ is_path_lookup(line.name)
DecodedIn(line, evs) ==
  ~cli.no_category_colors =>
    \/ StylesOf(line, {"name"}) \subseteq {"plain", "bold", "dimmed"}
    \/ \E ev \in Range(evs) :
         Decodes(ev) /\ ev.name = line.name /\ PrettyArgs(ev.args) = line.args

NewLine(ev) == Line(Config, pretty_state, ev, decode(ev).args, decode(ev).category)

LEMMA NewLineIs ==
  ASSUME NEW ev \in Event
  PROVE  /\ NewLine(ev).pid = ev.pid /\ NewLine(ev).name = ev.name
         /\ NewLine(ev).errno = errno_of_ret(ev.ret)
         /\ NewLine(ev).args = PrettyArgs(decode(ev).args)
         /\ NewLine(ev).basename = lookup_basename(ev.name, decode(ev).args)
         /\ NewLine(ev).arrow = IsContinuation(Config, pretty_state, ev, NewLine(ev).basename)
         /\ NewLine(ev).cells = Cells(Config, ev, decode(ev).category,
                                      Padding(Config, pretty_state, ev), NewLine(ev).arrow)
BY DEF NewLine, Line

\* A line on no terminal.
LEMMA PlainNewLine ==
  ASSUME LinesTypeOK, cli \in Setups, NEW ev \in Event, ~Colored
  PROVE  /\ NewLine(ev).cells \in Seq(CellSet)
         /\ \A c \in Range(NewLine(ev).cells) : StyleOf(c) = "plain"
         /\ Range(NewLine(ev).cells) # {}
<1> DEFINE pad == Padding(Config, pretty_state, ev)  arrow == NewLine(ev).arrow
<1>1. pad.pid \in Nat /\ pad.name \in Nat /\ ~Config.color
  BY PaddingNat, ConfigIs
<1>2. arrow \in BOOLEAN
  BY NewLineIs, ConfigIs DEF IsContinuation
<1>3. NewLine(ev).cells = Cells(Config, ev, decode(ev).category, pad, arrow)
  BY NewLineIs
<1> HIDE DEF pad, arrow
<1> QED
  BY <1>1, <1>2, <1>3, PlainLine

\* ... and on one.
LEMMA ColorNewLine ==
  ASSUME LinesTypeOK, cli \in Setups, NEW ev \in Event, Colored
  PROVE  /\ DimLine(Config, ev) \in BOOLEAN
         /\ NewLine(ev).cells \in Seq(CellSet)
         /\ Spoken(NewLine(ev).cells) =
              {<<"name", NameLen[ev.name], name_style(Config, decode(ev).category, DimLine(Config, ev))>>}
                \cup Range(write_ret(ev.ret, TRUE, DimLine(Config, ev)))
<1>1. PICK pad : pad = Padding(Config, pretty_state, ev) /\ pad.pid \in Nat /\ pad.name \in Nat
  BY PaddingNat
<1>2. PICK arrow \in BOOLEAN : arrow = NewLine(ev).arrow
  BY NewLineIs, ConfigIs DEF IsContinuation
<1>3. PICK cfg : cfg = Config /\ cfg.color
  BY ConfigIs
<1>4. PICK family : family = decode(ev).category
  OBVIOUS
<1>5. DimLine(cfg, ev) \in BOOLEAN
  BY <1>3, ConfigIs DEF DimLine, is_path_lookup
<1>6. name_style(cfg, family, DimLine(cfg, ev)) \in Styles
  BY <1>3, <1>5, NameStyle
<1>7. /\ Cells(cfg, ev, family, pad, arrow) \in Seq(CellSet)
      /\ Spoken(Cells(cfg, ev, family, pad, arrow))
           = {<<"name", NameLen[ev.name], name_style(cfg, family, DimLine(cfg, ev))>>}
               \cup Range(write_ret(ev.ret, TRUE, DimLine(cfg, ev)))
  BY <1>1, <1>3, <1>5, <1>6, ColorLine
<1>8. NewLine(ev).cells = Cells(cfg, ev, family, pad, arrow)
  BY <1>1, <1>2, <1>3, <1>4, NewLineIs
<1> QED
  BY <1>3, <1>4, <1>5, <1>7, <1>8

\* What the three properties say of the line that a new event adds.
LEMMA NewLinePlain ==
  ASSUME LinesTypeOK, cli \in Setups, cli.output = "Pretty", NEW ev \in Event
  PROVE  PlainIn(NewLine(ev))
<1> SUFFICES ASSUME ~cli.terminal
             PROVE  StylesOf(NewLine(ev), {Token(c) : c \in Range(NewLine(ev).cells)}) = {"plain"}
  BY DEF PlainIn
<1>1. /\ \A c \in Range(NewLine(ev).cells) : StyleOf(c) = "plain"
      /\ Range(NewLine(ev).cells) # {}
  BY PlainNewLine DEF Colored
<1> DEFINE cells == Range(NewLine(ev).cells)
<1>2. StylesOf(NewLine(ev), {Token(c) : c \in cells}) = {StyleOf(c) : c \in cells}
  BY DEF StylesOf
<1> HIDE DEF cells
<1>3. {StyleOf(c) : c \in cells} = {"plain"}
  BY <1>1 DEF cells
<1> QED
  BY <1>2, <1>3 DEF cells

LEMMA NewLineStandsOut ==
  ASSUME LinesTypeOK, cli \in Setups, cli.output = "Pretty", NEW ev \in Event
  PROVE  StandsOutIn(NewLine(ev))
<1> SUFFICES ASSUME cli.terminal
             PROVE  StandsOutIn(NewLine(ev))
  BY DEF StandsOutIn
<1> DEFINE line == NewLine(ev)  dim == DimLine(Config, ev)
           style == name_style(Config, decode(ev).category, dim)
           name == <<"name", NameLen[ev.name], style>>
           ret == write_ret(ev.ret, TRUE, dim)
           named == errno_of_ret(ev.ret) # NoErrno
           spoken == StylesOf(line, Speaking)
<1>1. dim \in BOOLEAN /\ Spoken(line.cells) = {name} \cup Range(ret)
  BY ColorNewLine DEF Colored
<1>2. Config.color
  BY ConfigIs DEF Colored
<1>3. style # "bold_red" /\ (style = "dimmed" <=> dim)
  BY <1>1, <1>2, NameStyle
<1>4. spoken = {style} \cup {StyleOf(c) : c \in Range(ret)}
  <2>1. spoken = {StyleOf(c) : c \in Spoken(line.cells)}
    BY DEF StylesOf, Spoken
  <2>2. StyleOf(name) = style
    BY DEF StyleOf
  <2> HIDE DEF name, ret, style, line, spoken, dim
  <2> QED
    BY <1>1, <2>1, <2>2
<1>5. dim => ev.ret = -Enoent /\ is_path_lookup(ev.name) /\ named
  <2>1. dim => ev.ret = -Enoent /\ is_path_lookup(ev.name)
    BY DEF DimLine, RET_ENOENT
  <2>2. ev.ret = -Enoent => errno_of_ret(ev.ret) = Enoent /\ Enoent # NoErrno
    <3>1. Enoent \in Errnos /\ Enoent \in Nat /\ Enoent > 0
      BY RenderAssumption DEF Enoent
    <3>2. ASSUME ev.ret = -Enoent
          PROVE  ev.ret < 0 /\ -ev.ret = Enoent
      BY <3>1, <3>2
    <3> QED
      BY <3>1, <3>2 DEF errno_of_ret, NoErrno
  <2> QED
    BY <2>1, <2>2
<1>6. line.errno = errno_of_ret(ev.ret) /\ line.name = ev.name
  BY NewLineIs
<1>7. {StyleOf(c) : c \in Range(ret)} =
        IF dim THEN {"dimmed"}
        ELSE IF named THEN {"bold_red", "plain"} ELSE {"bold"}
  <2> DEFINE s == RetStyle(ev.ret, TRUE, dim)  t == IF dim THEN "dimmed" ELSE "plain"
  <2>1. Range(ret) = IF named THEN {<<"ret", 0, s>>, <<"errno", 0, s>>, <<"desc", 0, t>>}
                     ELSE {<<"ret", 0, s>>}
    BY <1>1, RetCells
  <2>2. s = (IF dim THEN "dimmed" ELSE IF named THEN "bold_red" ELSE "bold")
    BY DEF RetStyle
  <2>3. {StyleOf(c) : c \in Range(ret)} = IF named THEN {s, t} ELSE {s}
    <3> HIDE DEF s, t, ret, named
    <3>1. CASE named
      BY <2>1, <3>1 DEF StyleOf
    <3>2. CASE ~named
      BY <2>1, <3>2 DEF StyleOf
    <3> QED
      BY <3>1, <3>2
  <2>4. t = (IF dim THEN "dimmed" ELSE "plain")
    OBVIOUS
  <2> HIDE DEF s, t, ret, named, dim
  <2>5. dim \in BOOLEAN /\ (dim => named)
    BY <1>1, <1>5 DEF named, dim
  <2> QED
    BY <2>2, <2>3, <2>4, <2>5
<1> HIDE DEF line, dim, style, name, ret, named, spoken
<1>8. /\ named <=> "bold_red" \in spoken \/ "dimmed" \in spoken
      /\ "dimmed" \in spoken => spoken = {"dimmed"} /\ is_path_lookup(ev.name)
  <2>1. CASE dim
    BY <1>1, <1>3, <1>4, <1>5, <1>7, <2>1
  <2>2. CASE ~dim /\ named
    BY <1>1, <1>3, <1>4, <1>7, <2>2
  <2>3. CASE ~dim /\ ~named
    BY <1>1, <1>3, <1>4, <1>7, <2>3
  <2> QED
    BY <2>1, <2>2, <2>3
<1>9. StandsOutIn(line)
  BY <1>6, <1>8 DEF StandsOutIn, named, spoken
<1> QED
  BY <1>9 DEF line

LEMMA NewLineDecoded ==
  ASSUME LinesTypeOK, cli \in Setups, cli.output = "Pretty", NEW ev \in Event,
         NEW evs, ev \in Range(evs)
  PROVE  DecodedIn(NewLine(ev), evs)
<1> SUFFICES ASSUME ~cli.no_category_colors
             PROVE  \/ StylesOf(NewLine(ev), {"name"}) \subseteq {"plain", "bold", "dimmed"}
                    \/ \E e \in Range(evs) : /\ Decodes(e) /\ e.name = NewLine(ev).name
                                            /\ PrettyArgs(e.args) = NewLine(ev).args
  BY DEF DecodedIn
<1>1. CASE Decodes(ev)
  <2>1. decode(ev).args = ev.args
    BY <1>1 DEF decode
  <2> QED
    BY <1>1, <2>1, NewLineIs
<1>2. CASE ~Decodes(ev) /\ ~Colored
  <2>1. \A c \in Range(NewLine(ev).cells) : StyleOf(c) = "plain"
    BY <1>2, PlainNewLine
  <2> QED
    BY <2>1 DEF StylesOf
<1>3. CASE ~Decodes(ev) /\ Colored
  <2> DEFINE dim == DimLine(Config, ev)  style == name_style(Config, decode(ev).category, dim)
             name == <<"name", NameLen[ev.name], style>>  ret == write_ret(ev.ret, TRUE, dim)
             cells == NewLine(ev).cells
  <2>1. dim \in BOOLEAN /\ Spoken(cells) = {name} \cup Range(ret)
    BY <1>3, ColorNewLine
  <2>2. decode(ev).category = NoCategory
    BY <1>3 DEF decode
  <2>3. Config.color /\ Config.category_colors
    BY <1>3, ConfigIs
  <2>4. style \in {"bold", "dimmed"}
    BY <2>1, <2>2, <2>3, NameStyle
  <2>5. \A c \in Range(ret) : Token(c) # "name"
    <3> DEFINE s == RetStyle(ev.ret, TRUE, dim)  t == IF dim THEN "dimmed" ELSE "plain"
    <3>1. Range(ret) = IF errno_of_ret(ev.ret) # NoErrno
                       THEN {<<"ret", 0, s>>, <<"errno", 0, s>>, <<"desc", 0, t>>}
                       ELSE {<<"ret", 0, s>>}
      BY <2>1, RetCells
    <3> HIDE DEF ret, s, t
    <3> QED
      BY <3>1 DEF Token
  <2>6. StyleOf(name) = style
    BY DEF StyleOf
  <2> HIDE DEF dim, style, name, ret, cells
  <2>7. \A c \in Range(cells) : Token(c) = "name" => c = name
    BY <2>1, <2>5 DEF Spoken, Speaking
  <2>8. \A c \in Range(cells) : Token(c) = "name" => StyleOf(c) \in {"bold", "dimmed"}
    BY <2>4, <2>6, <2>7
  <2> QED
    BY <2>8 DEF StylesOf, cells
<1> QED
  BY <1>1, <1>2, <1>3

\* All that is said of one line without looking at the others.
WidthsIn(line) == \A k \in DOMAIN line.cells : Width(line.cells[k]) \in Nat
LineIn(line, evs) ==
  WidthsIn(line) /\ PlainIn(line) /\ StandsOutIn(line) /\ DecodedIn(line, evs)

LEMMA NewLineIn ==
  ASSUME LinesTypeOK, cli \in Setups, cli.output = "Pretty", NEW ev \in Event,
         NEW evs, ev \in Range(evs)
  PROVE  LineIn(NewLine(ev), evs)
<1>1. NewLine(ev).cells \in Seq(CellSet)
  BY PlainNewLine, ColorNewLine
<1>2. \A c \in CellSet : Width(c) \in Nat
  BY DEF CellSet, Width
<1>3. WidthsIn(NewLine(ev))
  <2> SUFFICES ASSUME NEW k \in DOMAIN NewLine(ev).cells
               PROVE  Width(NewLine(ev).cells[k]) \in Nat
    BY DEF WidthsIn
  <2>1. NewLine(ev).cells[k] \in CellSet
    BY <1>1
  <2> QED
    BY <1>2, <2>1
<1> QED
  BY <1>3, NewLinePlain, NewLineStandsOut, NewLineDecoded DEF LineIn

LinesSafe == PlainOffTerminal /\ FailuresStandOut /\ ColourMeansDecoded

LEMMA LinesSafeIs ==
  (\A i \in DOMAIN lines : WidthsIn(lines[i])) /\ LinesSafe
    <=> \A i \in DOMAIN lines : LineIn(lines[i], events)
<1>1. PlainOffTerminal <=> \A i \in DOMAIN lines : PlainIn(lines[i])
  BY DEF PlainOffTerminal, PlainIn
<1>2. FailuresStandOut <=> \A i \in DOMAIN lines : StandsOutIn(lines[i])
  BY DEF FailuresStandOut, StandsOutIn, Speaking
<1>3. ColourMeansDecoded <=> \A i \in DOMAIN lines : DecodedIn(lines[i], events)
  BY DEF ColourMeansDecoded, DecodedIn
<1> QED
  BY <1>1, <1>2, <1>3 DEF LinesSafe, LineIn

LineInv == LinesTypeOK /\ LinesInSync /\ BurstInSync /\ ArrowHasItsHead /\ LinesSafe

\* Nothing but BeginLine and EndLine touches the lines, and what is said of them
\* does not depend on anything that goes back.
LEMMA LinesKept ==
  ASSUME LineInv, UNCHANGED <<cli, lines, pretty_state>>, Range(events) \subseteq Range(events'),
         Silenced => Silenced', cli.output = "Pretty" => (pc = "write" <=> pc' = "write")
  PROVE  LineInv'
<1>1. LinesTypeOK' /\ LinesInSync'
  BY DEF LineInv, LinesTypeOK, LinesInSync
<1>2. ArrowHasItsHead'
  BY DEF LineInv, ArrowHasItsHead
<1>3. BurstInSync'
  <2> SUFFICES ASSUME cli.output = "Pretty", ~Silenced'
               PROVE  /\ pretty_state.last_basename # NoBasename =>
                           HeadIn(Written, pretty_state.last_basename, pretty_state.last_pid)'
                      /\ pc' = "write" /\ lines[Len(lines)].arrow =>
                           /\ lines[Len(lines)].basename = pretty_state.last_basename
                           /\ lines[Len(lines)].pid = pretty_state.last_pid
    BY DEF BurstInSync
  <2>1. BurstInSync /\ ~Silenced /\ (pc = "write" <=> pc' = "write")
    BY DEF LineInv
  <2>2. Written' = Written
    BY <2>1 DEF Written
  <2> QED
    BY <2>1, <2>2 DEF BurstInSync, HeadIn
<1>4. LinesSafe'
  <2>1. PlainOffTerminal' /\ FailuresStandOut'
    BY DEF LineInv, LinesSafe, PlainOffTerminal, FailuresStandOut
  <2>2. ColourMeansDecoded'
    BY DEF LineInv, LinesSafe, ColourMeansDecoded
  <2> QED
    BY <2>1, <2>2 DEF LinesSafe
<1> QED
  BY <1>1, <1>2, <1>3, <1>4 DEF LineInv

LEMMA LineAppended ==
  ASSUME lines \in Seq(Range(lines)), NEW line
  PROVE  LET n == Len(lines)  more == Append(lines, line)
         IN  /\ n \in Nat /\ DOMAIN more = 1 .. n + 1 /\ DOMAIN lines = 1 .. n
             /\ more[n + 1] = line /\ \A i \in 1 .. n : more[i] = lines[i]
             /\ Len(more) = n + 1 /\ more # <<>>
<1> DEFINE n == Len(lines)  S == Range(lines) \cup {line}
<1>1. n \in Nat /\ lines \in Seq(S) /\ line \in S
  BY LenProperties
<1> HIDE DEF S
<1>2. /\ Append(lines, line) \in Seq(S) /\ Len(Append(lines, line)) = n + 1
      /\ Append(lines, line)[n + 1] = line
      /\ \A i \in 1 .. n : Append(lines, line)[i] = lines[i]
  BY <1>1, AppendProperties
<1>3. DOMAIN Append(lines, line) = 1 .. n + 1 /\ DOMAIN lines = 1 .. n
  BY <1>1, <1>2, LenProperties
<1> QED
  BY <1>1, <1>2, <1>3

\* A new line: an arrow in it has the head of the burst that is remembered.
LEMMA LineAdded ==
  ASSUME LineInv, cli \in Setups, NEW ev \in Event, BeginLine(ev), events \in Seq(Event),
         cli.output = "Pretty"
  PROVE  LineInv'
<1> DEFINE n == Len(lines)
<1>l. PICK line : line = NewLine(ev)
  OBVIOUS
<1>1. /\ lines' = Append(lines, line)
      /\ pretty_state' = Grown(Config, pretty_state, ev)
      /\ cli' = cli /\ events' = Append(events, ev) /\ pc' = "write" /\ pc = "run"
      /\ ~Silenced
  BY <1>l DEF BeginLine, Handle, NewLine
<1>2. lines \in Seq(Range(lines)) /\ n \in Nat
  BY LenProperties DEF LineInv, LinesInSync
<1>3. /\ DOMAIN lines' = 1 .. n + 1 /\ DOMAIN lines = 1 .. n
      /\ lines'[n + 1] = line /\ \A i \in 1 .. n : lines'[i] = lines[i]
      /\ Len(lines') = n + 1 /\ lines' # <<>>
  BY <1>1, <1>2, LineAppended
<1>4. LinesInSync'
  <2>1. lines' \in Seq(Range(lines'))
    <3>1. \A i \in 1 .. n + 1 : lines'[i] \in Range(lines')
      BY <1>3 DEF Range
    <3>2. lines' \in Seq(Range(lines) \cup {line})
      BY <1>1, <1>2
    <3> QED
      BY <1>3, <3>1, <3>2, SeqOfRange
  <2> QED
    BY <1>1, <2>1 DEF LinesInSync
<1>5. LinesTypeOK' /\ LinesSafe'
  <2>1. ev \in Range(events') /\ Range(events) \subseteq Range(events')
    BY <1>1 DEF Range
  <2>2. LineIn(line, events')
    BY <1>l, <2>1, NewLineIn DEF LineInv
  <2>3. \A i \in DOMAIN lines : LineIn(lines[i], events)
    BY LinesSafeIs DEF LineInv, LinesTypeOK, WidthsIn
  <2>4. \A i \in DOMAIN lines' : LineIn(lines'[i], events')
    <3>1. \A i \in 1 .. n : LineIn(lines[i], events')
      BY <1>3, <2>1, <2>3 DEF LineIn, DecodedIn
    <3> QED
      BY <1>3, <2>2, <3>1
  <2>5. PlainOffTerminal'
    BY <1>1, <2>4 DEF PlainOffTerminal, LineIn, PlainIn
  <2>6. FailuresStandOut'
    BY <1>1, <2>4 DEF FailuresStandOut, LineIn, StandsOutIn, Speaking
  <2>7. ColourMeansDecoded'
    BY <1>1, <2>4 DEF ColourMeansDecoded, LineIn, DecodedIn
  <2>8. LinesTypeOK'
    BY <1>1, <2>4, PaddingNat DEF LineInv, LinesTypeOK, LineIn, WidthsIn
  <2> QED
    BY <2>5, <2>6, <2>7, <2>8 DEF LinesSafe
<1>6. pretty_state'.last_basename = pretty_state.last_basename
      /\ pretty_state'.last_pid = pretty_state.last_pid
  BY <1>1, PaddingNat DEF LineInv
<1>7. line.arrow => /\ line.basename # NoBasename
                   /\ line.basename = pretty_state.last_basename
                   /\ line.pid = pretty_state.last_pid
  BY <1>l, NewLineIs DEF IsContinuation
<1>8. /\ pretty_state.last_basename # NoBasename =>
           HeadIn(n, pretty_state.last_basename, pretty_state.last_pid)
      /\ Written = n
  BY <1>1 DEF LineInv, BurstInSync, Written
<1>9. BurstInSync'
  <2>1. Written' = n
    BY <1>1, <1>2, <1>3 DEF Written
  <2>2. ASSUME NEW b, NEW p, HeadIn(n, b, p)
        PROVE  \E j \in 1 .. n :
                 /\ ~lines'[j].arrow /\ lines'[j].basename = b
                 /\ \A k \in j .. n : lines'[k].basename # NoBasename =>
                      lines'[k].basename = b /\ lines'[k].pid = p
    BY <1>2, <1>3, <2>2 DEF HeadIn
  <2>3. pretty_state'.last_basename # NoBasename =>
          HeadIn(Written, pretty_state.last_basename, pretty_state.last_pid)'
    <3>1. PICK b, p : b = pretty_state.last_basename /\ p = pretty_state.last_pid
      OBVIOUS
    <3>2. b # NoBasename =>
            \E j \in 1 .. n :
              /\ ~lines'[j].arrow /\ lines'[j].basename = b
              /\ \A k \in j .. n : lines'[k].basename # NoBasename =>
                   lines'[k].basename = b /\ lines'[k].pid = p
      BY <1>8, <2>2, <3>1
    <3> QED
      BY <1>6, <2>1, <3>1, <3>2 DEF HeadIn
  <2>4. lines'[Len(lines')].arrow =>
          /\ lines'[Len(lines')].basename = pretty_state'.last_basename
          /\ lines'[Len(lines')].pid = pretty_state'.last_pid
    BY <1>3, <1>6, <1>7
  <2> QED
    BY <2>3, <2>4 DEF BurstInSync
<1>10. ArrowHasItsHead'
  <2> SUFFICES ASSUME NEW i \in 1 .. n + 1, lines'[i].arrow
               PROVE  \E j \in 1 .. i - 1 :
                        /\ ~lines'[j].arrow
                        /\ \A k \in j .. i - 1 : lines'[k].basename # NoBasename =>
                             lines'[k].basename = lines'[i].basename /\ lines'[k].pid = lines'[i].pid
                        /\ lines'[j].basename = lines'[i].basename
    BY <1>3 DEF ArrowHasItsHead
  <2>1. CASE i \in 1 .. n
    <3>1. PICK j \in 1 .. i - 1 :
            /\ ~lines[j].arrow
            /\ \A k \in j .. i - 1 : lines[k].basename # NoBasename =>
                 lines[k].basename = lines[i].basename /\ lines[k].pid = lines[i].pid
            /\ lines[j].basename = lines[i].basename
      BY <1>3, <2>1 DEF LineInv, ArrowHasItsHead
    <3> QED
      BY <1>2, <1>3, <2>1, <3>1
  <2>2. CASE i = n + 1
    <3>1. PICK j \in 1 .. n :
            /\ ~lines[j].arrow /\ lines[j].basename = line.basename
            /\ \A k \in j .. n : lines[k].basename # NoBasename =>
                 lines[k].basename = line.basename /\ lines[k].pid = line.pid
      BY <1>3, <1>7, <1>8, <2>2 DEF HeadIn
    <3> QED
      BY <1>2, <1>3, <2>2, <3>1
  <2> QED
    BY <1>2, <2>1, <2>2
<1> QED
  BY <1>4, <1>5, <1>9, <1>10 DEF LineInv

\* A line that is written: what is remembered of it has its head.
LEMMA LineEnded ==
  ASSUME LineInv, EndLine, cli.output = "Pretty", ~Silenced, lines # <<>>
  PROVE  LineInv'
<1> DEFINE n == Len(lines)
<1>l. PICK line : line = lines[n]
  OBVIOUS
<1>1. /\ pretty_state' = Remembered(pretty_state, line) /\ pc = "write" /\ pc' = "run"
      /\ UNCHANGED <<cli, events, lines, closed, first_err>>
  BY <1>l DEF EndLine
<1>2. n \in Nat \ {0} /\ DOMAIN lines = 1 .. n
  BY LenProperties, EmptySeq DEF LineInv, LinesInSync
<1>3. /\ pretty_state'.pid_width = pretty_state.pid_width
      /\ pretty_state'.name_width = pretty_state.name_width
      /\ line.basename = NoBasename =>
           /\ pretty_state'.last_basename = pretty_state.last_basename
           /\ pretty_state'.last_pid = pretty_state.last_pid
      /\ line.basename # NoBasename =>
           pretty_state'.last_basename = line.basename /\ pretty_state'.last_pid = line.pid
  BY <1>1 DEF Remembered
<1>4. LinesTypeOK' /\ LinesInSync'
  BY <1>1, <1>3 DEF LineInv, LinesTypeOK, LinesInSync
<1>5. LinesSafe' /\ ArrowHasItsHead'
  <2>1. PlainOffTerminal' /\ FailuresStandOut'
    BY <1>1 DEF LineInv, LinesSafe, PlainOffTerminal, FailuresStandOut
  <2>2. ColourMeansDecoded'
    BY <1>1 DEF LineInv, LinesSafe, ColourMeansDecoded
  <2>3. ArrowHasItsHead'
    BY <1>1 DEF LineInv, ArrowHasItsHead
  <2> QED
    BY <2>1, <2>2, <2>3 DEF LinesSafe
<1>6. /\ pretty_state.last_basename # NoBasename =>
           HeadIn(n - 1, pretty_state.last_basename, pretty_state.last_pid)
      /\ line.arrow => line.basename = pretty_state.last_basename /\ line.pid = pretty_state.last_pid
  BY <1>1, <1>l DEF LineInv, BurstInSync, Written
<1>7. ASSUME NEW b, NEW p, HeadIn(n - 1, b, p),
             line.basename = NoBasename \/ (line.basename = b /\ line.pid = p)
      PROVE  HeadIn(n, b, p)
  <2>1. PICK j \in 1 .. n - 1 :
          /\ ~lines[j].arrow /\ lines[j].basename = b
          /\ \A k \in j .. n - 1 : lines[k].basename # NoBasename =>
               lines[k].basename = b /\ lines[k].pid = p
    BY <1>7 DEF HeadIn
  <2>2. \A k \in j .. n : lines[k].basename # NoBasename =>
          lines[k].basename = b /\ lines[k].pid = p
    BY <1>2, <1>7, <1>l, <2>1
  <2> QED
    BY <1>2, <2>1, <2>2 DEF HeadIn
<1>8. pretty_state'.last_basename # NoBasename =>
        HeadIn(n, pretty_state'.last_basename, pretty_state'.last_pid)
  <2>1. CASE line.basename = NoBasename
    BY <1>3, <1>6, <1>7, <2>1
  <2>2. CASE line.basename # NoBasename /\ line.arrow
    BY <1>3, <1>6, <1>7, <2>2
  <2>3. CASE line.basename # NoBasename /\ ~line.arrow
    BY <1>2, <1>3, <1>l, <2>3 DEF HeadIn
  <2> QED
    BY <2>1, <2>2, <2>3
<1>9. BurstInSync'
  <2>1. Written' = n
    BY <1>1 DEF Written
  <2>2. HeadIn(Written, pretty_state.last_basename, pretty_state.last_pid)'
          <=> HeadIn(n, pretty_state'.last_basename, pretty_state'.last_pid)
    BY <1>1, <2>1 DEF HeadIn
  <2> QED
    BY <1>1, <1>8, <2>2 DEF BurstInSync
<1> QED
  BY <1>4, <1>5, <1>9 DEF LineInv

\* The lines of a step.
LEMMA LinesInductive ==
  ASSUME Control, PipeTypeOK, LineInv, [Next]_vars
  PROVE  LineInv'
<1>1. cli \in Setups /\ events \in Seq(Event)
  BY DEF Control, ControlTypeOK, PipeTypeOK
<1> USE DEF Silenced
<1>2. ASSUME NEW ev \in Event, Drop(ev)
      PROVE  LineInv'
  <2>1. Range(events) \subseteq Range(events')
    BY <1>1, <1>2 DEF Drop, Handle, Range
  <2> QED
    BY <1>2, <2>1, LinesKept DEF Drop, Handle, lineVars
<1>3. ASSUME NEW ev \in Event, BeginLine(ev)
      PROVE  LineInv'
  <2>1. CASE cli.output = "Pretty"
    BY <1>1, <1>3, <2>1, LineAdded
  <2>2. CASE cli.output # "Pretty"
    <3>1. Range(events) \subseteq Range(events')
      BY <1>1, <1>3 DEF BeginLine, Handle, Range
    <3> QED
      BY <1>3, <2>2, <3>1, LinesKept DEF BeginLine, Handle, lineVars
  <2> QED
    BY <2>1, <2>2
<1>4. CASE EndLine
  <2>1. CASE cli.output = "Pretty"
    <3>1. ~Silenced /\ lines # <<>>
      BY <1>4, <2>1 DEF EndLine, Control, WritingInSync
    <3> QED
      BY <1>4, <2>1, <3>1, LineEnded
  <2>2. CASE cli.output # "Pretty"
    BY <1>4, <2>2, LinesKept DEF EndLine
  <2> QED
    BY <2>1, <2>2
<1>5. CASE WriteFails
  <2>1. UNCHANGED <<cli, lines, pretty_state, events>> /\ pc = "write" /\ pc' = "run"
    BY <1>5 DEF WriteFails, lineVars
  <2>2. Silenced'
    BY <1>5 DEF WriteFails, Record
  <2>3. LinesTypeOK' /\ LinesInSync'
    BY <2>1 DEF LineInv, LinesTypeOK, LinesInSync
  <2>4. ArrowHasItsHead' /\ BurstInSync'
    BY <2>1, <2>2 DEF LineInv, ArrowHasItsHead, BurstInSync
  <2>5. PlainOffTerminal' /\ FailuresStandOut'
    BY <2>1 DEF LineInv, LinesSafe, PlainOffTerminal, FailuresStandOut
  <2>6. ColourMeansDecoded'
    BY <2>1 DEF LineInv, LinesSafe, ColourMeansDecoded
  <2> QED
    BY <2>3, <2>4, <2>5, <2>6 DEF LineInv, LinesSafe
<1>6. CASE Finish
  <2>1. Silenced => Silenced'
    BY <1>6 DEF Finish, Record
  <2> QED
    BY <1>6, <2>1, LinesKept DEF Finish, lineVars
<1>7. CASE UsageError \/ SpawnFails \/ Start \/ WritePiece \/ RunReturns \/ DropWriter
           \/ ReaderLeaves \/ Over \/ UNCHANGED vars
  <2>1. UNCHANGED <<cli, lines, pretty_state, events, closed, first_err>>
    BY <1>7 DEF UsageError, SpawnFails, Start, WritePiece, RunReturns, DropWriter, ReaderLeaves,
                Over, vars, lineVars
  <2>2. pc = "write" <=> pc' = "write"
    BY <1>7 DEF UsageError, SpawnFails, Start, WritePiece, RunReturns, DropWriter, ReaderLeaves,
                Over, vars
  <2> QED
    BY <2>1, <2>2, LinesKept
<1> QED
  BY <1>2, <1>3, <1>4, <1>5, <1>6, <1>7 DEF Next

-----------------------------------------------------------------------------
(* The columns of a line                                                   *)

\* The characters of the k-th cell.
Row(k, width) == {k} \X (1 .. width)

LEMMA RowCounts ==
  ASSUME NEW k, NEW width \in Nat
  PROVE  IsFiniteSet(Row(k, width)) /\ Cardinality(Row(k, width)) = width
<1>1. IsFiniteSet({k}) /\ Cardinality({k}) = 1
  BY FS_Singleton
<1>2. IsFiniteSet(1 .. width) /\ Cardinality(1 .. width) = width
  <2>1. /\ IsFiniteSet(1 .. width)
        /\ Cardinality(1 .. width) = IF 1 > width THEN 0 ELSE width - 1 + 1
    BY FS_Interval
  <2> QED
    BY <2>1
<1>3. /\ IsFiniteSet({k} \X (1 .. width))
      /\ Cardinality({k} \X (1 .. width)) = Cardinality({k}) * Cardinality(1 .. width)
  BY <1>1, <1>2, FS_Product
<1> QED
  BY <1>1, <1>2, <1>3 DEF Row

\* What stands to the left of a cell does not depend on what comes after it.
LEMMA LeftKept ==
  ASSUME NEW s \in Seq(CellSet), NEW t \in Seq(CellSet), NEW k \in 1 .. Len(s) + 1
  PROVE  LeftOf(s \o t, k) = LeftOf(s, k)
<1>1. \A j \in 1 .. k - 1 : (s \o t)[j] = s[j]
  BY Joined, LenProperties
<1> DEFINE u == s \o t
<1> HIDE DEF u
<1>2. \A j \in 1 .. k - 1 : u[j] = s[j]
  BY <1>1 DEF u
<1>3. LeftOf(u, k) = LeftOf(s, k)
  BY <1>2 DEF LeftOf
<1> QED
  BY <1>3 DEF u

\* The cells take n characters together.
Measured(cells, n) ==
  /\ IsFiniteSet(LeftOf(cells, Len(cells) + 1))
  /\ Cardinality(LeftOf(cells, Len(cells) + 1)) = n

LEMMA MeasuredEmpty == Measured(<<>>, 0)
<1>1. LeftOf(<<>>, Len(<<>>) + 1) = {}
  BY DEF LeftOf
<1> QED
  BY <1>1, FS_EmptySet DEF Measured

LEMMA MeasuredCell ==
  ASSUME NEW s \in Seq(CellSet), NEW n \in Nat, Measured(s, n),
         NEW c \in CellSet
  PROVE  s \o <<c>> \in Seq(CellSet) /\ Measured(s \o <<c>>, n + Width(c))
<1> DEFINE t == <<c>>  u == s \o t  end == Len(s) + 1
           left == LeftOf(s, end)  row == Row(end, Width(c))
<1>1. Width(c) \in Nat
  BY DEF CellSet, Width
<1>2. Len(s) \in Nat /\ end \in Nat \ {0} /\ end \in 1 .. Len(s) + 1
  BY LenProperties
<1>3. t \in Seq(CellSet) /\ Len(t) = 1 /\ t[1] = c
  OBVIOUS
<1> HIDE DEF t
<1>4. u \in Seq(CellSet) /\ Len(u) = end /\ u[end] = c
  <2>1. u[end] = IF end <= Len(s) THEN s[end] ELSE t[end - Len(s)]
    BY <1>2, <1>3, ConcatProperties
  <2>2. u \in Seq(CellSet) /\ Len(u) = Len(s) + Len(t)
    BY <1>3, ConcatProperties
  <2> HIDE DEF u
  <2> QED
    BY <1>2, <1>3, <2>1, <2>2
<1>5. LeftOf(u, end) = left
  BY <1>2, <1>3, LeftKept
<1> HIDE DEF u, end
<1>6. LeftOf(u, end + 1) = LeftOf(u, end) \cup row
  <2>1. 1 .. (end + 1) - 1 = (1 .. end - 1) \cup {end}
    BY <1>2
  <2> QED
    BY <1>4, <2>1 DEF LeftOf, Row
<1>7. left \cap row = {}
  <2>1. \A x \in row : x[1] = end
    BY DEF Row
  <2>2. \A x \in left : x[1] \in 1 .. end - 1
    BY DEF LeftOf
  <2>3. end \notin 1 .. end - 1
    BY <1>2
  <2> QED
    BY <2>1, <2>2, <2>3
<1>8. IsFiniteSet(left) /\ Cardinality(left) = n
  BY DEF Measured, end
<1>9. IsFiniteSet(row) /\ Cardinality(row) = Width(c)
  BY <1>1, RowCounts
<1> HIDE DEF left, row
<1>10. IsFiniteSet(left \cup row) /\ Cardinality(left \cup row) = n + Width(c)
  <2>1. /\ IsFiniteSet(left \cup row)
        /\ Cardinality(left \cup row)
             = Cardinality(left) + Cardinality(row) - Cardinality(left \cap row)
    BY <1>8, <1>9, FS_Union
  <2>2. Cardinality(left \cap row) = 0
    BY <1>7, FS_EmptySet
  <2> QED
    BY <1>1, <1>8, <1>9, <2>1, <2>2
<1>11. Measured(u, n + Width(c))
  BY <1>4, <1>5, <1>6, <1>10 DEF Measured
<1> QED
  BY <1>4, <1>11 DEF u, t

LEMMA MeasuredSpaces ==
  ASSUME NEW s \in Seq(CellSet), NEW n \in Nat, Measured(s, n), NEW k \in Nat
  PROVE  s \o write_spaces(k) \in Seq(CellSet) /\ Measured(s \o write_spaces(k), n + k)
<1>1. CASE k = 0
  <2>1. s \o write_spaces(k) = s /\ n + k = n
    BY <1>1, ConcatEmptySeq DEF write_spaces
  <2> QED
    BY <2>1
<1>2. CASE k # 0
  <2>1. PICK c : c = <<"spaces", k, "plain">>
    OBVIOUS
  <2>2. c \in CellSet /\ Width(c) = k
    BY <2>1 DEF CellSet, Tokens, Styles, Width
  <2>3. write_spaces(k) = <<c>>
    BY <1>2, <2>1 DEF write_spaces, Cell
  <2> QED
    BY <2>2, <2>3, MeasuredCell
<1> QED
  BY <1>1, <1>2

LEMMA MeasuredStart ==
  ASSUME NEW c \in CellSet, NEW k \in Nat
  PROVE  /\ <<c>> \in Seq(CellSet) /\ Measured(<<c>>, Width(c))
         /\ write_spaces(k) \in Seq(CellSet) /\ Measured(write_spaces(k), k)
<1>1. <<>> \in Seq(CellSet) /\ Measured(<<>>, 0) /\ Width(c) \in Nat
  BY MeasuredEmpty DEF CellSet, Width
<1>2. <<c>> \in Seq(CellSet) /\ <<>> \o <<c>> = <<c>>
  <2>1. <<c>> \in Seq(CellSet)
    OBVIOUS
  <2> QED
    BY <2>1, ConcatEmptySeq
<1>3. Measured(<<c>>, 0 + Width(c))
  BY <1>1, <1>2, MeasuredCell
<1>4. write_spaces(k) \in Seq(CellSet) /\ <<>> \o write_spaces(k) = write_spaces(k)
  BY SpacesCells, ConcatEmptySeq
<1>5. Measured(write_spaces(k), 0 + k)
  BY <1>1, <1>4, MeasuredSpaces
<1> QED
  BY <1>1, <1>2, <1>3, <1>4, <1>5

\* A column begins behind what was measured before its cell ...
LEMMA ColumnBegins ==
  ASSUME NEW s \in Seq(CellSet), NEW n \in Nat, Measured(s, n), NEW c \in CellSet,
         \A d \in Range(s) : Token(d) # Token(c)
  PROVE  Columns(s \o <<c>>, Token(c)) = {n}
<1> DEFINE t == <<c>>  u == s \o t  end == Len(s) + 1
<1>1. Len(s) \in Nat /\ end \in 1 .. Len(s) + 1
  BY LenProperties
<1>2. t \in Seq(CellSet) /\ Len(t) = 1 /\ t[1] = c /\ DOMAIN t = {1}
  OBVIOUS
<1> HIDE DEF t
<1>3. DOMAIN u = 1 .. end
  BY <1>2, Joined
<1>4. u[end] = c
  BY <1>1, <1>2, ConcatProperties
<1>5. \A k \in 1 .. Len(s) : Token(u[k]) # Token(c)
  <2>1. \A k \in 1 .. Len(s) : u[k] = s[k] /\ k \in DOMAIN s
    BY <1>1, <1>2, Joined, LenProperties
  <2> HIDE DEF u
  <2> QED
    BY <2>1 DEF Range
<1>6. Cardinality(LeftOf(u, end)) = n
  BY <1>1, <1>2, LeftKept DEF Measured
<1> HIDE DEF u, end
<1>7. {j \in DOMAIN u : Token(u[j]) = Token(c)} = {end}
  BY <1>1, <1>3, <1>4, <1>5 DEF end
<1>8. Columns(u, Token(c)) = {n}
  BY <1>6, <1>7 DEF Columns
<1> QED
  BY <1>8 DEF u, t

\* ... and stays there whatever follows it.
LEMMA ColumnKept ==
  ASSUME NEW s \in Seq(CellSet), NEW t \in Seq(CellSet), NEW token,
         \A c \in Range(t) : Token(c) # token
  PROVE  s \o t \in Seq(CellSet) /\ Columns(s \o t, token) = Columns(s, token)
<1> DEFINE u == s \o t
<1>1. DOMAIN s = 1 .. Len(s) /\ Len(s) \in Nat
  BY LenProperties
<1>2. \A k \in DOMAIN s : k \in DOMAIN u /\ u[k] = s[k]
  BY Joined
<1>3. \A k \in DOMAIN u \ DOMAIN s : Token(u[k]) # token
  <2>1. \A k \in DOMAIN u \ DOMAIN s : k - Len(s) \in DOMAIN t /\ u[k] = t[k - Len(s)]
    BY Joined
  <2> HIDE DEF u
  <2> QED
    BY <2>1 DEF Range
<1>4. \A k \in DOMAIN s : LeftOf(u, k) = LeftOf(s, k)
  BY <1>1, LeftKept
<1>5. u \in Seq(CellSet)
  BY ConcatProperties
<1> HIDE DEF u
<1>6. {j \in DOMAIN u : Token(u[j]) = token} = {j \in DOMAIN s : Token(s[j]) = token}
  BY <1>2, <1>3
<1>7. Columns(u, token) = Columns(s, token)
  BY <1>4, <1>6 DEF Columns
<1> QED
  BY <1>5, <1>7 DEF u

LEMMA RangeJoined ==
  ASSUME NEW s \in Seq(CellSet), NEW t \in Seq(CellSet)
  PROVE  Range(s \o t) = Range(s) \cup Range(t)
BY Glued

\* The pid column is as wide in colour as without, and behind an arrow as behind
\* a pid; what it consists of is neither the name nor the arguments.
LEMMA PidColumnWidth ==
  ASSUME NEW pid \in DOMAIN PidLen, NEW pad \in Nat, NEW arrow \in BOOLEAN
  PROVE  /\ Measured(write_pid_column_color(pid, pad, arrow), PidLen[pid] + pad)
         /\ Measured(write_pid_column_plain(pid, pad, arrow), PidLen[pid] + pad)
         /\ write_pid_column_color(pid, pad, arrow) \in Seq(CellSet)
         /\ write_pid_column_plain(pid, pad, arrow) \in Seq(CellSet)
         /\ \A c \in Range(write_pid_column_color(pid, pad, arrow)) :
              Token(c) \notin {"name", "args"}
         /\ \A c \in Range(write_pid_column_plain(pid, pad, arrow)) :
              Token(c) \notin {"name", "args"}
<1>1. PICK len \in Nat, lead \in Nat, total \in Nat :
        /\ len = PidLen[pid] /\ lead = Lead(pid, pad) /\ total = PidLen[pid] + pad
        /\ total = len + pad /\ total = lead + BURST_PREFIX
  BY PrettyAssumption DEF Lead, BURST_PREFIX
<1>2. PICK ac, ap, pco, pp :
        /\ ac = <<"arrow", BURST_PREFIX, "dimmed">> /\ ap = <<"arrow", BURST_PREFIX, "plain">>
        /\ pco = <<"pid", len, "dimmed">> /\ pp = <<"pid", total, "plain">>
  OBVIOUS
<1>3. /\ ac \in CellSet /\ ap \in CellSet /\ pco \in CellSet /\ pp \in CellSet
      /\ Width(ac) = BURST_PREFIX /\ Width(ap) = BURST_PREFIX
      /\ Width(pco) = len /\ Width(pp) = total
      /\ \A c \in {ac, ap, pco, pp} : Token(c) \in {"arrow", "pid"}
  BY <1>1, <1>2 DEF CellSet, Tokens, Styles, Width, Token, BURST_PREFIX
<1>4. /\ write_pid_column_color(pid, pad, arrow) =
           IF arrow THEN write_spaces(lead) \o <<ac>> ELSE <<pco>> \o write_spaces(pad)
      /\ write_pid_column_plain(pid, pad, arrow) =
           IF arrow THEN write_spaces(lead) \o <<ap>> ELSE <<pp>>
  BY <1>1, <1>2 DEF write_pid_column_color, write_pid_column_plain, Cell
<1>5. /\ write_spaces(lead) \in Seq(CellSet) /\ Measured(write_spaces(lead), lead)
      /\ <<pco>> \in Seq(CellSet) /\ Measured(<<pco>>, len)
      /\ <<pp>> \in Seq(CellSet) /\ Measured(<<pp>>, total)
  BY <1>1, <1>3, MeasuredStart
<1>6. /\ write_spaces(lead) \o <<ac>> \in Seq(CellSet) /\ Measured(write_spaces(lead) \o <<ac>>, total)
      /\ write_spaces(lead) \o <<ap>> \in Seq(CellSet) /\ Measured(write_spaces(lead) \o <<ap>>, total)
  BY <1>1, <1>3, <1>5, MeasuredCell
<1>7. <<pco>> \o write_spaces(pad) \in Seq(CellSet) /\ Measured(<<pco>> \o write_spaces(pad), total)
  BY <1>1, <1>5, MeasuredSpaces
<1>8. /\ \A c \in Range(write_spaces(lead)) : Token(c) = "spaces"
      /\ \A c \in Range(write_spaces(pad)) : Token(c) = "spaces"
      /\ write_spaces(pad) \in Seq(CellSet)
  BY <1>1, SpacesCells
<1>9. /\ Range(<<ac>>) = {ac} /\ Range(<<ap>>) = {ap} /\ Range(<<pco>>) = {pco} /\ Range(<<pp>>) = {pp}
      /\ <<ac>> \in Seq(CellSet) /\ <<ap>> \in Seq(CellSet)
  BY <1>3, RangeOfCells
<1>10. /\ Range(write_spaces(lead) \o <<ac>>) = Range(write_spaces(lead)) \cup {ac}
       /\ Range(write_spaces(lead) \o <<ap>>) = Range(write_spaces(lead)) \cup {ap}
       /\ Range(<<pco>> \o write_spaces(pad)) = {pco} \cup Range(write_spaces(pad))
  <2>1. PICK a \in Seq(CellSet), b \in Seq(CellSet), c \in Seq(CellSet), d \in Seq(CellSet),
             e \in Seq(CellSet) :
          /\ a = write_spaces(lead) /\ b = write_spaces(pad)
          /\ c = <<ac>> /\ d = <<ap>> /\ e = <<pco>>
    BY <1>5, <1>8, <1>9
  <2>2. /\ Range(a \o c) = Range(a) \cup Range(c) /\ Range(a \o d) = Range(a) \cup Range(d)
        /\ Range(e \o b) = Range(e) \cup Range(b)
    BY ONLY RangeJoined
  <2> QED
    BY <1>9, <2>1, <2>2
<1>11. /\ \A c \in Range(write_spaces(lead) \o <<ac>>) : Token(c) \notin {"name", "args"}
       /\ \A c \in Range(write_spaces(lead) \o <<ap>>) : Token(c) \notin {"name", "args"}
       /\ \A c \in Range(<<pco>> \o write_spaces(pad)) : Token(c) \notin {"name", "args"}
       /\ \A c \in Range(<<pp>>) : Token(c) \notin {"name", "args"}
  BY <1>3, <1>8, <1>9, <1>10
<1>12. CASE arrow
  BY <1>1, <1>4, <1>6, <1>11, <1>12
<1>13. CASE ~arrow
  BY <1>1, <1>4, <1>5, <1>7, <1>11, <1>13
<1> QED
  BY <1>12, <1>13

\* What ends a line has no column that begins in it.
LEMMA LineEndKeeps ==
  ASSUME NEW s \in Seq(CellSet), NEW ret, NEW color \in BOOLEAN, NEW dim \in BOOLEAN,
         NEW style \in Styles, NEW token \in {"name", "args"}
  PROVE  Columns((s \o write_ret(ret, color, dim)) \o <<<<"duration", 0, style>>>>, token)
           = Columns(s, token)
<1>1. PICK r : r = write_ret(ret, color, dim)
  OBVIOUS
<1>2. r \in Seq(CellSet) /\ \A c \in Range(r) : Token(c) # token
  <2>1. /\ r \in Seq(CellSet)
        /\ \A c \in Range(r) : c[1] \in {"ret", "errno", "desc"}
    <3>1. PICK a, b : /\ a = RetStyle(ret, color, dim)
                     /\ b = IF dim THEN "dimmed" ELSE "plain"
      OBVIOUS
    <3>2. r \in Seq(CellSet) /\
          Range(r) = IF errno_of_ret(ret) # NoErrno
                     THEN {<<"ret", 0, a>>, <<"errno", 0, a>>, <<"desc", 0, b>>}
                     ELSE {<<"ret", 0, a>>}
      BY <1>1, <3>1, RetCells
    <3>3. Range(r) \subseteq {<<"ret", 0, a>>, <<"errno", 0, a>>, <<"desc", 0, b>>}
      BY <3>2
    <3> QED
      BY <3>2, <3>3
  <2> QED
    BY <2>1 DEF Token
<1>3. PICK d : d = <<"duration", 0, style>>
  OBVIOUS
<1>4. d \in CellSet /\ Token(d) # token
  BY <1>3 DEF CellSet, Tokens, Token
<1>5. PICK end \in Seq(CellSet) : end = <<d>> /\ \A c \in Range(end) : Token(c) # token
  BY <1>4, RangeOfCells
<1>6. s \o r \in Seq(CellSet) /\ Columns(s \o r, token) = Columns(s, token)
  BY <1>2, ColumnKept
<1>7. PICK sr \in Seq(CellSet) : sr = s \o r
  BY <1>6
<1>8. Columns(sr \o end, token) = Columns(sr, token)
  BY <1>5, ColumnKept
<1> QED
  BY <1>1, <1>3, <1>5, <1>6, <1>7, <1>8

\* Where a line has its columns.
ColumnsAt(cells, name_at, args_at) ==
  Columns(cells, "name") = {name_at} /\ Columns(cells, "args") = {args_at}

\* The part of a line from the name to the arguments, behind a pid column.
LEMMA ColorColumns ==
  ASSUME NEW s \in Seq(CellSet), NEW n \in Nat, Measured(s, n),
         \A c \in Range(s) : Token(c) \notin {"name", "args"},
         NEW len \in Nat, NEW pad \in Nat, NEW style \in Styles
  PROVE  /\ ((s \o <<<<"name", len, style>>>>) \o write_spaces(pad)) \o <<<<"args", 0, "plain">>>>
              \in Seq(CellSet)
         /\ ColumnsAt(((s \o <<<<"name", len, style>>>>) \o write_spaces(pad))
                        \o <<<<"args", 0, "plain">>>>, n, n + len + pad)
<1>1. PICK name, args : name = <<"name", len, style>> /\ args = <<"args", 0, "plain">>
  OBVIOUS
<1>2. /\ name \in CellSet /\ Width(name) = len /\ Token(name) = "name"
      /\ args \in CellSet /\ Token(args) = "args"
  BY <1>1 DEF CellSet, Tokens, Styles, Width, Token
<1>3. PICK t \in Seq(CellSet) : t = s \o <<name>> /\ Measured(t, n + len)
  BY <1>2, MeasuredCell
<1>4. Columns(t, "name") = {n}
  BY <1>2, <1>3, ColumnBegins
<1>5. \A c \in Range(write_spaces(pad)) : Token(c) = "spaces"
  BY SpacesCells
<1>6. write_spaces(pad) \in Seq(CellSet)
  BY SpacesCells
<1>7. n + len \in Nat
  OBVIOUS
<1>8. PICK u \in Seq(CellSet) : u = t \o write_spaces(pad) /\ Measured(u, n + len + pad)
  BY <1>3, <1>7, MeasuredSpaces
<1>9. Columns(u, "name") = {n}
  BY <1>4, <1>5, <1>6, <1>8, ColumnKept
<1>10. \A c \in Range(u) : Token(c) # "args"
  <2>1. <<name>> \in Seq(CellSet) /\ Range(<<name>>) = {name}
    BY <1>2, RangeOfCells
  <2>2. Range(t) = Range(s) \cup {name}
    <3>1. PICK h \in Seq(CellSet) : h = <<name>>
      BY <2>1
    <3>2. Range(s \o h) = Range(s) \cup Range(h)
      BY ONLY RangeJoined
    <3> QED
      BY <1>3, <2>1, <3>1, <3>2
  <2>3. Range(u) = Range(t) \cup Range(write_spaces(pad))
    BY <1>6, <1>8, Glued
  <2> QED
    BY <1>2, <1>5, <2>2, <2>3
<1>11. n + len + pad \in Nat
  OBVIOUS
<1>12. Columns(u \o <<args>>, "args") = {n + len + pad}
  <2>1. PICK m \in Nat : m = n + len + pad /\ Measured(u, m)
    BY <1>8, <1>11
  <2>2. \A d \in Range(u) : Token(d) # Token(args)
    BY <1>2, <1>10
  <2>3. Columns(u \o <<args>>, Token(args)) = {m}
    BY <1>2, <2>1, <2>2, ColumnBegins
  <2> QED
    BY <1>2, <2>1, <2>3
<1>13. <<args>> \in Seq(CellSet) /\ \A c \in Range(<<args>>) : Token(c) # "name"
  BY <1>2, RangeOfCells
<1>14. u \o <<args>> \in Seq(CellSet) /\ Columns(u \o <<args>>, "name") = {n}
  BY <1>9, <1>13, ColumnKept
<1> QED
  BY <1>1, <1>3, <1>8, <1>12, <1>14 DEF ColumnsAt

\* In no colour the padding of the name belongs to it.
LEMMA PlainColumns ==
  ASSUME NEW s \in Seq(CellSet), NEW n \in Nat, Measured(s, n),
         \A c \in Range(s) : Token(c) \notin {"name", "args"}, NEW len \in Nat
  PROVE  /\ s \o <<<<"name", len, "plain">>, <<"args", 0, "plain">>>> \in Seq(CellSet)
         /\ ColumnsAt(s \o <<<<"name", len, "plain">>, <<"args", 0, "plain">>>>, n, n + len)
<1>1. PICK name, args : name = <<"name", len, "plain">> /\ args = <<"args", 0, "plain">>
  OBVIOUS
<1>2. name \in CellSet /\ args \in CellSet
  BY <1>1 DEF CellSet, Tokens, Styles
<1>3. "plain" \in Styles /\ 0 \in Nat /\ write_spaces(0) = <<>> /\ n + len + 0 = n + len
  BY DEF Styles, write_spaces
<1>4. /\ ((s \o <<name>>) \o <<>>) \o <<args>> \in Seq(CellSet)
      /\ ColumnsAt(((s \o <<name>>) \o <<>>) \o <<args>>, n, n + len)
  <2>1. /\ ((s \o <<name>>) \o write_spaces(0)) \o <<args>> \in Seq(CellSet)
        /\ ColumnsAt(((s \o <<name>>) \o write_spaces(0)) \o <<args>>, n, n + len + 0)
    BY <1>1, <1>3, ColorColumns
  <2> QED
    BY <1>3, <2>1
<1>5. PICK h \in Seq(CellSet), t \in Seq(CellSet) : h = <<name>> /\ t = <<args>>
  BY <1>2, RangeOfCells
<1>6. <<name>> \o <<args>> = <<name, args>>
  <2>1. PICK both \in Seq(CellSet) : both = <<name, args>>
    BY <1>2, RangeOfCells
  <2>2. /\ Len(h) = 1 /\ h[1] = name /\ Len(t) = 1 /\ t[1] = args
        /\ Len(both) = 2 /\ both[1] = name /\ both[2] = args
    BY <1>5, <2>1
  <2>3. /\ h \o t \in Seq(CellSet) /\ Len(h \o t) = 2
        /\ \A i \in 1 .. 2 : (h \o t)[i] = IF i <= 1 THEN h[i] ELSE t[i - 1]
    <3>1. /\ h \o t \in Seq(CellSet) /\ Len(h \o t) = Len(h) + Len(t)
          /\ \A i \in 1 .. Len(h) + Len(t) :
               (h \o t)[i] = IF i <= Len(h) THEN h[i] ELSE t[i - Len(h)]
      BY ConcatProperties
    <3> QED
      BY <2>2, <3>1
  <2>4. \A i \in 1 .. 2 : (h \o t)[i] = both[i]
    BY <2>2, <2>3
  <2>5. h \o t = both
    BY <2>2, <2>3, <2>4, SeqEqual
  <2> QED
    BY <1>5, <2>1, <2>5
<1>7. (s \o h) \o <<>> = s \o h
  BY ConcatProperties, ConcatEmptySeq
<1>8. (s \o h) \o t = s \o (h \o t)
  BY ConcatAssociative
<1>9. ((s \o <<name>>) \o <<>>) \o <<args>> = s \o <<name, args>>
  BY <1>5, <1>6, <1>7, <1>8
<1> QED
  BY <1>1, <1>4, <1>9

LEMMA LineColumns ==
  ASSUME NEW cfg, cfg.color \in BOOLEAN, NEW ev \in Event, NEW family, NEW pad,
         pad.pid \in Nat, pad.name \in Nat, NEW arrow \in BOOLEAN,
         cfg.color => /\ DimLine(cfg, ev) \in BOOLEAN
                      /\ name_style(cfg, family, DimLine(cfg, ev)) \in Styles
  PROVE  ColumnsAt(Cells(cfg, ev, family, pad, arrow), PidLen[ev.pid] + pad.pid + 1,
                   PidLen[ev.pid] + pad.pid + 1 + NameLen[ev.name] + pad.name)
<1>1. /\ ev.pid \in DOMAIN PidLen /\ PidLen[ev.pid] \in Nat
      /\ ev.name \in DOMAIN NameLen /\ NameLen[ev.name] \in Nat
  BY SinkAssumption, PrettyAssumption
<1>2. PICK len \in Nat, n \in Nat : len = NameLen[ev.name] /\ n = PidLen[ev.pid] + pad.pid
  BY <1>1
<1>3. ASSUME NEW s \in Seq(CellSet), Measured(s, n),
             \A c \in Range(s) : Token(c) \notin {"name", "args"}
      PROVE  /\ s \o write_spaces(1) \in Seq(CellSet) /\ Measured(s \o write_spaces(1), n + 1)
             /\ \A c \in Range(s \o write_spaces(1)) : Token(c) \notin {"name", "args"}
  <2>1. PICK t \in Seq(CellSet) : t = write_spaces(1) /\ \A c \in Range(t) : Token(c) = "spaces"
    BY SpacesCells
  <2>2. s \o write_spaces(1) \in Seq(CellSet) /\ Measured(s \o write_spaces(1), n + 1)
    BY <1>3, MeasuredSpaces
  <2>3. Range(s \o t) = Range(s) \cup Range(t)
    BY RangeJoined
  <2> QED
    BY <1>3, <2>1, <2>2, <2>3
<1>4. CASE cfg.color
  <2>1. PICK s \in Seq(CellSet) :
          /\ s = write_pid_column_color(ev.pid, pad.pid, arrow) \o write_spaces(1)
          /\ Measured(s, n + 1) /\ \A c \in Range(s) : Token(c) \notin {"name", "args"}
    BY <1>1, <1>2, <1>3, PidColumnWidth
  <2>2. PICK tone \in Styles, dim \in BOOLEAN :
          dim = DimLine(cfg, ev) /\ tone = name_style(cfg, family, dim)
    BY <1>4
  <2>3. PICK text : text = ((s \o <<<<"name", len, tone>>>>) \o write_spaces(pad.name))
                            \o <<<<"args", 0, "plain">>>>
    OBVIOUS
  <2>4. PICK gap \in Nat, at \in Nat : gap = pad.name /\ at = n + 1
    OBVIOUS
  <2>5. text \in Seq(CellSet) /\ ColumnsAt(text, at, at + len + gap)
    BY <2>1, <2>3, <2>4, ColorColumns
  <2>6. Cells(cfg, ev, family, pad, arrow)
          = (text \o write_ret(ev.ret, TRUE, dim)) \o <<<<"duration", 0, "dimmed">>>>
    BY <1>2, <1>4, <2>1, <2>2, <2>3 DEF Cells, Cell
  <2>7. "dimmed" \in Styles
    BY DEF Styles
  <2>8. ASSUME NEW token \in {"name", "args"}
        PROVE  Columns(Cells(cfg, ev, family, pad, arrow), token) = Columns(text, token)
    <3>1. PICK color \in BOOLEAN, style \in Styles : color = TRUE /\ style = "dimmed"
      BY <2>7
    <3>2. Columns((text \o write_ret(ev.ret, color, dim)) \o <<<<"duration", 0, style>>>>, token)
            = Columns(text, token)
      BY <2>5, LineEndKeeps
    <3> QED
      BY <2>6, <3>1, <3>2
  <2>9. ColumnsAt(Cells(cfg, ev, family, pad, arrow), at, at + len + gap)
    BY <2>5, <2>8 DEF ColumnsAt
  <2> QED
    BY <1>2, <2>4, <2>9
<1>5. CASE ~cfg.color
  <2>1. PICK s \in Seq(CellSet) :
          /\ s = write_pid_column_plain(ev.pid, pad.pid, arrow) \o write_spaces(1)
          /\ Measured(s, n + 1) /\ \A c \in Range(s) : Token(c) \notin {"name", "args"}
    BY <1>1, <1>2, <1>3, PidColumnWidth
  <2>2. PICK wide \in Nat, at \in Nat : wide = len + pad.name /\ at = n + 1
    OBVIOUS
  <2>3. PICK text : text = s \o <<<<"name", wide, "plain">>, <<"args", 0, "plain">>>>
    OBVIOUS
  <2>4. text \in Seq(CellSet) /\ ColumnsAt(text, at, at + wide)
    BY <2>1, <2>2, <2>3, PlainColumns
  <2>5. Cells(cfg, ev, family, pad, arrow)
          = (text \o write_ret(ev.ret, FALSE, FALSE)) \o <<<<"duration", 0, "plain">>>>
    BY <1>2, <1>5, <2>1, <2>2, <2>3 DEF Cells, Cell
  <2>6. "plain" \in Styles
    BY DEF Styles
  <2>7. ASSUME NEW token \in {"name", "args"}
        PROVE  Columns(Cells(cfg, ev, family, pad, arrow), token) = Columns(text, token)
    <3>1. PICK no \in BOOLEAN, style \in Styles : no = FALSE /\ style = "plain"
      BY <2>6
    <3>2. Columns((text \o write_ret(ev.ret, no, no)) \o <<<<"duration", 0, style>>>>, token)
            = Columns(text, token)
      BY <2>4, LineEndKeeps
    <3> QED
      BY <2>5, <3>1, <3>2
  <2>8. ColumnsAt(Cells(cfg, ev, family, pad, arrow), at, at + wide)
    BY <2>4, <2>7 DEF ColumnsAt
  <2>9. at + wide = n + 1 + len + pad.name
    BY <2>2
  <2> QED
    BY <1>2, <2>2, <2>8, <2>9
<1> QED
  BY <1>4, <1>5

\* The columns of a new line are where the widths that have grown make them.
LEMMA NewLineColumns ==
  ASSUME LinesTypeOK, cli \in Setups, NEW ev \in Event
  PROVE  LET grown == Grown(Config, pretty_state, ev)
         IN  ColumnsAt(NewLine(ev).cells, grown.pid_width + 1,
                       grown.pid_width + 1 + grown.name_width)
<1>1. PICK pad : /\ pad = Padding(Config, pretty_state, ev)
                /\ pad.pid \in Nat /\ pad.name \in Nat
  BY PaddingNat
<1>2. PICK arrow \in BOOLEAN : arrow = NewLine(ev).arrow
  BY NewLineIs, ConfigIs DEF IsContinuation
<1>3. PICK cfg : cfg = Config /\ cfg.color \in BOOLEAN
  BY ConfigIs
<1>4. PICK family : family = decode(ev).category
  OBVIOUS
<1>5. cfg.color => /\ DimLine(cfg, ev) \in BOOLEAN
                   /\ name_style(cfg, family, DimLine(cfg, ev)) \in Styles
  <2>1. DimLine(cfg, ev) \in BOOLEAN
    BY <1>3, ConfigIs DEF DimLine, is_path_lookup
  <2> QED
    BY <1>3, <2>1, NameStyle
<1>6. ColumnsAt(Cells(cfg, ev, family, pad, arrow), PidLen[ev.pid] + pad.pid + 1,
                PidLen[ev.pid] + pad.pid + 1 + NameLen[ev.name] + pad.name)
  BY <1>1, <1>3, <1>5, LineColumns
<1>7. NewLine(ev).cells = Cells(cfg, ev, family, pad, arrow)
  BY <1>1, <1>2, <1>3, <1>4, NewLineIs
<1>8. PICK grown : /\ grown = Grown(Config, pretty_state, ev)
                  /\ grown.pid_width \in Nat /\ grown.name_width \in Nat
  BY PaddingNat
<1>9. PICK p \in Nat, l \in Nat : p = PidLen[ev.pid] /\ l = NameLen[ev.name]
  BY SinkAssumption, PrettyAssumption
<1>10. pad.pid = grown.pid_width - p /\ pad.name = grown.name_width - l
  BY <1>1, <1>8, <1>9, ConfigIs DEF Padding
<1>11. /\ p + pad.pid + 1 = grown.pid_width + 1
       /\ p + pad.pid + 1 + l + pad.name = grown.pid_width + 1 + grown.name_width
  BY <1>8, <1>10
<1> QED
  BY <1>6, <1>7, <1>8, <1>9, <1>11

-----------------------------------------------------------------------------
(* The widest so far                                                       *)

LEMMA WidestIsMax ==
  ASSUME NEW lens, NEW width, IsWidest(width, lens), lens # {}
  PROVE  Max(lens) = width
<1>1. width \in lens /\ lens \subseteq Nat /\ \A len \in lens : width >= len
  BY DEF IsWidest
<1>2. \A x \in lens : (\A y \in lens : x >= y) => x = width
  BY <1>1
<1> QED
  BY <1>1, <1>2 DEF Max

LEMMA WidestGrows ==
  ASSUME NEW lens, NEW width, IsWidest(width, lens), NEW len \in Nat
  PROVE  IsWidest(Wider(width, len), lens \cup {len})
<1>1. CASE lens = {}
  BY <1>1 DEF IsWidest, Wider
<1>2. CASE lens # {}
  <2>1. lens \subseteq Nat /\ width \in lens /\ \A l \in lens : l <= width
    BY <1>2 DEF IsWidest
  <2> QED
    BY <1>2, <2>1 DEF IsWidest, Wider
<1> QED
  BY <1>1, <1>2

\* The lines and the widths that are remembered of them.
ColumnsInv == WidthsInSync /\ ColumnsAligned

LEMMA AlignedIs ==
  ColumnsAligned <=>
    \A i \in DOMAIN lines : ColumnsAt(lines[i].cells, Max(PidLens(i)) + 1,
                                      Max(PidLens(i)) + 1 + Max(NameLens(i)))
BY DEF ColumnsAligned, ColumnsAt

LEMMA ColumnsKept ==
  ASSUME ColumnsInv, lines' = lines, pretty_state'.pid_width = pretty_state.pid_width,
         pretty_state'.name_width = pretty_state.name_width
  PROVE  ColumnsInv'
<1>1. WidthsInSync'
  <2>1. PidLens(Len(lines))' = PidLens(Len(lines)) /\ NameLens(Len(lines))' = NameLens(Len(lines))
    BY DEF PidLens, NameLens
  <2>2. /\ IsWidest(pretty_state.pid_width, PidLens(Len(lines)))
        /\ IsWidest(pretty_state.name_width, NameLens(Len(lines)))
    BY DEF ColumnsInv, WidthsInSync
  <2> QED
    BY <2>1, <2>2 DEF WidthsInSync, IsWidest
<1>2. ColumnsAligned'
  <2>1. \A i : PidLens(i)' = PidLens(i) /\ NameLens(i)' = NameLens(i)
    BY DEF PidLens, NameLens
  <2>2. \A i \in DOMAIN lines :
          LET name_at == Max(PidLens(i)) + 1
          IN  /\ Columns(lines[i].cells, "name") = {name_at}
              /\ Columns(lines[i].cells, "args") = {name_at + Max(NameLens(i))}
    BY DEF ColumnsInv, ColumnsAligned
  <2> QED
    BY <2>1, <2>2 DEF ColumnsAligned
<1> QED
  BY <1>1, <1>2 DEF ColumnsInv

LEMMA ColumnsAdded ==
  ASSUME LineInv, ColumnsInv, cli \in Setups, NEW ev \in Event, BeginLine(ev),
         cli.output = "Pretty"
  PROVE  ColumnsInv'
<1>n. PICK n \in Nat : n = Len(lines)
  BY LenProperties DEF LineInv, LinesInSync
<1>l. PICK line : line = NewLine(ev)
  OBVIOUS
<1>g. PICK grown : grown = Grown(Config, pretty_state, ev)
  OBVIOUS
<1>1. lines' = Append(lines, line) /\ pretty_state' = grown
  BY <1>l, <1>g DEF BeginLine, NewLine
<1>2. /\ DOMAIN lines' = 1 .. n + 1 /\ DOMAIN lines = 1 .. n
      /\ lines'[n + 1] = line /\ \A i \in 1 .. n : lines'[i] = lines[i]
      /\ Len(lines') = n + 1
  BY <1>1, <1>n, LineAppended DEF LineInv, LinesInSync
<1>3. PICK p \in Nat, l \in Nat : p = PidLen[ev.pid] /\ l = NameLen[ev.name]
  BY SinkAssumption, PrettyAssumption
<1>4. \A i \in 1 .. n : PidLens(i)' = PidLens(i) /\ NameLens(i)' = NameLens(i)
  BY <1>2 DEF PidLens, NameLens
<1>5. PidLens(n + 1)' = PidLens(n) \cup {p} /\ NameLens(n + 1)' = NameLens(n) \cup {l}
  <2>1. line.pid = ev.pid /\ line.name = ev.name
    BY <1>l, NewLineIs
  <2>2. 1 .. n + 1 = (1 .. n) \cup {n + 1}
    OBVIOUS
  <2> QED
    BY <1>2, <1>3, <2>1, <2>2 DEF PidLens, NameLens
<1>6. /\ grown.pid_width = Wider(pretty_state.pid_width, p)
      /\ grown.name_width = Wider(pretty_state.name_width, l)
  BY <1>3, <1>g, ConfigIs DEF Grown, LineInv, LinesTypeOK
<1>7. /\ IsWidest(grown.pid_width, PidLens(n) \cup {p})
      /\ IsWidest(grown.name_width, NameLens(n) \cup {l})
  BY <1>n, <1>6, WidestGrows DEF ColumnsInv, WidthsInSync
<1>8. WidthsInSync'
  BY <1>1, <1>2, <1>5, <1>7 DEF WidthsInSync, IsWidest
<1>9. ColumnsAt(line.cells, Max(PidLens(n + 1)') + 1,
                Max(PidLens(n + 1)') + 1 + Max(NameLens(n + 1)'))
  <2>1. Max(PidLens(n) \cup {p}) = grown.pid_width /\ Max(NameLens(n) \cup {l}) = grown.name_width
    BY <1>7, WidestIsMax
  <2>2. ColumnsAt(line.cells, grown.pid_width + 1, grown.pid_width + 1 + grown.name_width)
    BY <1>l, <1>g, NewLineColumns DEF LineInv
  <2> QED
    BY <1>5, <2>1, <2>2
<1>10. ASSUME NEW i \in 1 .. n + 1
       PROVE  ColumnsAt(lines'[i].cells, Max(PidLens(i)') + 1,
                        Max(PidLens(i)') + 1 + Max(NameLens(i)'))
  <2>1. CASE i = n + 1
    BY <1>2, <1>9, <2>1
  <2>2. CASE i \in 1 .. n
    BY <1>2, <1>4, <2>2, AlignedIs DEF ColumnsInv
  <2> QED
    BY <2>1, <2>2
<1>11. ColumnsAligned'
  BY <1>2, <1>10 DEF ColumnsAligned, ColumnsAt
<1> QED
  BY <1>8, <1>11 DEF ColumnsInv

LEMMA ColumnsInductive ==
  ASSUME Control, LineInv, ColumnsInv, [Next]_vars
  PROVE  ColumnsInv'
<1>1. ASSUME NEW ev \in Event, BeginLine(ev)
      PROVE  ColumnsInv'
  <2>1. CASE cli.output = "Pretty"
    BY <1>1, <2>1, ColumnsAdded DEF Control, ControlTypeOK
  <2>2. CASE cli.output # "Pretty"
    BY <1>1, <2>2, ColumnsKept DEF BeginLine, lineVars
  <2> QED
    BY <2>1, <2>2
<1>2. CASE EndLine
  <2>1. lines' = lines
    BY <1>2 DEF EndLine
  <2>2. /\ pretty_state'.pid_width = pretty_state.pid_width
        /\ pretty_state'.name_width = pretty_state.name_width
    BY <1>2 DEF EndLine, Remembered
  <2> QED
    BY <2>1, <2>2, ColumnsKept
<1>3. CASE \/ UsageError \/ SpawnFails \/ Start \/ WritePiece \/ WriteFails \/ RunReturns
           \/ Finish \/ DropWriter \/ ReaderLeaves \/ Over \/ UNCHANGED vars
           \/ \E ev \in Event : Drop(ev)
  <2>1. UNCHANGED <<lines, pretty_state>>
    BY <1>3 DEF UsageError, SpawnFails, Start, WritePiece, WriteFails, RunReturns, Finish,
                DropWriter, ReaderLeaves, Over, Drop, vars, lineVars
  <2> QED
    BY <2>1, ColumnsKept
<1> QED
  BY <1>1, <1>2, <1>3 DEF Next

-----------------------------------------------------------------------------
(* The two formats                                                         *)

\* Two arguments that JSON writes alike under one label look alike in a line.
LEMMA LooksAlike ==
  ASSUME NEW a, NEW b, DecodedArg(a), DecodedArg(b),
         \A variant \in {"Mode", "Path", "Argv"} : a[1] = variant <=> b[1] = variant,
         arg_to_json(a) = arg_to_json(b)
  PROVE  render_arg_text(a) = render_arg_text(b)
<1>1. /\ a[1] = "Mode" <=> b[1] = "Mode"
      /\ a[1] = "Path" <=> b[1] = "Path"
      /\ a[1] = "Argv" <=> b[1] = "Argv"
  OBVIOUS
<1>2. CASE a[1] \in {"Mode", "Path", "Argv"}
  BY <1>1, <1>2 DEF arg_to_json, render_arg_text, AtFdCwd, Invalid, NULL
<1>3. CASE a[1] \notin {"Mode", "Path", "Argv"}
  BY <1>1, <1>3 DEF arg_to_json, render_arg_text, AtFdCwd, Invalid, NULL, DecodedArg, Variants,
                    JsonBytes, Truncated
<1> QED
  BY <1>2, <1>3

LEMMA ObjectsAlike ==
  ASSUME NEW a \in Event, NEW b \in Event,
         Object(a, decode(a).args) = Object(b, decode(b).args)
  PROVE  PrettyArgs(decode(a).args) = PrettyArgs(decode(b).args)
<1>1. PICK s, t : s = decode(a).args /\ t = decode(b).args
  OBVIOUS
<1>2. JsonArgs(s) = JsonArgs(t)
  BY <1>1 DEF Object
<1>3. DOMAIN s = DOMAIN t
  BY <1>2 DEF JsonArgs
<1>4. ASSUME NEW i \in DOMAIN s
      PROVE  render_arg_text(s[i][2]) = render_arg_text(t[i][2])
  <2>1. s[i][1] = t[i][1] /\ arg_to_json(s[i][2]) = arg_to_json(t[i][2])
    BY <1>2, <1>3 DEF JsonArgs
  <2>2. DecodedArg(s[i][2]) /\ DecodedArg(t[i][2]) /\ Labelled(s, t)
    BY LabelsAssumption, <1>1, <1>3
  <2>3. \A variant \in {"Mode", "Path", "Argv"} : s[i][2][1] = variant <=> t[i][2][1] = variant
    BY <1>3, <2>1, <2>2 DEF Labelled
  <2> QED
    BY <2>1, <2>2, <2>3, LooksAlike
<1>5. PrettyArgs(s) = PrettyArgs(t)
  BY <1>3, <1>4 DEF PrettyArgs
<1> QED
  BY <1>1, <1>5

-----------------------------------------------------------------------------
(* How long a duration looks                                               *)

LEMMA DividedIs ==
  ASSUME NEW a \in Nat, NEW d \in Nat \ {0}
  PROVE  /\ a \div d \in Nat
         /\ d * (a \div d) <= a /\ a < d * (a \div d) + d
<1>1. PICK q, r : q = a \div d /\ r = a % d
  OBVIOUS
<1>2. q \in Nat /\ r \in 0 .. d - 1 /\ a = d * q + r
  BY <1>1
<1> QED
  BY <1>1, <1>2

LEMMA DividedMonotone ==
  ASSUME NEW a \in Nat, NEW b \in Nat, a <= b, NEW d \in Nat \ {0}
  PROVE  a \div d <= b \div d
<1>1. PICK q \in Nat : q = a \div d /\ d * q <= a
  BY DividedIs
<1>2. PICK r \in Nat : r = b \div d /\ b < d * r + d
  BY DividedIs
<1>3. d * q < d * (r + 1)
  BY <1>1, <1>2
<1>4. q < r + 1
  BY <1>3
<1> QED
  BY <1>1, <1>2, <1>4

LEMMA UnitsAre ==
  /\ Thousand \in Nat \ {0} /\ Million \in Nat \ {0} /\ Billion \in Nat \ {0}
  /\ Million = Thousand * Thousand /\ Billion = Million * Thousand
  /\ Thousand <= Million /\ Million <= Billion
<1>1. Thousand \in Nat \ {0}
  BY RenderAssumption
<1>2. PICK t \in Nat \ {0} : t = Thousand
  BY <1>1
<1>3. t * t \in Nat \ {0} /\ t <= t * t
  OBVIOUS
<1>4. PICK m \in Nat \ {0} : m = t * t /\ t <= m
  BY <1>3
<1>5. m * t \in Nat \ {0} /\ m <= m * t
  OBVIOUS
<1> QED
  BY <1>2, <1>4, <1>5 DEF Million, Billion

LEMMA TenthsMonotone ==
  ASSUME NEW a \in Nat, NEW b \in Nat, a <= b, NEW unit \in Nat \ {0}
  PROVE  Tenths(a, unit) \in Nat /\ Tenths(a, unit) <= Tenths(b, unit)
<1>1. PICK m \in Nat, n \in Nat, d \in Nat \ {0} :
        m = 20 * a + unit /\ n = 20 * b + unit /\ d = 2 * unit /\ m <= n
  OBVIOUS
<1>2. m \div d \in Nat /\ m \div d <= n \div d
  BY <1>1, DividedIs, DividedMonotone
<1> QED
  BY <1>1, <1>2 DEF Tenths

\* Ten tenths make a unit, and less than many units never more than their tenths.
LEMMA TenthsBounds ==
  ASSUME NEW a \in Nat, NEW unit \in Nat \ {0}, NEW many \in Nat
  PROVE  /\ unit <= a => 10 <= Tenths(a, unit)
         /\ a < unit * many => Tenths(a, unit) <= 10 * many
<1>1. PICK m \in Nat, d \in Nat \ {0} : m = 20 * a + unit /\ d = 2 * unit
  OBVIOUS
<1>2. PICK q \in Nat : q = m \div d /\ d * q <= m /\ m < d * q + d
  BY DividedIs
<1>3. q = Tenths(a, unit)
  BY <1>1, <1>2 DEF Tenths
<1>4. PICK uq \in Nat : uq = unit * q
  OBVIOUS
<1>5. 2 * uq <= 20 * a + unit /\ 20 * a + unit < 2 * uq + 2 * unit
  <2>1. d * q = 2 * uq
    BY <1>1, <1>4
  <2> QED
    BY <1>1, <1>2, <2>1
<1>6. ASSUME unit <= a
      PROVE  10 <= q
  <2>1. unit * q > 9 * unit
    BY <1>4, <1>5, <1>6
  <2>2. ASSUME q <= 9
        PROVE  FALSE
    <3>1. unit * q <= unit * 9
      BY <2>2
    <3> QED
      BY <2>1, <3>1
  <2> QED
    BY <2>2
<1>7. ASSUME a < unit * many
      PROVE  q <= 10 * many
  <2>1. PICK um \in Nat : um = unit * many
    OBVIOUS
  <2>2. uq < 10 * um + unit
    BY <1>5, <1>7, <2>1
  <2>3. unit * q < unit * (10 * many + 1)
    <3>1. unit * (10 * many + 1) = 10 * (unit * many) + unit
      OBVIOUS
    <3> QED
      BY <1>4, <2>1, <2>2, <3>1
  <2>4. q < 10 * many + 1
    BY <2>3
  <2> QED
    BY <2>4
<1> QED
  BY <1>3, <1>6, <1>7

\* Durations of one unit look ordered; those of the next unit never look shorter.
Nanos == 0 .. Thousand - 1
Micros == Thousand .. Million - 1
Millis == Million .. Billion - 1
LEMMA LooksIs ==
  ASSUME NEW n \in Nat
  PROVE  /\ n \in Nanos => Looks(n) = 10 * n
         /\ n \in Micros => Looks(n) = (n \div Thousand) * (10 * Thousand)
         /\ n \in Millis => Looks(n) = Tenths(n, Million) * Million
         /\ n >= Billion => Looks(n) = Tenths(n, Billion) * Billion
<1>0. Thousand \in Nat /\ Million \in Nat /\ Billion \in Nat
      /\ Thousand <= Million /\ Million <= Billion
  BY UnitsAre
<1>u. Unit["ns"] = 10 /\ Unit["us"] = 10 * Thousand /\ Unit["ms"] = Million /\ Unit["s"] = Billion
  BY DEF Unit
<1>1. ASSUME n \in Nanos
      PROVE  Looks(n) = 10 * n
  <2>1. fmt_duration(n) = <<"ns", n>>
    BY <1>0, <1>1 DEF fmt_duration, Nanos
  <2> QED
    BY <1>u, <2>1 DEF Looks
<1>2. ASSUME n \in Micros
      PROVE  Looks(n) = (n \div Thousand) * (10 * Thousand)
  <2>1. fmt_duration(n) = <<"us", n \div Thousand>>
    BY <1>0, <1>2 DEF fmt_duration, Micros
  <2> QED
    BY <1>u, <2>1 DEF Looks
<1>3. ASSUME n \in Millis
      PROVE  Looks(n) = Tenths(n, Million) * Million
  <2>1. fmt_duration(n) = <<"ms", Tenths(n, Million)>>
    BY <1>0, <1>3 DEF fmt_duration, Millis
  <2> QED
    BY <1>u, <2>1 DEF Looks
<1>4. ASSUME n >= Billion
      PROVE  Looks(n) = Tenths(n, Billion) * Billion
  <2>1. fmt_duration(n) = <<"s", Tenths(n, Billion)>>
    BY <1>0, <1>4 DEF fmt_duration
  <2> QED
    BY <1>u, <2>1 DEF Looks
<1> QED
  BY <1>1, <1>2, <1>3, <1>4

LEMMA ProductMonotone ==
  ASSUME NEW a \in Nat, NEW b \in Nat, a <= b, NEW c \in Nat
  PROVE  a * c <= b * c
OBVIOUS

LEMMA LooksBetween ==
  ASSUME NEW n \in Nat
  PROVE  /\ n \in Nanos => Looks(n) <= 10 * Thousand
         /\ n \in Micros => 10 * Thousand <= Looks(n) /\ Looks(n) <= 10 * Million
         /\ n \in Millis => 10 * Million <= Looks(n) /\ Looks(n) <= 10 * Billion
         /\ n >= Billion => 10 * Billion <= Looks(n)
         /\ Looks(n) \in Nat
<1>t. PICK t \in Nat \ {0} : t = Thousand
  BY UnitsAre
<1>m. PICK m \in Nat \ {0} : m = Million /\ m = t * t /\ t <= m
  BY <1>t, UnitsAre
<1>b. PICK b \in Nat \ {0} : b = Billion /\ b = m * t /\ m <= b
  BY <1>t, <1>m, UnitsAre
<1>1. ASSUME n \in Nanos
      PROVE  Looks(n) <= 10 * Thousand /\ Looks(n) \in Nat
  BY <1>1, <1>t, LooksIs DEF Nanos
<1>2. ASSUME n \in Micros
      PROVE  10 * Thousand <= Looks(n) /\ Looks(n) <= 10 * Million /\ Looks(n) \in Nat
  <2>1. PICK q \in Nat : q = n \div t /\ t * q <= n /\ n < t * q + t
    BY DividedIs
  <2>2. t <= n /\ n < t * t
    BY <1>2, <1>t, <1>m DEF Micros
  <2>3. q >= 1
    <3>1. CASE q = 0
      BY <2>1, <2>2, <3>1
    <3> QED
      BY <3>1
  <2>4. t * q < t * t
    BY <2>1, <2>2
  <2>5. q <= t
    BY <2>4
  <2>6. 10 * t <= q * (10 * t)
    BY <2>3
  <2>7. q * (10 * t) <= 10 * (t * t)
    <3>1. q * (10 * t) <= t * (10 * t)
      BY <2>5, ProductMonotone
    <3>2. t * (10 * t) = 10 * (t * t)
      OBVIOUS
    <3> QED
      BY <3>1, <3>2
  <2>8. Looks(n) = q * (10 * t)
    BY <1>2, <1>t, <2>1, LooksIs
  <2> QED
    BY <1>t, <1>m, <2>6, <2>7, <2>8
<1>3. ASSUME n \in Millis
      PROVE  10 * Million <= Looks(n) /\ Looks(n) <= 10 * Billion /\ Looks(n) \in Nat
  <2>1. m <= n /\ n < m * t
    BY <1>3, <1>m, <1>b DEF Millis
  <2>2. PICK q \in Nat : q = Tenths(n, m) /\ 10 <= q /\ q <= 10 * t
    BY <2>1, TenthsMonotone, TenthsBounds
  <2>3. 10 * m <= q * m
    BY <2>2, ProductMonotone
  <2>4. q * m <= 10 * b
    <3>1. q * m <= (10 * t) * m
      BY <2>2, ProductMonotone
    <3>2. (10 * t) * m = 10 * (m * t)
      OBVIOUS
    <3> QED
      BY <1>b, <3>1, <3>2
  <2>5. Looks(n) = q * m
    BY <1>3, <1>m, <2>2, LooksIs
  <2> QED
    BY <1>m, <1>b, <2>3, <2>4, <2>5
<1>4. ASSUME n >= Billion
      PROVE  10 * Billion <= Looks(n) /\ Looks(n) \in Nat
  <2>1. PICK q \in Nat : q = Tenths(n, b) /\ 10 <= q
    <3>1. b <= n /\ n <= n /\ 0 \in Nat
      BY <1>4, <1>b
    <3>2. Tenths(n, b) \in Nat
      BY <3>1, TenthsMonotone
    <3>3. b <= n => 10 <= Tenths(n, b)
      BY <3>1, TenthsBounds
    <3> QED
      BY <3>1, <3>2, <3>3
  <2>2. 10 * b <= q * b
    BY <2>1, ProductMonotone
  <2>3. Looks(n) = q * b
    BY <1>4, <1>b, <2>1, LooksIs
  <2> QED
    BY <1>b, <2>2, <2>3
<1> QED
  <2>1. n \in Nanos \/ n \in Micros \/ n \in Millis \/ n >= Billion
    BY <1>t, <1>m, <1>b DEF Nanos, Micros, Millis
  <2> QED
    BY <1>1, <1>2, <1>3, <1>4, <2>1

LEMMA LooksMonotone ==
  ASSUME NEW a \in Nat, NEW b \in Nat, a <= b
  PROVE  Looks(a) <= Looks(b)
<1>1. /\ Thousand \in Nat \ {0} /\ Million \in Nat \ {0} /\ Billion \in Nat \ {0}
      /\ Thousand <= Million /\ Million <= Billion
  BY UnitsAre
<1>2. CASE a \in Nanos /\ b \in Nanos
  BY <1>2, LooksIs
<1>3. CASE a \in Micros /\ b \in Micros
  <2>1. PICK x \in Nat, y \in Nat : x = a \div Thousand /\ y = b \div Thousand /\ x <= y
    BY <1>1, DividedIs, DividedMonotone
  <2>2. x * (10 * Thousand) <= y * (10 * Thousand)
    BY <1>1, <2>1, ProductMonotone
  <2> QED
    BY <1>3, <2>1, <2>2, LooksIs
<1>4. CASE a \in Millis /\ b \in Millis
  <2>1. PICK x \in Nat, y \in Nat : x = Tenths(a, Million) /\ y = Tenths(b, Million) /\ x <= y
    BY <1>1, TenthsMonotone
  <2>2. x * Million <= y * Million
    BY <1>1, <2>1, ProductMonotone
  <2> QED
    BY <1>4, <2>1, <2>2, LooksIs
<1>5. CASE a >= Billion /\ b >= Billion
  <2>1. PICK x \in Nat, y \in Nat : x = Tenths(a, Billion) /\ y = Tenths(b, Billion) /\ x <= y
    BY <1>1, TenthsMonotone
  <2>2. x * Billion <= y * Billion
    BY <1>1, <2>1, ProductMonotone
  <2> QED
    BY <1>5, <2>1, <2>2, LooksIs
<1>6. CASE \/ a \in Nanos /\ b \notin Nanos
           \/ a \in Micros /\ b \notin Micros
           \/ a \in Millis /\ b \notin Millis
  <2>1. Looks(a) \in Nat /\ Looks(b) \in Nat
    BY LooksBetween
  <2>2. CASE a \in Nanos /\ b \notin Nanos
    <3>1. Looks(a) <= 10 * Thousand
      BY <2>2, LooksBetween
    <3>2. Looks(b) >= 10 * Thousand
      <4>1. b \in Micros \/ b \in Millis \/ b >= Billion
        BY <1>1, <2>2 DEF Nanos, Micros, Millis
      <4> QED
        BY <1>1, <2>1, <4>1, LooksBetween
    <3> QED
      BY <1>1, <2>1, <3>1, <3>2
  <2>3. CASE a \in Micros /\ b \notin Micros
    <3>1. Looks(a) <= 10 * Million
      BY <2>3, LooksBetween
    <3>2. Looks(b) >= 10 * Million
      <4>1. b \in Millis \/ b >= Billion
        BY <1>1, <2>3 DEF Micros, Millis
      <4> QED
        BY <1>1, <2>1, <4>1, LooksBetween
    <3> QED
      BY <1>1, <2>1, <3>1, <3>2
  <2>4. CASE a \in Millis /\ b \notin Millis
    <3>1. Looks(a) <= 10 * Billion
      BY <2>4, LooksBetween
    <3>2. Looks(b) >= 10 * Billion
      <4>1. b >= Billion
        BY <1>1, <2>4 DEF Millis
      <4> QED
        BY <4>1, LooksBetween
    <3> QED
      BY <1>1, <2>1, <3>1, <3>2
  <2> QED
    BY <1>6, <2>2, <2>3, <2>4
<1>7. \/ a \in Nanos \/ a \in Micros \/ a \in Millis \/ a >= Billion
  BY <1>1 DEF Nanos, Micros, Millis
<1>8. a >= Billion => b >= Billion
  BY <1>1
<1> QED
  BY <1>2, <1>3, <1>4, <1>5, <1>6, <1>7, <1>8

LEMMA AgreeOnEvents ==
  ASSUME events \in Seq(Event)
  PROVE  FormatsAgree
<1>1. ASSUME NEW i \in DOMAIN events
      PROVE  events[i] \in Event /\ events[i].duration \in Nat
  BY <1>1, SinkAssumption
<1> QED
  BY <1>1, ObjectsAlike, LooksMonotone DEF FormatsAgree

-----------------------------------------------------------------------------
(* The theorems                                                            *)

LEMMA InitInv == Init => IInv
<1> SUFFICES ASSUME Init
             PROVE  IInv
  OBVIOUS
<1>c. MaxFaults \in Nat /\ MaxEvents \in Nat /\ Cap \in Nat
  BY SinkAssumption
<1>e. /\ \A S : <<>> \in Seq(S)
      /\ Len(<<>>) = 0 /\ DOMAIN <<>> = {} /\ <<>> \o <<>> = <<>>
  OBVIOUS
<1>1. ControlTypeOK
  <2>1. filter.only_fail = FALSE
    BY DEF Init
  <2>2. filter.only_fail \in BOOLEAN /\ closed \in BOOLEAN /\ first_err \in BOOLEAN
    BY <2>1, Zenon DEF Init
  <2>3. /\ pc = "parse" /\ verdict = "none" /\ cli \in Setups /\ reader = "there" /\ faults = 0
    BY DEF Init
  <2> QED
    BY <1>c, <2>2, <2>3 DEF ControlTypeOK, PCs, Verdicts
<1>2. StartedInSync /\ WritingInSync /\ ErrorsInSync
  BY DEF Init, StartedInSync, WritingInSync, ErrorsInSync, Handling, Silenced
<1>3. PipeTypeOK
  BY <1>c, <1>e DEF Init, PipeTypeOK, Parts
<1>4. LinesTypeOK
  BY <1>e DEF Init, LinesTypeOK, NewPretty
<1>5. StreamInSync
  BY <1>e DEF Init, StreamInSync, Pipeline, Handling, Promise!Begins
<1>6. LinesInSync /\ BurstInSync
  BY <1>e DEF Init, LinesInSync, BurstInSync, NewPretty
<1>7. ArrowHasItsHead /\ LinesSafe /\ ErrorsReported
  BY <1>e DEF Init, ArrowHasItsHead, LinesSafe, PlainOffTerminal, FailuresStandOut,
              ColourMeansDecoded, ErrorsReported
<1>8. ColumnsInv
  BY <1>e DEF Init, ColumnsInv, WidthsInSync, IsWidest, PidLens, NameLens, ColumnsAligned, NewPretty
<1>9. TypeOK
  BY <1>1, <1>3, <1>4 DEF TypeOK, ControlTypeOK, PipeTypeOK, LinesTypeOK
<1> QED
  BY <1>2, <1>5, <1>6, <1>7, <1>8, <1>9 DEF IInv, LinesSafe, ColumnsInv

\* The parts that the steps are followed in make up the invariant.
LEMMA Parted ==
  ASSUME IInv
  PROVE  Control /\ PipeTypeOK /\ StreamInSync /\ LineInv /\ ColumnsInv
BY DEF IInv, TypeOK, Control, ControlTypeOK, PipeTypeOK, LinesTypeOK, LineInv, LinesSafe, ColumnsInv

LEMMA Inductive ==
  ASSUME IInv, [Next]_vars
  PROVE  IInv'
<1>1. Control /\ PipeTypeOK /\ StreamInSync /\ LineInv /\ ColumnsInv
  BY Parted
<1>2. Control'
  BY <1>1, ControlInductive
<1>3. PipeTypeOK'
  BY <1>1, PipeStep
<1>4. StreamInSync'
  BY <1>1, <1>2, <1>3, StreamInductive
<1>5. LineInv'
  BY <1>1, LinesInductive
<1>6. ErrorsReported'
  BY <1>2, ReportedByControl
<1>7. ColumnsInv'
  BY <1>1, ColumnsInductive
<1>8. TypeOK'
  BY <1>2, <1>3, <1>5
  DEF TypeOK, Control, ControlTypeOK, PipeTypeOK, LineInv, LinesTypeOK
<1> QED
  BY <1>2, <1>4, <1>5, <1>6, <1>7, <1>8 DEF IInv, Control, LineInv, LinesSafe, ColumnsInv

\* The invariant holds in every reachable state: for every set of events and of
\* command lines, any capacity and any bounds.
THEOREM InvHolds == Spec => []IInv
<1>1. Init => IInv
  BY InitInv
<1>2. IInv /\ [Next]_vars => IInv'
  BY Inductive
<1> QED
  BY <1>1, <1>2, PTL DEF Spec

\* Every variable has its type: among others, a padding is never negative, and
\* no more than Cap pieces are ever buffered (write_all, write_spaces).
THEOREM TypeCorrect == Spec => []TypeOK
<1>1. IInv => TypeOK
  BY DEF IInv
<1> QED
  BY <1>1, InvHolds, PTL

\* main reports a write error of the pretty format exactly when one happened,
\* whatever the reader does meanwhile (record, finish).
THEOREM ErrorsAreReported == Spec => []ErrorsReported
<1>1. IInv => ErrorsReported
  BY DEF IInv
<1> QED
  BY <1>1, InvHolds, PTL

\* Every arrow hangs from a line that shows its pid, with no other burst between
\* the two (write_event, PrettyState).
THEOREM ArrowsHang == Spec => []ArrowHasItsHead
<1>1. IInv => ArrowHasItsHead
  BY DEF IInv
<1> QED
  BY <1>1, InvHolds, PTL

\* Off a terminal every cell of every line is plain (PrettyConfig, main).
THEOREM PlainIsPlain == Spec => []PlainOffTerminal
<1>1. IInv => PlainOffTerminal
  BY DEF IInv
<1> QED
  BY <1>1, InvHolds, PTL

\* On a terminal an errno shows, in red or as a dimmed lookup, and nothing else
\* looks like one (write_ret, name_style, dim_line).
THEOREM FailuresShow == Spec => []FailuresStandOut
<1>1. IInv => FailuresStandOut
  BY DEF IInv
<1> QED
  BY <1>1, InvHolds, PTL

\* The name and the arguments of every line begin where the widest pid and name up
\* to it make them, coloured or not, behind an arrow as behind a pid
\* (write_event, write_pid_column_color, write_pid_column_plain).
THEOREM ColumnsAlign == Spec => []ColumnsAligned
<1>1. IInv => ColumnsAligned
  BY DEF IInv
<1> QED
  BY <1>1, InvHolds, PTL

\* What two lines of JSON cannot tell apart the pretty format cannot either, and a
\* longer call never looks shorter, whatever the events are and however many of a
\* unit of time make the next (arg_to_json, render_arg_text, fmt_duration).
THEOREM FormatsTellTheSame == Spec => []FormatsAgree
<1>1. IInv => FormatsAgree
  BY AgreeOnEvents DEF IInv, TypeOK
<1> QED
  BY <1>1, InvHolds, PTL

\* The colour of a family stands only before arguments that were decoded
\* (SinkState::decode, name_style).
THEOREM ColoursAreDecoded == Spec => []ColourMeansDecoded
<1>1. IInv => ColourMeansDecoded
  BY DEF IInv
<1> QED
  BY <1>1, InvHolds, PTL

\* The sink keeps the promise of OutputStream: what leaves the process is at all
\* times a beginning of the stream of the wanted events, nothing follows what an
\* error has cut, and Ok is said of a whole stream or one that nobody reads.
THEOREM PromiseKept == Spec => KeepsPromise
<1>1. Init => Promise!StreamInit
  BY DEF Init, Promise!StreamInit
<1>2. IInv /\ IInv' /\ [Next]_vars => [Promise!StreamNext]_(Promise!streamVars)
  <2> SUFFICES ASSUME IInv, IInv', [Next]_vars
               PROVE  [Promise!StreamNext]_(Promise!streamVars)
    OBVIOUS
  <2>1. Control /\ PipeTypeOK /\ StreamInSync
    BY Parted
  <2>2. Control' /\ PipeTypeOK' /\ StreamInSync'
    BY DEF IInv, TypeOK, Control, ControlTypeOK, PipeTypeOK
  <2> QED
    BY <2>1, <2>2, PromiseStep
<1> QED
  BY <1>1, <1>2, InvHolds, PTL DEF Spec, KeepsPromise, Promise!StreamSpec

=============================================================================
