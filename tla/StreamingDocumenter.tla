------------------------- MODULE StreamingDocumenter -------------------------
(***************************************************************************)
(* run_streaming_mode of controllers/documenter/streaming.py: one document *)
(* is read in chunks of bytes, never whole.  What is found in a chunk is   *)
(* added to a state that is written to one file after every chunk; a later *)
(* invocation resumes from it at the byte where the last one stopped.      *)
(*                                                                         *)
(* A document is a sequence of bytes: "n" ends a line, "h" is the mark of  *)
(* a Markdown heading, everything else is text.  The two tails that carry  *)
(* an unfinished match or an unfinished line into the next chunk are       *)
(* always the document's bytes up to the chunk, so only the byte where a   *)
(* tail begins is kept, and the line it is on.  What a role answers is     *)
(* free; its texts and the quality labels are left out.                    *)
(*                                                                         *)
(* The process may die at any moment, also half way through a write: the   *)
(* state file is overwritten in place.  One invocation at a time works on  *)
(* a state file and the document does not change; the code checks neither. *)
(***************************************************************************)
EXTENDS Integers, Sequences, FiniteSets, SequencesExt

CONSTANTS
    Subjects,           \* what runs are about: [doc, query, mode]
    Arguments,          \* the other arguments that invocations use
    Citations,          \* the stretches <<first, behind>> that roles cite
    MaxOutlineEntries, MaxQueryMatches, MaxModelRecords,
    MaxSummaries, MaxSummaryDepth,
    MaxFailures,        \* bound: failures of the model before it recovers
    NoLimit,            \* an optional limit that is not given; beyond any size
    NoState, Torn, Nothing

STREAMING_MODES == {"context_presence", "coverage", "token_count", "outline",
                    "extract_facts", "classify", "summarize"}
MODEL_ASSISTED_MODES == {"extract_facts", "classify", "summarize"}

ASSUME StreamingAssumption ==
    /\ \A s \in Subjects : /\ s.mode \in STREAMING_MODES
                           /\ \A text \in {s.doc, s.query} : Len(text) \in 1 .. NoLimit - 1
    /\ Arguments \subseteq [chunkBytes : Nat \ {0}, maxBytes : Nat \ {0}, maxChunks : Nat \ {0},
                            timed : BOOLEAN, stopAfter : Nat \ {0}, allowChanges : BOOLEAN]
    /\ {MaxOutlineEntries, MaxQueryMatches, MaxModelRecords, MaxSummaryDepth, MaxFailures} \subseteq Nat
    /\ MaxSummaries \in Nat \ {0, 1}
    /\ NoLimit \in Nat
    /\ Citations \subseteq (0 .. NoLimit) \X (0 .. NoLimit)

VARIABLES
    subject,   \* what this run is about
    file,      \* the streaming-state file
    report,    \* the report file
    at,        \* where the invocation is; "down" when there is none
    args,      \* its arguments
    state,     \* its state in memory
    done,      \* chunks_this_run
    stopped,   \* stop_reason
    tail,      \* [start, line] of the bytes kept for a match in progress
    lineTail,  \* [start, line] of the bytes kept for a line in progress
    cuts       \* history: the bytes within a line where a resumption began

tails == <<tail, lineTail>>
vars == <<subject, file, report, at, args, state, done, stopped, tails, cuts>>

doc   == subject.doc
query == subject.query
mode  == subject.mode

Size == Len(doc)
Least(a, b) == IF a < b THEN a ELSE b
Most(a, b)  == IF a > b THEN a ELSE b

\* How many lines end in the bytes from offset first up to, not including, behind.
LinesEnded(first, behind) == Cardinality({p \in first + 1 .. behind : doc[p] = "n"})

\* A set of offsets, in order.
InOrder(S) ==
    LET before[p \in 0 .. NoLimit] ==
            IF p = 0 THEN <<>>
            ELSE IF p - 1 \in S THEN Append(before[p - 1], p - 1) ELSE before[p - 1]
    IN  before[NoLimit]

Stretch == (0 .. NoLimit) \X (0 .. NoLimit)
Entry   == [start : Nat, end : Nat, line : Nat]
Claim   == [chunk : Stretch, cites : Stretch, verified : BOOLEAN]
Summary == Seq(Stretch)     \* the chunks a summary stands for, in order
Statuses == {"running", "paused", "failed", "completed"}

\* build_resume_key: what a resumption may not change unless told so.
ResumeKey(a) == <<a.chunkBytes, a.maxBytes, a.maxChunks, a.timed>>

\* initial_streaming_state.  next_start_byte, reviewed_bytes and the length of
\* chunk_ranges, which numbers the chunks, are kept apart as in the code.
InitialState(a) ==
    [status |-> "running", key |-> ResumeKey(a), next |-> 0, line |-> 1,
     reviewed |-> 0, ranges |-> <<>>, failed |-> <<>>,
     matches |-> <<>>, matchesOmitted |-> 0,
     headings |-> <<>>, headingsOmitted |-> 0,
     claims |-> <<>>, claimsOmitted |-> 0,
     chunkSummaries |-> <<>>, frontier |-> <<>>, depth |-> 0, aggregate |-> Nothing]

StreamingState ==
    [status : Statuses, key : {ResumeKey(a) : a \in Arguments}, next : Nat, line : Nat \ {0},
     reviewed : Nat, ranges : Seq(Stretch), failed : Seq(Stretch),
     matches : Seq(Entry), matchesOmitted : Nat,
     headings : Seq(Entry), headingsOmitted : Nat,
     claims : Seq(Claim), claimsOmitted : Nat,
     chunkSummaries : Seq(Stretch), frontier : Seq(Summary), depth : Nat,
     aggregate : Summary \cup {Nothing}]

\* A state file that is missing or cut off is no state.
ASSUME StateAssumption ==
    /\ NoState # Torn /\ Nothing \notin Summary
    /\ \A s \in {NoState, Torn, Nothing} : s \notin StreamingState

TypeOK ==
    /\ subject \in Subjects
    /\ at \in {"down", "loop", "pause", "end", "report"}
    /\ IF at = "down" THEN args = Nothing /\ state = Nothing ELSE args \in Arguments
    /\ done \in Nat
    /\ stopped \in {"complete", "max_bytes", "max_chunks", "max_elapsed_seconds", "paused"}
    /\ tail \in [start : 0 .. Size, line : Nat]
    /\ lineTail \in [start : 0 .. Size, line : Nat]
    /\ cuts \subseteq 1 .. Size
    /\ \A s \in {state, file} \ {NoState, Torn, Nothing} :
          s \in StreamingState /\ {s.next, s.reviewed} \subseteq 0 .. Size
    /\ report \in {Nothing, Torn} \cup [status : Statuses, next : 0 .. Size]

Init ==
    /\ subject \in Subjects
    /\ file = NoState
    /\ report = Nothing
    /\ at = "down"
    /\ args = Nothing
    /\ state = Nothing
    /\ done = 0
    /\ stopped = "complete"
    /\ tail = [start |-> 0, line |-> 1]
    /\ lineTail = [start |-> 0, line |-> 1]
    /\ cuts = {}

-----------------------------------------------------------------------------
(***************************************************************************)
(* Reading a chunk.                                                        *)
(***************************************************************************)
\* iter_streaming_chunks: the bytes to read this time end here.  The reads of
\* read_block_bytes that fill a chunk leave no trace but its size.
ByteLimit(a, start) == IF a.maxBytes = NoLimit THEN Size
                       ELSE Least(Size, Most(start, Least(Size, a.maxBytes)))

ChunkEnd == Least(state.next + args.chunkBytes, ByteLimit(args, state.next))

Chunk == <<state.next, ChunkEnd>>

\* The query stands at offset p.
Occurs(p) == SubSeq(doc, p + 1, p + Len(query)) = query

\* Where context_presence_matches finds the query in these bytes: bytes.find is
\* taken up again behind each match.  search[p] is where it goes on once it is
\* past the bytes before p.
MatchStarts(first, behind) ==
    LET found(p, from) == from <= p /\ p + Len(query) <= behind /\ Occurs(p)
        search[p \in first .. behind] ==
            IF p = first THEN first
            ELSE IF found(p - 1, search[p - 1]) THEN p - 1 + Len(query) ELSE search[p - 1]
    IN  {p \in first .. behind : found(p, search[p])}

\* The matches at these offsets; line is the one that offset first is on.
MatchesAt(starts, first, line) ==
    LET ordered == InOrder(starts)
    IN  [i \in DOMAIN ordered |->
            [start |-> ordered[i], end |-> ordered[i] + Len(query),
             line  |-> line + LinesEnded(first, ordered[i])]]

\* Mutant: the tail is forgotten between two chunks.
MatchesApart(c) == MatchesAt(MatchStarts(c[1], c[2]), c[1], state.line)

\* matches_for_chunk: what ends in this chunk, and may have begun before it.
MatchesForChunk(c) ==
    MatchesAt({p \in MatchStarts(tail.start, c[2]) : p + Len(query) > c[1]},
              tail.start, tail.line)

\* parse_markdown_heading, of the line from offset p up to offset end, which may
\* be behind the byte that ends it.
IsHeading(p, end) ==
    LET length == IF doc[end] = "n" THEN end - p - 1 ELSE end - p
        marks  == {k \in 0 .. length : \A i \in 1 .. k : doc[p + i] = "h"}
        level  == CHOOSE k \in marks : \A j \in marks : j <= k
    IN  level \in 1 .. 6 /\ level < length

\* Where the line that begins at p ends, of the bytes up to behind.
LineEnd(p, behind) ==
    CHOOSE e \in p + 1 .. behind : /\ e = behind \/ doc[e] = "n"
                                   /\ \A i \in p + 1 .. e - 1 : doc[i] # "n"

\* extract_outline_entries, of a Markdown document: the lines of these bytes
\* that are headings.
HeadingStarts(first, behind) ==
    {p \in first .. behind - 1 : /\ p = first \/ doc[p] = "n"
                                 /\ IsHeading(p, LineEnd(p, behind))}

HeadingsAt(starts, behind) ==
    LET ordered == InOrder(starts)
    IN  [i \in DOMAIN ordered |->
            [start |-> ordered[i], end |-> LineEnd(ordered[i], behind),
             line  |-> lineTail.line + LinesEnded(lineTail.start, ordered[i])]]

\* Mutant: a line that the chunk cuts short counts as a heading.
HeadingsCutShort(c) ==
    HeadingsAt({p \in HeadingStarts(lineTail.start, c[2]) : LineEnd(p, c[2]) > c[1]}, c[2])

\* outline_entries_for_chunk: of the line in progress and the chunk, the
\* headings whose line has ended.
HeadingsForChunk(c) ==
    LET complete(end) == end < c[2] \/ c[2] >= Size \/ doc[c[2]] = "n"
    IN  HeadingsAt({p \in HeadingStarts(lineTail.start, c[2]) :
                       LineEnd(p, c[2]) > c[1] /\ complete(LineEnd(p, c[2]))}, c[2])

\* update_tail: the last bytes, one fewer than the query has.
TailAfter(c, line) ==
    LET start == Most(tail.start, Most(c[2], Len(query) - 1) - (Len(query) - 1))
    IN  [start |-> start, line |-> Most(1, line - LinesEnded(start, c[2]))]

\* update_line_tail: what follows the last line end.
LineTailAfter(c, line) ==
    LET ends  == {p \in lineTail.start + 1 .. c[2] : doc[p] = "n"}
        start == IF ends = {} THEN lineTail.start
                 ELSE CHOOSE p \in ends : \A q \in ends : q <= p
    IN  [start |-> start,
         line  |-> IF start = c[2] THEN line
                   ELSE lineTail.line + LinesEnded(lineTail.start, start)]

-----------------------------------------------------------------------------
(***************************************************************************)
(* What a chunk adds to the state.                                         *)
(***************************************************************************)
\* The first of these entries that still fit.
Fitting(entries, have, limit) ==
    SubSeq(entries, 1, Least(Len(entries), limit - Least(limit, have)))

\* The query matches of a chunk, up to max_query_matches.
AddMatches(s, found) ==
    LET kept == Fitting(found, Len(s.matches), MaxQueryMatches)
    IN  [s EXCEPT !.matches = @ \o kept, !.matchesOmitted = @ + Len(found) - Len(kept)]

\* add_outline_entries
AddHeadings(s, found) ==
    LET kept == Fitting(found, Len(s.headings), MaxOutlineEntries)
    IN  [s EXCEPT !.headings = @ \o kept, !.headingsOmitted = @ + Len(found) - Len(kept)]

\* What the modes without a model add; "coverage" is about the ranges alone.
AddFound(s, c) ==
    LET matched == IF mode \in {"context_presence", "token_count"}
                   THEN AddMatches(s, MatchesForChunk(c)) ELSE s
    IN  IF mode \in {"outline", "token_count"}
        THEN AddHeadings(matched, HeadingsForChunk(c)) ELSE matched

\* validate_evidence_refs: a role may cite nothing but the chunk it was shown.
ValidEvidence(c, cites) ==
    /\ c[1] <= cites[1]
    /\ cites[2] <= c[2]
    /\ cites[1] < cites[2]

\* add_model_assisted_result, once the shape of the answer is accepted: the
\* records it claims, at most max_model_records of them, and its summary.
AddAnswer(s, c, cited) ==
    LET claims  == [i \in DOMAIN cited |-> [chunk |-> c, cites |-> cited[i],
                                            verified |-> ValidEvidence(c, cited[i])]]
        kept    == Fitting(claims, Len(s.claims), MaxModelRecords)
        claimed == [s EXCEPT !.claims = @ \o kept,
                             !.claimsOmitted = @ + Len(claims) - Len(kept)]
    IN  IF mode # "summarize" THEN claimed
        ELSE [claimed EXCEPT !.chunkSummaries = Append(@, c), !.frontier = Append(@, <<c>>)]

\* Mutant: what does not fill a batch is dropped.
MergeFullBatches(frontier) ==
    [i \in 1 .. Len(frontier) \div MaxSummaries |->
        FlattenSeq(SubSeq(frontier, (i - 1) * MaxSummaries + 1, i * MaxSummaries))]

\* One round of reduce_summary_frontier: batches of max_summaries are merged.
MergeBatches(frontier) ==
    [i \in 1 .. (Len(frontier) + MaxSummaries - 1) \div MaxSummaries |->
        FlattenSeq(SubSeq(frontier, (i - 1) * MaxSummaries + 1,
                          Least(i * MaxSummaries, Len(frontier))))]

RoundDue(s) == Len(s.frontier) > MaxSummaries /\ s.depth < MaxSummaryDepth

\* The state after so many rounds, of those that are due.
AfterRounds(s) ==
    LET after[k \in 0 .. MaxSummaryDepth] ==
            IF k = 0 THEN s
            ELSE IF RoundDue(after[k - 1])
            THEN [after[k - 1] EXCEPT !.frontier = MergeBatches(@), !.depth = @ + 1]
            ELSE after[k - 1]
    IN  after

\* reduce_summary_frontier
Reduce(s) == AfterRounds(s)[MaxSummaryDepth]

\* The states it leaves when one of the merges fails: a round is adopted whole.
ReduceFailures(s) == {t \in Range(AfterRounds(s)) : RoundDue(t)}

\* ... with final=True: one more merge makes the aggregate, depth permitting.
LastMergeDue(s) == Len(s.frontier) > 1 /\ s.depth < MaxSummaryDepth

FinalReduce(s) ==
    LET reduced == Reduce(s)
    IN  IF Len(reduced.frontier) = 1 THEN [reduced EXCEPT !.aggregate = Head(reduced.frontier)]
        ELSE IF LastMergeDue(reduced)
        THEN [reduced EXCEPT !.frontier = <<FlattenSeq(@)>>, !.depth = @ + 1,
                             !.aggregate = FlattenSeq(reduced.frontier)]
        ELSE [reduced EXCEPT !.aggregate = Nothing]

FinalReduceFailures(s) ==
    ReduceFailures(s) \cup {t \in {Reduce(s)} : LastMergeDue(t)}

\* Mutant: next_start_byte moves by the chunk size, not by what was read.
CountedWhole(s, c) ==
    [s EXCEPT !.status = "running", !.ranges = Append(@, c),
              !.reviewed = @ + (c[2] - c[1]), !.line = @ + LinesEnded(c[1], c[2]),
              !.next = @ + args.chunkBytes]

\* The chunk is reviewed.
Counted(s, c) ==
    [s EXCEPT !.status = "running", !.ranges = Append(@, c),
              !.reviewed = @ + (c[2] - c[1]), !.line = @ + LinesEnded(c[1], c[2]),
              !.next = c[2]]

-----------------------------------------------------------------------------
(***************************************************************************)
(* An invocation.                                                          *)
(***************************************************************************)
Persist(s) == file' = s /\ state' = s

\* The invocation ends; what it had in memory is gone.
Leave ==
    /\ at' = "down"
    /\ args' = Nothing
    /\ state' = Nothing
    /\ done' = 0
    /\ stopped' = "complete"
    /\ tail' = [start |-> 0, line |-> 1]
    /\ lineTail' = [start |-> 0, line |-> 1]

\* The end of the document, or of what the limits allow, before the first read.
StopReason(a, s) ==
    IF a.maxBytes # NoLimit /\ s.next >= Least(Size, a.maxBytes) THEN "max_bytes"
    ELSE IF Len(s.ranges) >= a.maxChunks THEN "max_chunks"
    ELSE "complete"

Begin(a, s) ==
    /\ args' = a
    /\ state' = s
    /\ done' = 0
    /\ stopped' = StopReason(a, s)
    /\ at' = IF stopped' = "complete" THEN "loop" ELSE "end"
    \* The bytes before the next one are read again for the query, but not
    \* for the line in progress.
    /\ LET start == Most(s.next, Len(query) - 1) - (Len(query) - 1)
       IN  tail' = [start |-> start, line |-> Most(1, s.line - LinesEnded(start, s.next))]
    /\ lineTail' = [start |-> s.next, line |-> s.line]

Start(a) ==
    /\ at = "down"
    /\ file = NoState
    /\ Begin(a, InitialState(a))
    /\ file' = InitialState(a)
    /\ UNCHANGED <<subject, report, cuts>>

\* Resume arguments and status of the state that is taken up.
Resumable(s, a) ==
    /\ s.status \in {"running", "paused", "failed"}
    /\ a.allowChanges \/ s.key = ResumeKey(a)

WithinLine(s) == s.next > 0 /\ s.next < Size /\ doc[s.next] # "n"

Resume(a) ==
    /\ at = "down"
    /\ file \notin {NoState, Torn}
    /\ Resumable(file, a)
    /\ Begin(a, file)
    /\ cuts' = IF WithinLine(file) THEN cuts \cup {file.next} ELSE cuts
    /\ UNCHANGED <<subject, file, report>>

MoreToRead == at = "loop" /\ ChunkEnd > state.next

\* Limits that end the loop before the next chunk; the clock may be one.
LimitsReached ==
    {reason \in {"max_bytes", "max_chunks", "max_elapsed_seconds"} :
        CASE reason = "max_bytes"  -> state.reviewed >= args.maxBytes
          [] reason = "max_chunks" -> Len(state.ranges) >= args.maxChunks
          [] OTHER                 -> args.timed}

MustStop == LimitsReached \ {"max_elapsed_seconds"} # {}

StopAtLimit ==
    /\ MoreToRead
    /\ stopped' \in LimitsReached
    /\ at' = "end"
    /\ UNCHANGED <<subject, file, report, args, state, done, tails, cuts>>

NothingToRead ==
    /\ at = "loop"
    /\ ChunkEnd <= state.next
    /\ at' = "end"
    /\ UNCHANGED <<subject, file, report, args, state, done, stopped, tails, cuts>>

\* The chunk's findings are in s: count it, write the state, keep the tails.
FinishChunk(s) ==
    LET counted == Counted(s, Chunk)
    IN  /\ Persist(counted)
        /\ done' = done + 1
        /\ at' = IF done' >= args.stopAfter THEN "pause" ELSE "loop"
        /\ tail' = TailAfter(Chunk, counted.line)
        /\ lineTail' = IF mode \in {"outline", "token_count"}
                       THEN LineTailAfter(Chunk, counted.line) ELSE lineTail
        /\ UNCHANGED <<subject, report, args, stopped, cuts>>

ReviewChunk ==
    /\ MoreToRead /\ ~ MustStop
    /\ mode \notin MODEL_ASSISTED_MODES
    /\ FinishChunk(AddFound(state, Chunk))

\* A role answers, citing any of the stretches, and the summaries are merged.
AssistedChunk ==
    /\ MoreToRead /\ ~ MustStop
    /\ mode \in MODEL_ASSISTED_MODES
    /\ \E cited \in {<<>>} \cup {<<c>> : c \in Citations} :
           LET answered == AddAnswer(state, Chunk, cited)
           IN  FinishChunk(IF mode = "summarize" THEN Reduce(answered) ELSE answered)

\* Mutant: a resumption goes on behind the chunk that failed.
FailAndSkipChunk(s) ==
    /\ Len(state.failed) < MaxFailures
    /\ file' = [s EXCEPT !.status = "failed", !.failed = Append(@, Chunk), !.next = ChunkEnd]
    /\ Leave
    /\ UNCHANGED <<subject, report, cuts>>

\* The except branch: what was added before the failure is written with it.
FailChunk(s) ==
    /\ Len(state.failed) < MaxFailures
    /\ file' = [s EXCEPT !.status = "failed", !.failed = Append(@, Chunk)]
    /\ Leave
    /\ UNCHANGED <<subject, report, cuts>>

\* The role does not answer, or its answer does not have the required shape.
AnswerFails ==
    /\ MoreToRead /\ ~ MustStop
    /\ mode \in MODEL_ASSISTED_MODES
    /\ FailChunk(state)

\* It answers, and one of the merges of summaries that follow fails.
MergeFails ==
    /\ MoreToRead /\ ~ MustStop
    /\ mode = "summarize"
    /\ \E cited \in {<<>>} \cup {<<c>> : c \in Citations} :
           \E s \in ReduceFailures(AddAnswer(state, Chunk, cited)) : FailChunk(s)

PauseRun ==
    /\ at = "pause"
    /\ Persist([state EXCEPT !.status = "paused"])
    /\ stopped' = "paused"
    /\ at' = "end"
    /\ UNCHANGED <<subject, report, args, done, tails, cuts>>

\* The status behind the loop.
EndStatus ==
    IF state.next >= Size THEN "completed"
    ELSE IF StopReason(args, state) # "complete" \/ stopped # "complete" \/ state.status = "paused"
    THEN "paused"
    ELSE "running"

EndedState == [state EXCEPT !.status = EndStatus]

LastReduction == mode = "summarize" /\ EndStatus = "completed"

EndRun ==
    /\ at = "end"
    /\ Persist(IF LastReduction THEN FinalReduce(EndedState) ELSE EndedState)
    /\ at' = "report"
    /\ UNCHANGED <<subject, report, args, done, stopped, tails, cuts>>

LastReductionFails ==
    /\ at = "end"
    /\ LastReduction
    /\ \E s \in FinalReduceFailures(EndedState) : file' = [s EXCEPT !.status = "failed"]
    /\ Leave
    /\ UNCHANGED <<subject, report, cuts>>

WriteReport ==
    /\ at = "report"
    /\ report' = [status |-> state.status, next |-> state.next]
    /\ Leave
    /\ UNCHANGED <<subject, file, cuts>>

\* The process dies, or an exception that nothing records ends the invocation.
Crash ==
    /\ at # "down"
    /\ Leave
    /\ UNCHANGED <<subject, file, report, cuts>>

\* It dies between the truncation of the file it writes and the last byte.
CrashInWrite ==
    /\ at # "down"
    /\ IF at = "report" THEN report' = Torn /\ UNCHANGED file
                        ELSE file' = Torn /\ UNCHANGED report
    /\ Leave
    /\ UNCHANGED <<subject, cuts>>

Step ==
    \/ StopAtLimit
    \/ NothingToRead
    \/ ReviewChunk
    \/ AssistedChunk
    \/ AnswerFails
    \/ MergeFails
    \/ PauseRun
    \/ EndRun
    \/ LastReductionFails
    \/ WriteReport

Next == (\E a \in Arguments : Start(a) \/ Resume(a)) \/ Step \/ Crash \/ CrashInWrite

Spec == Init /\ [][Next]_vars

-----------------------------------------------------------------------------
(***************************************************************************)
(* Properties.                                                             *)
(***************************************************************************)
\* What the state file holds, and what a running invocation would write.
KnownStates == {file, state} \ {NoState, Torn, Nothing}

LineOf(p) == 1 + LinesEnded(0, p)

\* However the document was cut into chunks and sessions, the matches are
\* occurrences of the query on the lines they name, no two of them the same,
\* and no occurrence was passed over unless the limit was reached.
MatchesFollowDocument ==
    mode \in {"context_presence", "token_count"} => \A s \in KnownStates :
        /\ \A i \in DOMAIN s.matches :
              LET m == s.matches[i]
              IN  /\ Occurs(m.start) /\ m.end = m.start + Len(query) /\ m.end <= s.next
                  /\ m.line = LineOf(m.start)
                  /\ i > 1 => s.matches[i - 1].start < m.start
        /\ s.matchesOmitted > 0 => Len(s.matches) = MaxQueryMatches
        /\ s.matchesOmitted = 0 =>
              \A p \in 0 .. s.next :
                  p + Len(query) <= s.next /\ Occurs(p) =>
                      \E m \in Range(s.matches) : m.start < p + Len(query) /\ p < m.end

\* The headings a reader of the first behind bytes would list, were a line to
\* begin at each of these bytes too.
HeadingsUpTo(behind, alsoAt) ==
    LET begins == {0} \cup alsoAt \cup {p \in 1 .. Size : doc[p] = "n"}
        starts == {p \in begins : \E e \in p + 1 .. behind :
                      /\ doc[e] = "n" \/ e = Size
                      /\ \A q \in begins : ~ (p < q /\ q < e)
                      /\ IsHeading(p, e)}
    IN  InOrder(starts)

\* The outline lists, in order, the headings of the lines read so far,
\* whatever the chunks, with one exception: where a resumption began within a
\* line, that line is read as if it began there.
HeadingsFollowDocument ==
    mode \in {"outline", "token_count"} => \A s \in KnownStates :
        LET expected == HeadingsUpTo(s.next, cuts)
            listed   == Least(Len(expected), MaxOutlineEntries)
        IN  /\ Len(s.headings) = listed
            /\ \A i \in 1 .. listed : /\ s.headings[i].start = expected[i]
                                      /\ s.headings[i].line = LineOf(expected[i])
            /\ s.headingsOmitted = Len(expected) - listed

Occurrences(c, chunks) == Cardinality({i \in DOMAIN chunks : chunks[i] = c})

\* Merging neither loses nor reorders what the chunks were summarised to, and
\* no chunk is without its summary.  A chunk is summarised more than once only
\* if it failed after it had been summarised.  The aggregate, which is missing
\* from a completed run only if the depth was used up, stands for all of them.
SummariesFollowChunks(s) ==
    /\ FlattenSeq(s.frontier) = s.chunkSummaries
    /\ Range(s.chunkSummaries) \subseteq Range(s.ranges) \cup Range(s.failed)
    /\ \A i \in DOMAIN s.ranges :
          Occurrences(s.ranges[i], s.chunkSummaries)
              \in 1 .. 1 + Occurrences(s.ranges[i], s.failed)
    /\ s.aggregate # Nothing => s.aggregate = s.chunkSummaries
    /\ s.status = "completed" /\ s.aggregate = Nothing => s.depth = MaxSummaryDepth

\* What is labeled source_verified cites bytes of the chunk the role was shown,
\* and that chunk is counted as reviewed, or failed after its answer was added.
ClaimsHaveSources(s) ==
    \A k \in Range(s.claims) :
        /\ k.chunk \in Range(s.ranges) \cup Range(s.failed)
        /\ k.verified => /\ k.chunk[1] <= k.cites[1]
                         /\ k.cites[1] < k.cites[2]
                         /\ k.cites[2] <= k.chunk[2]

\* What the roles answered is kept with the chunks they were shown, through
\* merges, failures behind an answer and resumptions; and "a model-assisted claim
\* cannot be accepted without a valid source range".
AnswersFollowChunks ==
    \A s \in KnownStates :
        ClaimsHaveSources(s) /\ (mode = "summarize" => SummariesFollowChunks(s))

\* The state file, seen as the progress of a scan.
Scan == INSTANCE ResumableScan WITH
    Sizes   <- {Len(s.doc) : s \in Subjects},
    size    <- Size,
    covered <- IF file \in {NoState, Torn} THEN <<>> ELSE file.ranges,
    phase   <- IF file = NoState THEN "none"
               ELSE IF file = Torn THEN "lost"
               ELSE IF file.status = "completed" THEN "complete"
               ELSE "open"

ImplementsScan == Scan!Spec

=============================================================================
