----------------------------- MODULE LogParser -----------------------------
(***************************************************************************)
(* How the output of a child becomes log lines: the two goroutines of      *)
(* CmdHandler.Start (pkg/helpers/CmdHelper.go) read the child's stdout and *)
(* stderr in pieces of up to 256 bytes and hand each piece to the same     *)
(* parser, whose HandleData (internal/log/BaseLogParser.go) collects them  *)
(* in one buffer, handles one line under the lock, and calls itself as     *)
(* long as it has found a line.                                            *)
(*                                                                         *)
(* What becomes of a line is decided by handleLine of KubeLogParser.go or  *)
(* EtcdLogParser.go.                                                       *)
(*                                                                         *)
(* A byte is known by its stream, its line and whether it is the newline;  *)
(* a line by what handleLine finds in it, its kind.                        *)
(***************************************************************************)
EXTENDS Integers, SequencesExt

CONSTANTS
    Streams,   \* the pipes of the child ("stdout" and "stderr")
    Parsers,   \* the formats that are looked at, of "kube" and "etcd"
    Output,    \* Output[p][s]: the lines that a child whose parser is p writes
               \* to s, each with its length, newline included, and its kind
    Piece      \* bytes a Read returns at most (256 in the code)

Kinds ==
    {"I", "E", "W", "D", "N", "S", "C",  \* the letters of a severity
     "X",         \* a letter that is none of the parser's severities
     "restful",   \* starts with [restful], and has the format of such lines
     "noise",     \* one of the two messages of etcd that are dropped
     "plain",     \* does not have the format
     "indented"}  \* starts with a blank, and has the format otherwise

ASSUME LogConstants ==
    /\ Piece \in Nat \ {0}
    /\ \A p \in Parsers : \A s \in Streams :
          Output[p][s] \in Seq([len : Nat \ {0}, kind : Kinds])

VARIABLES
    parser,   \* the parser of the child's service
    left,     \* what each stream has still to give
    closed,   \* has Wait closed the pipes?
    reader,   \* the goroutine of each stream
    held,     \* the argument of its call of HandleData
    buf,      \* the buffer of the parser
    handled,  \* the lines lineHandler has got
    panicked  \* has handleLine taken the daemon down?

vars == <<parser, left, closed, reader, held, buf, handled, panicked>>

Byte(s, line, last) == [stream |-> s, line |-> line, newline |-> last]

\* The i-th line of stream s.
Line(s, i) ==
    LET n == Output[parser][s][i].len
    IN [j \in 1..n |-> Byte(s, i, j = n)]

Lines(s) == [i \in 1..Len(Output[parser][s]) |-> Line(s, i)]

Written(s) == FlattenSeq(Lines(s))

Bytes == UNION {ToSet(Written(s)) : s \in Streams}

TypeOK ==
    /\ parser \in Parsers
    /\ \A s \in Streams : IsSuffix(left[s], Written(s))
    /\ closed \in BOOLEAN /\ panicked \in BOOLEAN
    /\ reader \in [Streams -> {"read", "handle", "again", "ended"}]
    /\ \A s \in Streams : Len(held[s]) <= Piece
    /\ buf \in Seq(Bytes) /\ handled \in Seq(Seq(Bytes))

Init ==
    /\ parser \in Parsers
    /\ left = [s \in Streams |-> Written(s)]
    /\ closed = FALSE /\ panicked = FALSE
    /\ reader = [s \in Streams |-> "read"]
    /\ held = [s \in Streams |-> <<>>]
    /\ buf = <<>> /\ handled = <<>>

-----------------------------------------------------------------------------
(* handleLine.                                                              *)

\* The severities each parser knows; Notice is Info, Severe and Critical are
\* Error.
LevelOf ==
    LET common == [I |-> "info", E |-> "error", W |-> "warning", D |-> "debug",
                   N |-> "info"]
    IN [kube |-> [S |-> "error"] @@ common, etcd |-> [C |-> "error"] @@ common]

Entry(level) == [level |-> level, own |-> FALSE]

\* The entries that handleLine of parser p makes of a line of kind k; the ones
\* that are not the line but about it are the parser's own.
HandleLine(p, k) ==
    CASE k = "restful" /\ p = "kube"   -> <<Entry("info")>>
      [] k = "restful" /\ p = "etcd"   -> <<Entry("warning")>>
      [] k = "plain"                   -> <<Entry("warning")>>
      [] k = "noise" /\ p = "etcd"     -> <<>>
      [] k = "indented" /\ p = "kube"  -> <<>>
      [] k \in DOMAIN LevelOf[p]       -> <<Entry(LevelOf[p][k])>>
      [] OTHER -> <<[level |-> "warning", own |-> TRUE], Entry("warning")>>

\* The kinds that a line may be of, which has come out of the buffer: its own
\* when it is as it was written, any when it is made of pieces of several.
KindsOf(line) ==
    LET whole == {k \in Kinds : \E s \in Streams :
                    \E i \in 1..Len(Output[parser][s]) :
                        line = Line(s, i) /\ k = Output[parser][s][i].kind}
    IN IF whole = {} THEN Kinds ELSE whole

\* What precedes the first blank is the severity (logs.lde:17-18), here "": its
\* first letter is looked at, nobody recovers, and the daemon ends.
Panics(p, k) == p = "kube" /\ k = "indented"

-----------------------------------------------------------------------------
\* pipe.Read returns some of what the child has written.
Read(s) ==
    /\ reader[s] = "read"
    /\ ~closed
    /\ \E n \in 1..Piece :
          /\ n <= Len(left[s])
          /\ held' = [held EXCEPT ![s] = SubSeq(left[s], 1, n)]
          /\ left' = [left EXCEPT ![s] = SubSeq(@, n + 1, Len(@))]
    /\ reader' = [reader EXCEPT ![s] = "handle"]
    /\ UNCHANGED <<parser, closed, buf, handled, panicked>>

\* End of file, or the error of a pipe that Wait has closed.
ReadEnds(s) ==
    /\ reader[s] = "read"
    /\ closed \/ left[s] = <<>>
    /\ reader' = [reader EXCEPT ![s] = "ended"]
    /\ UNCHANGED <<parser, left, closed, held, buf, handled, panicked>>

\* The child has ended, and Wait closes the pipes, read to their end or not.
WaitCloses ==
    /\ ~closed
    /\ closed' = TRUE
    /\ UNCHANGED <<parser, left, reader, held, buf, handled, panicked>>

-----------------------------------------------------------------------------
(* HandleData.                                                              *)

\* The places of the newlines in b.
Newlines(b) == {i \in 1..Len(b) : b[i].newline}

\* The first n bytes of b go to lineHandler, the others back to the buffer; with
\* n = 0 there is no line.
Handle(b, n) ==
    /\ buf' = SubSeq(b, n + 1, Len(b))
    /\ IF n = 0
         THEN UNCHANGED <<handled, panicked>>
         ELSE /\ handled' = Append(handled, SubSeq(b, 1, n))
              /\ \E k \in KindsOf(SubSeq(b, 1, n)) : panicked' = Panics(parser, k)

FirstLine(b) == IF Newlines(b) = {} THEN 0 ELSE Min(Newlines(b))

\* Mutant: one line per call.
HandleDataOnce(s) ==
    LET b == buf \o held[s]
    IN /\ reader[s] \in {"handle", "again"}
       /\ held' = [held EXCEPT ![s] = <<>>]
       /\ Handle(b, FirstLine(b))
       /\ reader' = [reader EXCEPT ![s] = "read"]
       /\ UNCHANGED <<parser, left, closed>>

\* Mutant: the line is all that the buffer holds.
HandleDataAll(s) ==
    LET b == buf \o held[s]
    IN /\ reader[s] \in {"handle", "again"}
       /\ held' = [held EXCEPT ![s] = <<>>]
       /\ Handle(b, IF Newlines(b) = {} THEN 0 ELSE Len(b))
       /\ reader' = [reader EXCEPT ![s] = "read"]
       /\ UNCHANGED <<parser, left, closed>>

\* Mutant: without the lock, the piece of a reader that comes second replaces
\* what the first one has just put into the buffer.
HandleDataUnlocked(s) ==
    /\ reader[s] \in {"handle", "again"}
    /\ held' = [held EXCEPT ![s] = <<>>]
    /\ Handle(held[s], FirstLine(held[s]))
    /\ reader' = [reader EXCEPT ![s] =
                     IF FirstLine(held[s]) = 0 THEN "read" ELSE "again"]
    /\ UNCHANGED <<parser, left, closed>>

\* HandleData, from Lock to Unlock: the piece is appended, the first line of
\* the buffer is handled, and when there was one the function calls itself with
\* no data, for which it has to get the lock again.  (It would return at once at
\* an error of lineHandler, lines being left; neither handleLine returns one.)
HandleData(s) ==
    LET b == buf \o held[s]
    IN /\ reader[s] \in {"handle", "again"}
       /\ held' = [held EXCEPT ![s] = <<>>]
       /\ Handle(b, FirstLine(b))
       /\ reader' = [reader EXCEPT ![s] =
                        IF FirstLine(b) = 0 THEN "read" ELSE "again"]
       /\ UNCHANGED <<parser, left, closed>>

Next ==
    /\ ~panicked
    /\ \/ WaitCloses
       \/ \E s \in Streams : Read(s) \/ ReadEnds(s) \/ HandleData(s)

Spec == Init /\ [][Next]_vars

-----------------------------------------------------------------------------
(* Properties.                                                             *)

Idle == \A s \in Streams : reader[s] \in {"read", "ended"}

\* A line does not stay in the buffer: when no call of HandleData is under way,
\* whichever goroutine has got the lock in between, every line that has come in
\* completely has been handled (BaseLogParser.go:92-107).
NoLineWaits == Idle => Newlines(buf) = {}

\* The bytes of stream s among those of b.
BytesOf(s, b) ==
    FlattenSeq([i \in DOMAIN b |-> IF b[i].stream = s THEN <<b[i]>> ELSE <<>>])

\* What a stream has given is kept in order, byte by byte: it has been handled,
\* or is in the buffer, in the hands of its reader, or still in the pipe
\* (BaseLogParser.go:86-95).
OrderKept ==
    \A s \in Streams :
        BytesOf(s, FlattenSeq(handled) \o buf) \o held[s] \o left[s] = Written(s)

\* As long as a child has written to one of its streams only, its lines are
\* handled as it wrote them, in their order and one at a time, however they
\* were cut into pieces (BaseLogParser.go:59, "line reassembly"), and each
\* leaves an entry in the log, "better [...] with incorrect format than to drop
\* the whole thing" (EtcdLogParser.go:42): the exceptions are the two messages
\* that are dropped on purpose, and a line that ends the daemon.
LinesIntact ==
    \A s \in Streams :
        (\A t \in Streams \ {s} : left[t] = Written(t)) =>
            /\ IsPrefix(handled, Lines(s))
            /\ \A i \in DOMAIN handled :
                  LET k == Output[parser][s][i].kind
                  IN \/ \E n \in DOMAIN HandleLine(parser, k) :
                            ~HandleLine(parser, k)[n].own
                     \/ k = "noise"
                     \/ panicked /\ i = Len(handled)

=============================================================================
