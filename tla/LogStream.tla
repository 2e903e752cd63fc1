------------------------------ MODULE LogStream ------------------------------
(***************************************************************************)
(* internal/serverless/runner.go:152-174: collectLogs turns the stream     *)
(* that the daemon sends for ContainerLogs into the output of a function.  *)
(*                                                                         *)
(* The containers have no terminal, so the stream is multiplexed: a frame  *)
(* for each line that stdout or stderr wrote, with a header of HeaderLen   *)
(* bytes that ends in the length of the frame.  The code does not read the *)
(* frames; it splits the stream at newlines and cuts each piece.  Bytes    *)
(* are numbers here because the length in a header may be a newline.       *)
(*                                                                         *)
(* Bounds: lines of MaxLine characters, MaxLines of them.  The daemon also *)
(* splits lines of more than 16 KiB, which is beyond the bound.            *)
(***************************************************************************)
EXTENDS Integers, Sequences, SequencesExt

CONSTANTS
    MaxLine,    \* the most characters of a line
    MaxLines    \* the most lines of a function's output

VARIABLES
    running,    \* the function may still write
    stream,     \* the bytes the daemon has for ContainerLogs
    text,       \* history: the bytes the function wrote
    fetched,    \* how the fetch ended: not yet, refused, cut off or complete
    output      \* what collectLogs returned

vars == <<running, stream, text, fetched, output>>

-----------------------------------------------------------------------------

NL == 10
Char == 120     \* every other character, 'x'
HeaderLen == 8

Bytes(n, b) == [k \in 1 .. n |-> b]

\* The header is the stream's number, three zeros and the length as four bytes.
Frame(fd, p) == <<fd, 0, 0, 0, 0, 0, 0, Len(p)>> \o p

\* strings.Split(s, "\n"): the pieces between the newlines, the empty ones too.
Split(s) ==
    LET cuts == SetToSortSeq({0, Len(s) + 1} \cup {k \in 1 .. Len(s) : s[k] = NL}, <)
    IN  [k \in 1 .. Len(cuts) - 1 |-> SubSeq(s, cuts[k] + 1, cuts[k + 1] - 1)]

\* strings.Join(ls, "\n")
Join(ls) == FlattenSeq([k \in 1 .. Len(ls) |-> IF k = 1 THEN ls[k] ELSE <<NL>> \o ls[k]])

\* Lines of at most eight bytes are dropped, the others lose their first eight.
Strip(raw) ==
    LET lines == SelectSeq(Split(raw), LAMBDA l : Len(l) > HeaderLen)
    IN  Join([k \in 1 .. Len(lines) |-> SubSeq(lines[k], HeaderLen + 1, Len(lines[k]))])

Init ==
    /\ running = TRUE
    /\ stream = << >> /\ text = << >>
    /\ fetched = "no" /\ output = << >>

-----------------------------------------------------------------------------

Writes(fd, p) ==
    /\ stream' = stream \o Frame(fd, p)
    /\ text' = text \o p
    /\ UNCHANGED <<fetched, output>>

\* A line on stdout or stderr, blank ones included.
FnWrites(fd, n) ==
    /\ running /\ Len(SelectSeq(text, LAMBDA b : b = NL)) < MaxLines
    /\ Writes(fd, Bytes(n, Char) \o <<NL>>)
    /\ UNCHANGED running

\* The function ends; what it wrote behind its last newline is a frame too.
FnEnds(fd, n) ==
    /\ running /\ running' = FALSE
    /\ IF n = 0 THEN UNCHANGED <<stream, text, fetched, output>>
       ELSE Writes(fd, Bytes(n, Char))

\* ContainerLogs fails: an empty output, and no error.
FetchFails ==
    /\ ~running /\ fetched = "no" /\ fetched' = "refused"
    /\ UNCHANGED <<running, stream, text, output>>

\* io.Copy reads the stream to its end, or fails after k bytes; its error is
\* dropped and what it read is taken for the whole.
CollectLogs(k) ==
    /\ ~running /\ fetched = "no"
    /\ fetched' = IF k = Len(stream) THEN "complete" ELSE "cut"
    /\ output' = Strip(SubSeq(stream, 1, k))
    /\ UNCHANGED <<running, stream, text>>

Returned == fetched # "no" /\ UNCHANGED vars

Next ==
    \/ \E fd \in {1, 2}, n \in 0 .. MaxLine : FnWrites(fd, n) \/ FnEnds(fd, n)
    \/ \E k \in 0 .. Len(stream) : CollectLogs(k)
    \/ FetchFails \/ Returned

Spec == Init /\ [][Next]_vars

-----------------------------------------------------------------------------
(* Properties *)

Printed(s) == SelectSeq(s, LAMBDA b : b # NL)

\* "Invoke runs the given function in a fresh container and returns
\* stdout/stderr" (runner.go:59), and only the headers are stripped
\* (runner.go:165): from a stream that was read to its end, the output has the
\* characters that the function wrote, its newlines left aside.
OutputIsReturned == fetched = "complete" => Printed(output) = Printed(text)

=============================================================================
