------------------------------ MODULE HttpParser ------------------------------
(***************************************************************************)
(* How a request is read and recognised, in the two programs that have the *)
(* parser: "8-3 parse_line.cpp" ("parse_line") and http_conn of            *)
(* "15-5 http_conn.cpp" ("http_conn").  A state machine for lines,         *)
(* parse_line, runs within a state machine for the request, and both       *)
(* resume in a buffer that grows with every recv.                          *)
(*                                                                         *)
(* A byte is a carriage return, a line feed, or a token for the part of a  *)
(* line that matters: REQ is the text of a request line the program takes, *)
(* KEEP "Connection:" with "keep-alive", LEN "Content-Length:" with the    *)
(* number that the client has chosen; x is any other text.                 *)
(***************************************************************************)
EXTENDS Integers, Sequences, FiniteSets

CONSTANTS
    Programs,     \* which of the two programs
    Inputs,       \* what clients may send
    Numbers,      \* what they may claim as Content-Length
    SIZE,         \* BUFFER_SIZE, READ_BUFFER_SIZE
    IntMax        \* the largest int

Bytes == {"CR", "LF", "NUL", "REQ", "KEEP", "LEN", "x"}

ASSUME ProgramsAssumption == Programs \subseteq {"parse_line", "http_conn"}
ASSUME InputsAssumption == Inputs \subseteq Seq(Bytes \ {"NUL"})
ASSUME NumbersAssumption ==
    /\ SIZE \in Nat \ {0} /\ IntMax \in Nat /\ SIZE <= IntMax
    /\ Numbers \subseteq -IntMax - 1 .. IntMax

VARIABLES
    prog, input, number,   \* the program, and its client's choices
    fin,                   \* the client has closed its side
    base,                  \* bytes that were read before the last init()
    pc,                    \* recv, parse, answered (a reply is due), closed,
                           \* undefined (nothing is said of what follows)
    buf,                   \* m_read_buf
    read_idx, checked_idx, start_line,
    text,                  \* the line that the main state machine has last got
    check_state, line_status, content_length, linger,
    result                 \* of the last parse

vars == <<prog, input, number, fin, base, pc, buf, read_idx, checked_idx,
          start_line, text, check_state, line_status, content_length, linger,
          result>>
client == <<prog, input, number>>
parsed == <<checked_idx, start_line, text, check_state, line_status,
            content_length, linger, result>>

-----------------------------------------------------------------------------
Least(S) == CHOOSE i \in S : \A j \in S : i <= j

EmptyBuf == [i \in 0 .. SIZE - 1 |-> "NUL"]

\* main of 8-3 before its loop; http_conn::init() of a new connection.
Init ==
    /\ prog \in Programs /\ input \in Inputs /\ number \in Numbers
    /\ fin = FALSE /\ base = 0 /\ pc = "recv"
    /\ buf = EmptyBuf
    /\ read_idx = 0 /\ checked_idx = 0 /\ start_line = 0 /\ text = 0
    /\ check_state = "requestline" /\ line_status = "ok"
    /\ content_length = 0 /\ linger = FALSE /\ result = "NO_REQUEST"

\* The client closes its side when it has sent everything.
Fin == ~fin /\ fin' = TRUE
         /\ UNCHANGED <<client, base, pc, buf, read_idx, parsed>>

-----------------------------------------------------------------------------
(* recv.                                                                   *)

Unread == Len(input) - base - read_idx
Room == SIZE - read_idx
AtEnd == fin /\ Unread = 0

\* The next n bytes go to the buffer.
Receive(n) ==
    /\ buf' = [i \in 0 .. SIZE - 1 |->
                 IF i \in read_idx .. read_idx + n - 1 THEN input[base + i + 1]
                 ELSE buf[i]]
    /\ read_idx' = read_idx + n

\* parse_content or process_read begins.
StartParse ==
    /\ pc' = "parse"
    /\ line_status' = "ok" /\ result' = "NO_REQUEST"
    /\ UNCHANGED <<checked_idx, start_line, text, check_state, content_length,
                   linger>>

\* 8-3 parses what one recv has brought.
RecvOnce(n) ==
    /\ prog = "parse_line" /\ pc = "recv"
    /\ n <= Room /\ Receive(n)
    /\ StartParse
    /\ UNCHANGED <<client, fin, base>>

\* http_conn::read() goes on until there is nothing (EAGAIN); a full buffer
\* ends it otherwise, because recv then returns 0.
MutMayParse(n) == n <= Room
MayParse(n) == n < Room
ReadAll(n) ==
    /\ prog = "http_conn" /\ pc = "recv"
    /\ MayParse(n) /\ Receive(n)
    /\ ~(fin /\ n = Unread)
    /\ StartParse
    /\ UNCHANGED <<client, fin, base>>

\* recv of 0 bytes, at the end or because the buffer is full: the connection
\* is closed.  http_conn does so even if it has just read something.
MutGivesUp ==
    IF prog = "parse_line" THEN AtEnd \/ Room = 0
    ELSE fin \/ Unread >= Room - 1
GivesUp ==
    IF prog = "parse_line" THEN AtEnd \/ Room = 0
    ELSE fin \/ Unread >= Room
CloseUnread ==
    /\ pc = "recv" /\ GivesUp
    /\ pc' = "closed"
    /\ UNCHANGED <<client, fin, base, buf, read_idx, parsed>>

-----------------------------------------------------------------------------
(* parse_line: the line state machine, from checked_idx on.                *)

\* Where its loop stops.
Stops == {i \in checked_idx .. read_idx - 1 : buf[i] \in {"CR", "LF"}}
Stop == IF Stops = {} THEN read_idx ELSE Least(Stops)

HalfLine == Stop = read_idx \/ (buf[Stop] = "CR" /\ Stop + 1 = read_idx)
AtCRLF == buf[Stop] = "CR" /\ buf[Stop + 1] = "LF"
AtLF == buf[Stop] = "LF" /\ Stop > 1 /\ buf[Stop - 1] = "CR"
MutLineStatus == IF Stop = read_idx THEN "open"
                 ELSE IF ~HalfLine /\ AtCRLF THEN "ok" ELSE "bad"
LineStatus == IF HalfLine THEN "open"
              ELSE IF AtCRLF \/ AtLF THEN "ok" ELSE "bad"

\* A whole line: its end is overwritten, text and start_line move on.  The
\* text of the line is from start_line to the end.
LineEnd == IF AtCRLF THEN Stop ELSE Stop - 1
GetLine ==
    /\ pc = "parse" /\ LineStatus = "ok"
    /\ buf' = [buf EXCEPT ![LineEnd] = "NUL", ![LineEnd + 1] = "NUL"]
    /\ checked_idx' = LineEnd + 2
    /\ text' = start_line /\ start_line' = checked_idx'
Line == [i \in 1 .. LineEnd - start_line |-> buf[start_line + i - 1]]

\* What the parser answers with; the caller replies.
Answer(r) == pc' = "answered" /\ result' = r
GoOn == UNCHANGED <<pc, result>>

-----------------------------------------------------------------------------
(* The main state machine: one round of its loop.                          *)

\* In this state it takes no line, unless the loop has been here before.
SkipsLine == check_state = "content" /\ line_status = "ok"

\* parse_request_line.
RequestLine ==
    /\ check_state = "requestline" /\ GetLine
    /\ line_status' = "ok"
    /\ IF Line = <<"REQ">>
       THEN check_state' = "header" /\ GoOn
       ELSE check_state' = check_state /\ Answer("BAD_REQUEST")
    /\ UNCHANGED <<client, fin, base, read_idx, content_length, linger>>

\* parse_headers of a blank line.  8-3 knows no body.
BlankLine ==
    /\ check_state = "header" /\ GetLine /\ Line = <<>>
    /\ line_status' = "ok"
    /\ IF content_length # 0
       THEN check_state' = "content" /\ GoOn
       ELSE check_state' = check_state /\ Answer("GET_REQUEST")
    /\ UNCHANGED <<client, fin, base, read_idx, content_length, linger>>

\* parse_headers of any other line; 8-3 looks at none of them.  What atol makes
\* of a Content-Length is taken as it is, a negative number too.
HeaderLine ==
    /\ check_state = "header" /\ GetLine /\ Line # <<>>
    /\ line_status' = "ok"
    /\ linger' = (linger \/ (prog = "http_conn" /\ Line = <<"KEEP">>))
    /\ content_length' = IF prog = "http_conn" /\ Line[1] = "LEN" THEN number
                         ELSE content_length
    /\ GoOn
    /\ UNCHANGED <<client, fin, base, read_idx, check_state>>

\* parse_content (of 15-5), and what the loop does with its result.  The sum
\* may overflow, and behind a body of negative length the null falls before
\* the buffer.  (A null that falls into the request cuts a text of it.)
BodyRead == read_idx >= content_length + checked_idx'
Wild == \/ content_length > IntMax - checked_idx'
        \/ BodyRead /\ text' + content_length < 0
MutBody ==
    \/ Wild /\ pc' = "undefined" /\ line_status' = "ok" /\ UNCHANGED result
    \/ ~Wild /\ BodyRead /\ Answer("GET_REQUEST") /\ line_status' = "ok"
    \/ ~Wild /\ ~BodyRead /\ GoOn /\ line_status' = "ok"
Body ==
    \/ Wild /\ pc' = "undefined" /\ line_status' = "ok" /\ UNCHANGED result
    \/ ~Wild /\ BodyRead /\ Answer("GET_REQUEST") /\ line_status' = "ok"
    \/ ~Wild /\ ~BodyRead /\ GoOn /\ line_status' = "open"

\* The body, at the end of the headers or when process_read is called again.
Content ==
    /\ pc = "parse" /\ SkipsLine
    /\ text' = start_line /\ start_line' = checked_idx
    /\ UNCHANGED checked_idx
    /\ Body
    /\ UNCHANGED <<client, fin, base, buf, read_idx, check_state, content_length,
                   linger>>

\* The second round in this state takes a line of the body.
BodyLine ==
    /\ check_state = "content" /\ ~SkipsLine /\ GetLine
    /\ Body
    /\ UNCHANGED <<client, fin, base, read_idx, check_state, content_length,
                   linger>>

\* The line is not complete: all that is left of it has been checked.
LineOpen ==
    /\ pc = "parse" /\ ~SkipsLine /\ LineStatus = "open"
    /\ line_status' = "open" /\ checked_idx' = Stop
    /\ pc' = "recv"
    /\ UNCHANGED <<client, fin, base, buf, read_idx, start_line, text,
                   check_state, content_length, linger, result>>

\* A carriage return or a line feed out of place.  15-5 returns NO_REQUEST.
LineBad ==
    /\ pc = "parse" /\ ~SkipsLine /\ LineStatus = "bad"
    /\ line_status' = "bad" /\ checked_idx' = Stop
    /\ IF prog = "parse_line" THEN Answer("BAD_REQUEST")
       ELSE pc' = "recv" /\ UNCHANGED result
    /\ UNCHANGED <<client, fin, base, buf, read_idx, start_line, text,
                   check_state, content_length, linger>>

Parse == RequestLine \/ BlankLine \/ HeaderLine \/ Content \/ BodyLine
            \/ LineOpen \/ LineBad

-----------------------------------------------------------------------------
\* The reply is written and the connection closed, or, if the client has
\* asked for it, made ready for another request; what was read behind the
\* first one is forgotten.  (An empty file closes it in any case.)
MutReset ==
    /\ buf' = EmptyBuf
    /\ read_idx' = 0 /\ checked_idx' = 0 /\ start_line' = 0 /\ text' = 0
    /\ check_state' = "requestline" /\ line_status' = "ok"
    /\ linger' = FALSE /\ result' = "NO_REQUEST"
    /\ UNCHANGED content_length
Reset ==
    /\ buf' = EmptyBuf
    /\ read_idx' = 0 /\ checked_idx' = 0 /\ start_line' = 0 /\ text' = 0
    /\ check_state' = "requestline" /\ line_status' = "ok"
    /\ content_length' = 0 /\ linger' = FALSE /\ result' = "NO_REQUEST"

ReplyKeep ==
    /\ pc = "answered" /\ linger
    /\ Reset
    /\ base' = base + read_idx
    /\ pc' = "recv"
    /\ UNCHANGED <<client, fin>>

ReplyClose ==
    /\ pc = "answered"
    /\ ~linger \/ result = "GET_REQUEST"
    /\ pc' = "closed"
    /\ UNCHANGED <<client, fin, base, buf, read_idx, parsed>>

Server ==
    \/ \E n \in 1 .. Unread : RecvOnce(n) \/ ReadAll(n)
    \/ CloseUnread \/ Parse \/ ReplyKeep \/ ReplyClose

Next == Server \/ Fin

Spec == Init /\ [][Next]_vars

\* The server reads what there is, and its loops run.
FairSpec == Spec /\ WF_vars(Server)

-----------------------------------------------------------------------------
(* Properties.                                                             *)

\* "The 0th to checked_index bytes in the buffer have been analyzed": the
\* indices keep their order, and the null that parse_content writes behind a
\* body never falls behind the buffer.  (It may fall before it, see Wild.)
IndicesOrdered ==
    /\ text <= start_line /\ start_line <= checked_idx
    /\ checked_idx <= read_idx
    /\ pc = "answered" /\ check_state = "content"
           => text + content_length < SIZE

\* Every variable stays in its type, and the indices in order.
TypeOK ==
    /\ prog \in Programs /\ input \in Seq(Bytes) /\ number \in Numbers
    /\ fin \in BOOLEAN /\ base \in Nat
    /\ pc \in {"recv", "parse", "answered", "closed", "undefined"}
    /\ buf \in [0 .. SIZE - 1 -> Bytes]
    /\ read_idx \in 0 .. SIZE /\ checked_idx \in 0 .. SIZE
    /\ start_line \in 0 .. SIZE /\ text \in 0 .. SIZE
    /\ check_state \in {"requestline", "header", "content"}
    /\ line_status \in {"ok", "open", "bad"}
    /\ content_length \in {0} \cup Numbers /\ linger \in BOOLEAN
    /\ result \in {"NO_REQUEST", "GET_REQUEST", "BAD_REQUEST"}
    /\ IndicesOrdered

-----------------------------------------------------------------------------
\* A reference for the parser: what a request is, seen as a whole.  s is what
\* has been read since the last init().

Got == SubSeq(input, base + 1, base + read_idx)

\* Positions of the first byte of a line end, and of bytes that are part of
\* no line end but should be.
Ends(s) == {i \in 1 .. Len(s) - 1 : s[i] = "CR" /\ s[i + 1] = "LF"}
Strays(s) == {i \in 1 .. Len(s) :
                 \/ s[i] = "LF" /\ (i > 1 => s[i - 1] # "CR")
                 \/ s[i] = "CR" /\ i < Len(s) /\ s[i + 1] # "LF"}
CleanTo(s, i) == \A j \in Strays(s) : j > i

\* The line ends behind which a line starts that is empty.
Blanks(s) == {i \in Ends(s) : i > 2 /\ s[i - 2] = "CR" /\ s[i - 1] = "LF"}
HasRequestLine(s) == Ends(s) # {} /\ CleanTo(s, Least(Ends(s)))
BadRequestLine(s) ==
    HasRequestLine(s) /\ SubSeq(s, 1, Least(Ends(s)) - 1) # <<"REQ">>
HasHeaders(s) == Blanks(s) # {} /\ CleanTo(s, Least(Blanks(s)))

\* The last byte of the headers, and the length of the body.
HeaderEnd(s) == Least(Blanks(s)) + 1
BodyLength(s) ==
    IF prog = "http_conn" /\ \E i \in 3 .. HeaderEnd(s) :
                                 s[i] = "LEN" /\ s[i - 2] = "CR" /\ s[i - 1] = "LF"
    THEN number ELSE 0

Verdict(s) ==
    IF BadRequestLine(s) THEN "BAD_REQUEST"
    ELSE IF HasHeaders(s)
         THEN IF Len(s) - HeaderEnd(s) >= BodyLength(s) THEN "GET_REQUEST"
              ELSE "NO_REQUEST"
    ELSE IF Strays(s) # {} THEN "BAD_REQUEST" ELSE "NO_REQUEST"

\* However the request was cut into pieces, an answer is the one that the
\* bytes deserve as a whole; nothing of an earlier request of the connection
\* is left in it.
ResultSound == pc = "answered" => result = Verdict(Got)

\* What http_conn does not see: a line that is malformed, and a body some of
\* which has been taken for a line.
Overlooked ==
    /\ prog = "http_conn"
    /\ \/ Verdict(Got) = "BAD_REQUEST"
       \/ check_state = "content" /\ checked_idx > HeaderEnd(Got)

\* And it comes at once: when more is waited for, what has been read decides
\* nothing (but for what http_conn overlooks).
ResultPrompt == pc = "recv" => Verdict(Got) = "NO_REQUEST" \/ Overlooked

\* What the client sends for this answer, as far as the buffer takes it, and
\* whether that is a request the program does answer: 8-3 any that is decided,
\* 15-5 one that is right, has no body and leaves the buffer room for more.
Sent == SubSeq(input, base + 1, Least({Len(input), base + SIZE}))
Due ==
    IF prog = "parse_line" THEN Verdict(Sent) # "NO_REQUEST"
    ELSE Verdict(Sent) = "GET_REQUEST" /\ BodyLength(Sent) = 0
            /\ Len(input) - base < SIZE

\* Whatever the pieces, such a request is read to its end and answered, the
\* second one of a connection too; but http_conn closes a connection whose
\* client has closed its side, whatever it has just read from it.
RequestAnswered ==
    pc = "recv" /\ Due ~> pc = "answered" \/ (prog = "http_conn" /\ fin)

\* A parse comes to an end: every round of the loop takes bytes out of what
\* is left to check, but for the one that looks at the body, which is not
\* repeated before bytes are taken.
Progress ==
    \/ checked_idx' > checked_idx
    \/ checked_idx' = checked_idx /\ SkipsLine /\ ~SkipsLine'
ParseReturns == [][pc = "parse" /\ fin' = fin => pc' # "parse" \/ Progress]_vars

\* What the comment on parse_content says: the parser determines whether the
\* body has been read completely, and answers if it has.  The code fails it for
\* a body that comes in more than one piece.
BodyRecognised ==
    pc = "recv" /\ check_state = "content"
        => read_idx < HeaderEnd(Got) + content_length
=============================================================================
