--------------------------- MODULE HttpParserProofs ---------------------------
(***************************************************************************)
(* Proofs about HttpParser, for all inputs, every way they are cut into    *)
(* pieces, and every size of the buffer.                                   *)
(***************************************************************************)
EXTENDS HttpParser, TLAPS, WellFoundedInduction, SequenceTheorems

-----------------------------------------------------------------------------
(* The line state machine.                                                 *)

\* A set of naturals that is not empty has a least element.
LEMMA LeastOf ==
    ASSUME NEW S, S \subseteq Nat, S # {}
    PROVE  Least(S) \in S /\ \A j \in S : Least(S) <= j
<1> DEFINE R == {ss \in Nat \X Nat : ss[1] < ss[2]}
<1>1. PICK m \in S : \A k \in S : ~ (<<k, m>> \in R)
  <2>1. IsWellFoundedOn(R, Nat)
    BY NatLessThanWellFounded DEF OpToRel
  <2> HIDE DEF R
  <2> QED
    BY <2>1, WFMin
<1>2. \A k \in S : m <= k
  <2>1. ASSUME NEW k \in S, k < m PROVE FALSE
    <3>1. <<k, m>> \in R
      BY <2>1
    <3> QED
      BY <1>1, <3>1
  <2> QED
    BY <1>1, <2>1
<1> QED
  BY <1>1, <1>2 DEF Least

\* What the types say of the indices and of the buffer.
Indices ==
    /\ base \in Nat /\ read_idx \in Nat /\ checked_idx \in Nat
    /\ start_line \in Nat /\ text \in Nat
    /\ checked_idx <= read_idx /\ read_idx <= SIZE
    /\ buf \in [0 .. SIZE - 1 -> Bytes]

\* Where the loop of parse_line stops.
LEMMA StopFacts ==
    ASSUME Indices
    PROVE  /\ Stop \in Nat /\ checked_idx <= Stop /\ Stop <= read_idx
           /\ Stop < read_idx => buf[Stop] \in {"CR", "LF"}
           /\ \A i \in Nat : checked_idx <= i /\ i < Stop => buf[i] \notin {"CR", "LF"}
<1>1. CASE Stops = {}
  BY <1>1 DEF Indices, Stop, Stops
<1>2. CASE Stops # {}
  <2>1. Stops \subseteq Nat
    BY DEF Stops, Indices
  <2>2. Least(Stops) \in Stops /\ \A j \in Stops : Least(Stops) <= j
    BY <1>2, <2>1, LeastOf
  <2>3. Stop = Least(Stops)
    BY <1>2 DEF Stop
  <2>4. /\ Stop \in Nat /\ checked_idx <= Stop /\ Stop < read_idx
        /\ buf[Stop] \in {"CR", "LF"}
    BY <2>1, <2>2, <2>3 DEF Stops, Indices
  <2>5. ASSUME NEW i \in Nat, checked_idx <= i, i < Stop, buf[i] \in {"CR", "LF"}
        PROVE  FALSE
    <3>1. i \in Stops
      BY <2>4, <2>5 DEF Stops, Indices
    <3> QED
      BY <2>2, <2>3, <2>4, <2>5, <3>1
  <2> QED
    BY <2>4, <2>5 DEF Indices
<1> QED
  BY <1>1, <1>2

\* A line that is taken lies in what has been read, and brings the parser
\* forward.
LEMMA LineFacts ==
    ASSUME Indices, LineStatus = "ok"
    PROVE  /\ LineEnd \in Nat /\ LineEnd + 2 <= read_idx
           /\ checked_idx < LineEnd + 2
           /\ AtCRLF => LineEnd = Stop
           /\ ~AtCRLF => LineEnd = Stop - 1 /\ AtLF
           /\ Stop < read_idx
<1>1. ~HalfLine /\ (AtCRLF \/ AtLF)
  BY DEF LineStatus
<1>2. /\ Stop \in Nat /\ checked_idx <= Stop /\ Stop < read_idx
      /\ buf[Stop] = "CR" => Stop + 1 # read_idx
  BY <1>1, StopFacts DEF HalfLine, Indices
<1> QED
  BY <1>1, <1>2 DEF LineEnd, AtCRLF, AtLF, Indices

LEMMA GetLineFacts ==
    ASSUME Indices, GetLine
    PROVE  /\ checked_idx' \in Nat /\ checked_idx < checked_idx'
           /\ checked_idx' <= read_idx
           /\ start_line' = checked_idx' /\ text' = start_line
           /\ buf' \in [0 .. SIZE - 1 -> Bytes]
BY LineFacts, NumbersAssumption DEF GetLine, Indices, Bytes

-----------------------------------------------------------------------------
(* Types and indices.                                                      *)

\* Only http_conn knows bodies, and it never fills its buffer; an answer is
\* one; and what was read is part of the input.
PhaseInv ==
    /\ content_length # 0 \/ check_state = "content" => prog = "http_conn"
    /\ prog = "http_conn" => read_idx < SIZE
    /\ pc = "answered" => result # "NO_REQUEST"
    /\ base + read_idx <= Len(input)

TypeInv == TypeOK /\ PhaseInv

LEMMA InputType == ASSUME TypeOK
    PROVE /\ Len(input) \in Nat /\ \A i \in 1 .. Len(input) : input[i] \in Bytes
          /\ number \in Int /\ content_length \in Int
          /\ SIZE \in Nat \ {0} /\ prog \in {"parse_line", "http_conn"}
BY ProgramsAssumption, NumbersAssumption DEF TypeOK

LEMMA TypeInit == Init => TypeInv
<1>1. ASSUME Init PROVE input \in Seq(Bytes)
  <2>1. Seq(Bytes \ {"NUL"}) \subseteq Seq(Bytes)
    OBVIOUS
  <2> QED
    BY <1>1, <2>1, InputsAssumption DEF Init
<1>2. ASSUME Init PROVE TypeOK
  <2>1. EmptyBuf \in [0 .. SIZE - 1 -> Bytes]
    BY DEF EmptyBuf, Bytes
  <2>2. IndicesOrdered
    BY <1>2 DEF Init, IndicesOrdered
  <2>3. /\ read_idx \in 0 .. SIZE /\ checked_idx \in 0 .. SIZE /\ base \in Nat
        /\ start_line \in 0 .. SIZE /\ text \in 0 .. SIZE
    BY <1>2, NumbersAssumption DEF Init
  <2> QED
    BY <1>1, <1>2, <2>1, <2>2, <2>3, Zenon DEF Init, TypeOK
<1>3. ASSUME Init PROVE PhaseInv
  BY <1>1, <1>3, NumbersAssumption DEF Init, PhaseInv
<1> QED
  BY <1>2, <1>3 DEF TypeInv

LEMMA IndicesTyped == ASSUME TypeOK PROVE Indices
BY DEF TypeOK, IndicesOrdered, Indices

LEMMA ReceiveType ==
    ASSUME TypeInv, NEW n \in 1 .. Unread, n <= Room, Receive(n), StartParse,
           UNCHANGED <<client, fin, base>>, prog = "http_conn" => n < Room
    PROVE  TypeInv'
<1>1. /\ Len(input) \in Nat /\ base \in Nat /\ read_idx \in Nat
      /\ SIZE \in Nat \ {0}
      /\ n \in Nat /\ n <= Len(input) - base - read_idx /\ read_idx + n <= SIZE
      /\ read_idx' = read_idx + n
  BY InputType, IndicesTyped DEF TypeInv, Unread, Room, Receive, Indices
<1>2. buf' \in [0 .. SIZE - 1 -> Bytes]
  <2>1. ASSUME NEW i \in 0 .. SIZE - 1
        PROVE  (IF i \in read_idx .. read_idx + n - 1 THEN input[base + i + 1]
                ELSE buf[i]) \in Bytes
    <3>1. CASE i \in read_idx .. read_idx + n - 1
      <4>1. base + i + 1 \in 1 .. Len(input)
        BY <1>1, <3>1
      <4> QED
        BY <3>1, <4>1, InputType DEF TypeInv
    <3> QED
      BY <3>1 DEF TypeInv, TypeOK
  <2> QED
    BY <2>1 DEF Receive
<1>3. TypeOK'
  BY <1>1, <1>2 DEF TypeInv, TypeOK, IndicesOrdered, StartParse, client
<1>4. PhaseInv'
  BY <1>1 DEF TypeInv, PhaseInv, StartParse, client, Room
<1> QED
  BY <1>3, <1>4 DEF TypeInv

\* The null behind a body that has been read whole.
LEMMA BodyFits ==
    ASSUME NEW r \in Nat, NEW s \in Nat, NEW c \in Nat, NEW n \in Int,
           NEW z \in Nat, r < z, s <= c, r >= n + c
    PROVE  s + n < z
OBVIOUS

LEMMA TypeStep == TypeInv /\ [Next]_vars => TypeInv'
<1> SUFFICES ASSUME TypeInv, [Next]_vars PROVE TypeInv'
  OBVIOUS
<1>a. /\ TypeOK /\ PhaseInv /\ Indices
      /\ Len(input) \in Nat /\ number \in Int /\ content_length \in Int
      /\ SIZE \in Nat \ {0}
  BY IndicesTyped, InputType DEF TypeInv
<1>1. CASE Fin
  BY <1>1, <1>a DEF Fin, TypeInv, TypeOK, IndicesOrdered, PhaseInv, client, parsed
<1>2. ASSUME NEW n \in 1 .. Unread, RecvOnce(n) PROVE TypeInv'
  BY <1>2, ReceiveType DEF RecvOnce
<1>3. ASSUME NEW n \in 1 .. Unread, ReadAll(n) PROVE TypeInv'
  <2>1. n \in Nat /\ n < Room /\ Room \in Int
    BY <1>3, <1>a DEF ReadAll, MayParse, Room, Indices, Unread
  <2> QED
    BY <1>3, <2>1, ReceiveType DEF ReadAll
<1>4. CASE CloseUnread
  BY <1>4, <1>a DEF CloseUnread, TypeInv, TypeOK, IndicesOrdered, PhaseInv, client,
                    parsed
<1>5. CASE RequestLine
  <2>1. TypeOK'
    BY <1>5, <1>a, GetLineFacts
       DEF RequestLine, TypeOK, IndicesOrdered, client, Answer, GoOn, GetLine
  <2>2. PhaseInv'
    BY <1>5, <1>a DEF RequestLine, PhaseInv, client, Answer, GoOn, GetLine
  <2> QED
    BY <2>1, <2>2 DEF TypeInv
<1>6. CASE BlankLine
  <2>1. TypeOK'
    BY <1>6, <1>a, GetLineFacts
       DEF BlankLine, TypeOK, IndicesOrdered, client, Answer, GoOn, GetLine
  <2>2. PhaseInv'
    BY <1>6, <1>a DEF BlankLine, PhaseInv, client, Answer, GoOn, GetLine
  <2> QED
    BY <2>1, <2>2 DEF TypeInv
<1>7. CASE HeaderLine
  <2>1. TypeOK'
    BY <1>7, <1>a, GetLineFacts
       DEF HeaderLine, TypeOK, IndicesOrdered, client, GoOn, GetLine
  <2>2. PhaseInv'
    BY <1>7, <1>a DEF HeaderLine, PhaseInv, client, GoOn, GetLine
  <2> QED
    BY <2>1, <2>2 DEF TypeInv
<1>8. CASE Content
  <2>1. /\ Body /\ pc = "parse" /\ check_state = "content" /\ prog = "http_conn"
        /\ read_idx < SIZE /\ text' = start_line /\ checked_idx' = checked_idx
        /\ start_line' = checked_idx /\ start_line <= checked_idx
    BY <1>8, <1>a DEF Content, SkipsLine, PhaseInv, TypeOK, IndicesOrdered
  <2>2. TypeOK'
    BY <1>8, <1>a, <2>1
       DEF Content, Body, BodyRead, Answer, GoOn, TypeOK, IndicesOrdered, client,
           Indices
  <2>3. PhaseInv'
    BY <1>8, <1>a DEF Content, Body, Answer, GoOn, PhaseInv, client
  <2> QED
    BY <2>2, <2>3 DEF TypeInv
<1>9. CASE BodyLine
  <2>1. /\ Body /\ pc = "parse" /\ check_state = "content" /\ prog = "http_conn"
        /\ read_idx < SIZE /\ text' = start_line /\ checked_idx' \in Nat
        /\ start_line' = checked_idx' /\ start_line <= checked_idx'
        /\ checked_idx' <= read_idx /\ buf' \in [0 .. SIZE - 1 -> Bytes]
    BY <1>9, <1>a, GetLineFacts
       DEF BodyLine, PhaseInv, TypeOK, IndicesOrdered, GetLine, Indices
  <2>2. IndicesOrdered'
    <3>1. pc' = "answered" => read_idx >= content_length + checked_idx'
      BY <2>1 DEF Body, BodyRead, GoOn
    <3>2. read_idx' = read_idx /\ content_length' = content_length
      BY <1>9 DEF BodyLine
    <3>3. /\ read_idx \in Nat /\ start_line \in Nat /\ content_length \in Int
          /\ checked_idx' \in Nat /\ SIZE \in Nat /\ read_idx < SIZE
          /\ text' = start_line /\ start_line' = checked_idx'
          /\ start_line <= checked_idx' /\ checked_idx' <= read_idx
      BY <1>a, <2>1 DEF Indices
    <3>4. pc' = "answered" => text' + content_length' < SIZE
      <4>1. ASSUME pc' = "answered" PROVE text' + content_length' < SIZE
        <5>1. read_idx >= content_length + checked_idx'
          BY <3>1, <4>1
        <5>2. start_line + content_length < SIZE
          BY <3>3, <5>1, BodyFits
        <5> QED
          BY <5>2, <3>2, <3>3
      <4> QED
        BY <4>1
    <3> QED
      BY <3>2, <3>3, <3>4 DEF IndicesOrdered
  <2>3. TypeOK'
    BY <1>9, <1>a, <2>1, <2>2
       DEF BodyLine, Body, Answer, GoOn, TypeOK, client, Indices
  <2>4. PhaseInv'
    BY <1>9, <1>a DEF BodyLine, Body, Answer, GoOn, GetLine, PhaseInv, client
  <2> QED
    BY <2>3, <2>4 DEF TypeInv
<1>10. CASE LineOpen
  BY <1>10, <1>a, StopFacts
     DEF LineOpen, TypeInv, TypeOK, IndicesOrdered, PhaseInv, client, Indices
<1>11. CASE LineBad
  BY <1>11, <1>a, StopFacts
     DEF LineBad, TypeInv, TypeOK, IndicesOrdered, PhaseInv, client, Indices, Answer
<1>12. CASE ReplyKeep
  <2>1. TypeOK'
    <3>1. EmptyBuf \in [0 .. SIZE - 1 -> Bytes]
      BY DEF EmptyBuf, Bytes
    <3>2. base' \in Nat /\ 0 \in 0 .. SIZE
      BY <1>12, <1>a, NumbersAssumption DEF ReplyKeep, Indices
    <3>3. IndicesOrdered'
      BY <1>12 DEF ReplyKeep, Reset, IndicesOrdered
    <3> QED
      BY <1>12, <1>a, <3>1, <3>2, <3>3 DEF ReplyKeep, Reset, TypeOK, client
  <2>2. PhaseInv'
    BY <1>12, <1>a DEF ReplyKeep, Reset, PhaseInv, client, Indices
  <2> QED
    BY <2>1, <2>2 DEF TypeInv
<1>13. CASE ReplyClose
  BY <1>13, <1>a DEF ReplyClose, TypeInv, TypeOK, IndicesOrdered, PhaseInv, client,
                     parsed
<1>14. CASE UNCHANGED vars
  BY <1>14, <1>a DEF vars, TypeInv, TypeOK, IndicesOrdered, PhaseInv
<1> QED
  BY <1>1, <1>2, <1>3, <1>4, <1>5, <1>6, <1>7, <1>8, <1>9, <1>10, <1>11, <1>12,
     <1>13, <1>14 DEF Next, Server, Parse

LEMMA TypeInvariant == Spec => []TypeInv
BY TypeInit, TypeStep, PTL DEF Spec

\* Whatever number a client claims: the parser never looks behind what has
\* been read, nor at a part of it twice, and the null that it writes behind a
\* body never falls behind the buffer.  (It falls before it if the number is
\* negative enough: a behaviour ends there.)
THEOREM TypeCorrect == Spec => []TypeOK
BY TypeInvariant, PTL DEF TypeInv

-----------------------------------------------------------------------------
(* The verdict.  At(i) is the i-th byte since the last init().             *)

At(i) == input[base + i]

LEMMA GotFacts ==
    ASSUME TypeInv
    PROVE  /\ Got \in Seq(Bytes) /\ Len(Got) = read_idx /\ read_idx \in Nat
           /\ \A i \in 1 .. read_idx : Got[i] = At(i)
<1>1. /\ input \in Seq(Bytes) /\ base \in Nat /\ read_idx \in Nat
      /\ base + read_idx <= Len(input)
  BY IndicesTyped DEF TypeInv, TypeOK, Indices, PhaseInv
<1>2. Len(Got) = read_idx
  BY <1>1 DEF Got
<1> QED
  BY <1>1, <1>2 DEF Got, At

LEMMA LeastIs ==
    ASSUME NEW S, S \subseteq Nat, NEW m \in S, \A j \in S : m <= j
    PROVE  Least(S) = m
<1>1. Least(S) \in S /\ \A j \in S : Least(S) <= j
  BY LeastOf
<1>2. Least(S) \in Nat /\ m \in Nat /\ Least(S) <= m /\ m <= Least(S)
  BY <1>1
<1> QED
  BY <1>2

\* The bytes up to e are a request line and headers, all of their lines
\* complete and none of them empty.
HeadersTo(e) ==
    /\ e \in Nat /\ e >= 3
    /\ At(1) = "REQ" /\ At(2) = "CR" /\ At(3) = "LF"
    /\ At(e - 1) = "CR" /\ At(e) = "LF"
    /\ \A i \in 1 .. e : At(i) = "LF" => i > 1 /\ At(i - 1) = "CR"
    /\ \A i \in 1 .. e : At(i) = "CR" => i < e /\ At(i + 1) = "LF"
    /\ \A i \in 3 .. e : At(i) = "CR" => ~(At(i - 2) = "CR" /\ At(i - 1) = "LF")

\* The length of the body that they announce.
Announces(e) ==
    prog = "http_conn" /\ \E i \in 3 .. e : /\ At(i) = "LEN"
                                            /\ At(i - 2) = "CR" /\ At(i - 1) = "LF"
LengthIn(e) == IF Announces(e) THEN number ELSE 0

\* Behind the headers comes an empty line.
EndsAt(e) == HeadersTo(e) /\ At(e + 1) = "CR" /\ At(e + 2) = "LF"

LEMMA FirstAlone ==
    ASSUME NEW s \in Seq(Bytes), Len(s) >= 1
    PROVE  SubSeq(s, 1, 1) = <<s[1]>>
<1>1. SubSeq(s, 1, 1) \in Seq(Bytes) /\ Len(SubSeq(s, 1, 1)) = 1
  OBVIOUS
<1>2. SubSeq(s, 1, 1)[1] = s[1]
  OBVIOUS
<1>3. /\ <<s[1]>> \in Seq(Bytes) /\ Len(<<s[1]>>) = 1
      /\ <<s[1]>>[1] = s[1]
  OBVIOUS
<1>4. \A i \in 1 .. 1 : SubSeq(s, 1, 1)[i] = <<s[1]>>[i]
  BY <1>2, <1>3
<1> QED
  BY <1>1, <1>3, <1>4, SeqEqual

LEMMA RightFirstLine ==
    ASSUME TypeInv, NEW e \in Nat, HeadersTo(e), e <= read_idx
    PROVE  ~BadRequestLine(Got)
<1>1. /\ Got \in Seq(Bytes) /\ Len(Got) = read_idx /\ read_idx \in Nat
      /\ \A i \in 1 .. read_idx : Got[i] = At(i)
  BY GotFacts
<1>2. Least(Ends(Got)) = 2
  <2>1. 2 \in Ends(Got) /\ Ends(Got) \subseteq Nat
    BY <1>1 DEF Ends, HeadersTo
  <2>2. \A j \in Ends(Got) : 2 <= j
    BY <1>1 DEF Ends, HeadersTo
  <2> QED
    BY <2>1, <2>2, LeastIs
<1>3. SubSeq(Got, 1, 1) = <<"REQ">>
  <2>1. Got[1] = "REQ" /\ 1 <= Len(Got)
    BY <1>1 DEF HeadersTo
  <2> QED
    BY <1>1, <2>1, FirstAlone
<1> QED
  BY <1>2, <1>3 DEF BadRequestLine

LEMMA WholeHeaders ==
    ASSUME TypeInv, NEW e \in Nat, EndsAt(e), e + 2 <= read_idx
    PROVE  /\ HasHeaders(Got) /\ HeaderEnd(Got) = e + 2
           /\ ~BadRequestLine(Got) /\ BodyLength(Got) = LengthIn(e)
<1>1. /\ Got \in Seq(Bytes) /\ Len(Got) = read_idx /\ read_idx \in Nat
      /\ \A i \in 1 .. read_idx : Got[i] = At(i)
  BY GotFacts
<1>2. Ends(Got) \subseteq Nat /\ Blanks(Got) \subseteq Nat
  BY <1>1 DEF Ends, Blanks
<1>5. ~BadRequestLine(Got)
  BY <1>1, RightFirstLine DEF EndsAt
<1>6. e + 1 \in Blanks(Got)
  BY <1>1 DEF Blanks, Ends, EndsAt, HeadersTo
<1>7. \A j \in Blanks(Got) : e + 1 <= j
  <2> SUFFICES ASSUME NEW j \in Blanks(Got), j <= e PROVE FALSE
    BY <1>2
  <2>1. /\ j \in 3 .. e
        /\ Got[j] = "CR" /\ Got[j - 2] = "CR" /\ Got[j - 1] = "LF"
    BY <1>1 DEF Blanks, Ends
  <2>2. At(j) = "CR" /\ At(j - 2) = "CR" /\ At(j - 1) = "LF"
    BY <1>1, <2>1
  <2> QED
    BY <2>1, <2>2 DEF EndsAt, HeadersTo
<1>8. Least(Blanks(Got)) = e + 1
  BY <1>2, <1>6, <1>7, LeastIs
<1>9. CleanTo(Got, e + 1)
  <2> SUFFICES ASSUME NEW j \in 1 .. e + 1, j \in Strays(Got) PROVE FALSE
    BY <1>1 DEF CleanTo, Strays
  <2>1. Got[j] = At(j) /\ Got[j + 1] = At(j + 1) /\ (j > 1 => Got[j - 1] = At(j - 1))
    BY <1>1
  <2>2. CASE j = e + 1
    BY <1>1, <2>1, <2>2 DEF Strays, EndsAt
  <2>3. CASE j # e + 1
    BY <1>1, <2>1, <2>3 DEF Strays, EndsAt, HeadersTo
  <2> QED
    BY <2>2, <2>3
<1>10. BodyLength(Got) = LengthIn(e)
  <2>1. ASSUME NEW i \in 3 .. e + 2
        PROVE  /\ Got[i] = At(i) /\ Got[i - 2] = At(i - 2) /\ Got[i - 1] = At(i - 1)
               /\ At(i) = "LEN" => i \in 3 .. e
    BY <1>1 DEF EndsAt
  <2>2. (\E i \in 3 .. e + 2 :
             Got[i] = "LEN" /\ Got[i - 2] = "CR" /\ Got[i - 1] = "LF")
        <=> (\E i \in 3 .. e :
             At(i) = "LEN" /\ At(i - 2) = "CR" /\ At(i - 1) = "LF")
    BY <2>1
  <2> QED
    BY <1>8, <2>2 DEF BodyLength, LengthIn, Announces, HeaderEnd
<1> QED
  BY <1>5, <1>6, <1>8, <1>9, <1>10 DEF HasHeaders, HeaderEnd

\* The bytes from a + 1 to k are a line's, without its end.
Plain(a, k) == \A i \in a + 1 .. k : At(i) \notin {"CR", "LF"}

LEMMA BadFirstLine ==
    ASSUME TypeInv, NEW k \in Nat, k + 2 <= read_idx, Plain(0, k),
           At(k + 1) = "CR", At(k + 2) = "LF",
           ~(k = 1 /\ At(1) = "REQ")
    PROVE  Verdict(Got) = "BAD_REQUEST"
<1>1. /\ Got \in Seq(Bytes) /\ Len(Got) = read_idx /\ read_idx \in Nat
      /\ \A i \in 1 .. read_idx : Got[i] = At(i)
  BY GotFacts
<1>2. Least(Ends(Got)) = k + 1
  <2>1. Ends(Got) \subseteq Nat
    BY <1>1 DEF Ends
  <2>2. k + 1 \in Ends(Got)
    BY <1>1 DEF Ends
  <2>3. \A j \in Ends(Got) : k + 1 <= j
    BY <1>1 DEF Ends, Plain
  <2> QED
    BY <2>1, <2>2, <2>3, LeastIs
<1>3. Ends(Got) # {}
  <2>1. k + 1 \in Ends(Got)
    BY <1>1 DEF Ends
  <2> QED
    BY <2>1
<1>4. CleanTo(Got, k + 1)
  <2> SUFFICES ASSUME NEW j \in 1 .. k + 1, j \in Strays(Got) PROVE FALSE
    BY <1>1 DEF CleanTo, Strays
  <2>1. CASE j = k + 1
    BY <1>1, <2>1 DEF Strays
  <2>2. CASE j # k + 1
    BY <1>1, <2>2 DEF Strays, Plain
  <2> QED
    BY <2>1, <2>2
<1>5. SubSeq(Got, 1, k) # <<"REQ">>
  <2> SUFFICES ASSUME SubSeq(Got, 1, k) = <<"REQ">> PROVE FALSE
    OBVIOUS
  <2>1. Len(SubSeq(Got, 1, k)) = k
    BY <1>1
  <2>2. k = 1
    BY <2>1
  <2>3. <<Got[1]>> = <<"REQ">>
    BY <1>1, <2>2, FirstAlone
  <2>4. At(1) = "REQ"
    BY <1>1, <2>2, <2>3
  <2> QED
    BY <2>2, <2>4
<1> QED
  BY <1>2, <1>3, <1>4, <1>5 DEF Verdict, BadRequestLine, HasRequestLine

\* A carriage return or a line feed that is out of place, behind complete
\* lines or in the first one.
LEMMA BadLine ==
    ASSUME TypeInv, NEW a \in Nat, NEW k \in Nat, a <= k, k < read_idx,
           a = 0 \/ HeadersTo(a), Plain(a, k),
           \/ At(k + 1) = "CR" /\ k + 1 < read_idx /\ At(k + 2) # "LF"
           \/ At(k + 1) = "LF"
    PROVE  Verdict(Got) = "BAD_REQUEST"
<1>1. /\ Got \in Seq(Bytes) /\ Len(Got) = read_idx /\ read_idx \in Nat
      /\ \A i \in 1 .. read_idx : Got[i] = At(i)
  BY GotFacts
<1>2. k + 1 \in Strays(Got)
  <2>1. CASE At(k + 1) = "CR" /\ k + 1 < read_idx /\ At(k + 2) # "LF"
    BY <1>1, <2>1 DEF Strays
  <2>2. CASE At(k + 1) = "LF"
    <3>1. k > 0 => At(k) # "CR"
      <4>1. CASE a = k
        BY <4>1 DEF HeadersTo
      <4>2. CASE a # k
        <5>1. k \in a + 1 .. k
          BY <4>2
        <5> QED
          BY <5>1 DEF Plain
      <4> QED
        BY <4>1, <4>2
    <3> QED
      BY <1>1, <2>2, <3>1 DEF Strays
  <2> QED
    BY <2>1, <2>2
<1>3. ASSUME NEW i \in Blanks(Got) PROVE k + 1 <= i
  <2>1. /\ i \in 3 .. read_idx - 1 /\ At(i) = "CR"
        /\ At(i - 2) = "CR" /\ At(i - 1) = "LF"
    BY <1>1 DEF Blanks, Ends
  <2>2. ~(a < i /\ i <= k)
    BY <2>1 DEF Plain
  <2>3. ~(i <= a)
    BY <2>1 DEF HeadersTo
  <2> QED
    BY <2>1, <2>2, <2>3
<1>4. ~HasHeaders(Got)
  <2> SUFFICES ASSUME HasHeaders(Got) PROVE FALSE
    OBVIOUS
  <2>1. Blanks(Got) # {} /\ Blanks(Got) \subseteq Nat
    BY <1>1 DEF HasHeaders, Blanks, Ends
  <2>2. Least(Blanks(Got)) \in Blanks(Got) /\ Least(Blanks(Got)) \in Nat
    BY <2>1, LeastOf
  <2>3. k + 1 > Least(Blanks(Got))
    BY <1>2 DEF HasHeaders, CleanTo
  <2> QED
    BY <1>3, <2>2, <2>3
<1> QED
  BY <1>2, <1>4 DEF Verdict

-----------------------------------------------------------------------------
(* What the parser knows between two steps.                                *)

\* The rest of the buffer is what was read; what has been checked of the
\* line holds no end of one, and neither does the byte before it.
ScanInv ==
    /\ \A i \in start_line .. read_idx - 1 : buf[i] = At(i + 1)
    /\ \A i \in start_line .. checked_idx - 1 : buf[i] \notin {"CR", "LF"}
    /\ start_line > 0 => buf[start_line - 1] # "CR"

\* What the check state stands for.
StateInv ==
    /\ check_state = "requestline" => start_line = 0 /\ content_length = 0
    /\ check_state = "header"
           => HeadersTo(start_line) /\ content_length = LengthIn(start_line)
    /\ check_state = "content"
           => \E e \in Nat : /\ EndsAt(e) /\ e + 2 <= start_line
                             /\ content_length = LengthIn(e)

ParseInv ==
    /\ TypeInv /\ ScanInv
    /\ pc \in {"recv", "parse"} => StateInv
    /\ ResultSound

LEMMA SameBytes ==
    ASSUME UNCHANGED <<client, base>>
    PROVE  /\ \A i : At(i)' = At(i)
           /\ \A e : HeadersTo(e)' <=> HeadersTo(e)
           /\ \A e : EndsAt(e)' <=> EndsAt(e)
           /\ \A e : LengthIn(e)' = LengthIn(e)
<1>1. input' = input /\ base' = base /\ prog' = prog /\ number' = number
  BY DEF client
<1>2. \A i : At(i)' = At(i)
  BY <1>1 DEF At
<1>3. \A e : HeadersTo(e)' <=> HeadersTo(e)
  BY <1>2 DEF HeadersTo
<1> QED
  BY <1>1, <1>2, <1>3 DEF EndsAt, LengthIn, Announces

LEMMA SameVerdict ==
    ASSUME UNCHANGED <<client, base, read_idx>>
    PROVE  Verdict(Got)' = Verdict(Got)
BY DEF client, Verdict, Got, BodyLength

LEMMA SameState ==
    ASSUME StateInv,
           UNCHANGED <<client, base, start_line, check_state, content_length>>
    PROVE  StateInv'
BY SameBytes DEF StateInv

\* Between start_line and the place where the loop stops there is no end.
LEMMA PlainToStop ==
    ASSUME TypeInv, ScanInv
    PROVE  Plain(start_line, Stop)
<1>1. /\ Indices /\ start_line <= checked_idx /\ Stop \in Nat
      /\ start_line \in Nat /\ read_idx \in Nat /\ checked_idx \in Nat
      /\ checked_idx <= Stop /\ Stop <= read_idx
  BY IndicesTyped, StopFacts DEF TypeInv, TypeOK, IndicesOrdered, Indices
<1>2. \A i \in Nat : start_line <= i /\ i < Stop => buf[i] \notin {"CR", "LF"}
  BY <1>1, StopFacts DEF ScanInv
<1> SUFFICES ASSUME NEW i \in start_line + 1 .. Stop
             PROVE  At(i) \notin {"CR", "LF"}
  BY DEF Plain
<1>3. /\ i - 1 \in start_line .. read_idx - 1 /\ i - 1 \in Nat
      /\ start_line <= i - 1 /\ i - 1 < Stop /\ (i - 1) + 1 = i
  BY <1>1
<1>4. buf[i - 1] = At(i)
  BY <1>3 DEF ScanInv
<1> QED
  BY <1>2, <1>3, <1>4

\* A line that is taken ends with both of its bytes, and has been seen whole.
LEMMA NextLine ==
    ASSUME TypeInv, ScanInv, LineStatus = "ok"
    PROVE  /\ Stop \in Nat /\ start_line \in Nat /\ read_idx \in Nat
           /\ LineEnd = Stop /\ start_line <= Stop /\ Stop + 2 <= read_idx
           /\ checked_idx <= Stop
           /\ Plain(start_line, Stop)
           /\ At(Stop + 1) = "CR" /\ At(Stop + 2) = "LF"
<1>1. Indices /\ start_line <= checked_idx
  BY IndicesTyped DEF TypeInv, TypeOK, IndicesOrdered
<1>2. /\ Stop \in Nat /\ start_line \in Nat /\ read_idx \in Nat /\ checked_idx \in Nat
      /\ start_line <= checked_idx /\ checked_idx <= Stop
  BY <1>1, StopFacts DEF Indices
<1>3. \A i \in Nat : start_line <= i /\ i < Stop => buf[i] \notin {"CR", "LF"}
  BY <1>1, <1>2, StopFacts DEF ScanInv
<1>4. ~AtLF
  <2>1. CASE Stop = start_line
    BY <1>2, <2>1 DEF AtLF, ScanInv
  <2>2. CASE Stop # start_line
    <3>1. Stop - 1 \in Nat /\ start_line <= Stop - 1 /\ Stop - 1 < Stop
      BY <1>2, <2>2
    <3> QED
      BY <1>3, <3>1 DEF AtLF
  <2> QED
    BY <2>1, <2>2
<1>5. AtCRLF /\ LineEnd = Stop /\ Stop + 2 <= read_idx
  BY <1>1, <1>4, LineFacts
<1>6. Plain(start_line, Stop)
  BY PlainToStop
<1>7. At(Stop + 1) = "CR" /\ At(Stop + 2) = "LF"
  <2>1. /\ Stop \in start_line .. read_idx - 1
        /\ Stop + 1 \in start_line .. read_idx - 1 /\ (Stop + 1) + 1 = Stop + 2
    BY <1>2, <1>5
  <2>2. buf[Stop] = At(Stop + 1) /\ buf[Stop + 1] = At(Stop + 2)
    BY <2>1 DEF ScanInv
  <2> QED
    BY <1>5, <2>2 DEF AtCRLF
<1> QED
  BY <1>2, <1>5, <1>6, <1>7

\* The line as a sequence.
LEMMA LineText ==
    ASSUME TypeInv, ScanInv, LineStatus = "ok"
    PROVE  /\ Line = <<>> <=> Stop = start_line
           /\ Line # <<>> => Line[1] = At(start_line + 1)
           /\ Line = <<"REQ">> <=> Stop = start_line + 1 /\ At(start_line + 1) = "REQ"
<1>1. /\ Stop \in Nat /\ start_line \in Nat /\ read_idx \in Nat
      /\ LineEnd = Stop /\ start_line <= Stop /\ Stop + 2 <= read_idx
  BY NextLine
<1>2. Line = [i \in 1 .. Stop - start_line |-> buf[start_line + i - 1]]
  BY <1>1 DEF Line
<1>3. \A i \in 1 .. Stop - start_line : buf[start_line + i - 1] \in Bytes
  <2>1. Indices /\ SIZE \in Nat
    BY IndicesTyped, NumbersAssumption DEF TypeInv
  <2>2. \A i \in 1 .. Stop - start_line : start_line + i - 1 \in 0 .. SIZE - 1
    BY <1>1, <2>1 DEF Indices
  <2> QED
    BY <2>1, <2>2 DEF Indices
<1>4. Line \in Seq(Bytes) /\ Len(Line) = Stop - start_line
  <2>a. Stop - start_line \in Nat
    BY <1>1
  <2>1. Line \in [1 .. Stop - start_line -> Bytes]
    BY <1>2, <1>3
  <2>2. Line \in Seq(Bytes)
    BY <2>a, <2>1, SeqDef, Zenon
  <2>3. DOMAIN Line = 1 .. Len(Line) /\ Len(Line) \in Nat
    BY <2>2, LenProperties
  <2>4. DOMAIN Line = 1 .. Stop - start_line
    BY <2>1
  <2> QED
    BY <2>a, <2>2, <2>3, <2>4
<1>5. Stop # start_line => Line[1] = At(start_line + 1)
  <2> SUFFICES ASSUME Stop # start_line PROVE Line[1] = At(start_line + 1)
    OBVIOUS
  <2>1. start_line \in start_line .. read_idx - 1 /\ 1 \in 1 .. Stop - start_line
        /\ start_line + 1 - 1 = start_line
    BY <1>1
  <2>2. Line[1] = buf[start_line]
    BY <1>2, <2>1
  <2> QED
    BY <2>1, <2>2 DEF ScanInv
<1>6. Line = <<>> <=> Stop = start_line
  <2>1. ASSUME Line = <<>> PROVE Stop = start_line
    <3>1. Len(Line) = 0
      BY <2>1
    <3> QED
      BY <1>1, <1>4, <3>1
  <2>2. ASSUME Stop = start_line PROVE Line = <<>>
    <3>1. Len(Line) = 0
      BY <1>1, <1>4, <2>2
    <3> QED
      BY <1>4, <3>1, EmptySeq
  <2> QED
    BY <2>1, <2>2
<1>7. ASSUME Stop = start_line + 1, At(start_line + 1) = "REQ"
      PROVE  Line = <<"REQ">>
  <2>1. /\ Len(Line) = 1 /\ Line[1] = "REQ"
        /\ <<"REQ">> \in Seq(Bytes) /\ Len(<<"REQ">>) = 1
    BY <1>1, <1>4, <1>5, <1>7 DEF Bytes
  <2>2. \A i \in 1 .. 1 : Line[i] = <<"REQ">>[i]
    BY <2>1
  <2> QED
    BY <1>4, <2>1, <2>2, SeqEqual
<1>8. ASSUME Line = <<"REQ">> PROVE Stop = start_line + 1 /\ At(start_line + 1) = "REQ"
  <2>1. Len(Line) = 1 /\ Line[1] = "REQ"
    BY <1>8
  <2>2. Stop = start_line + 1
    <3>1. Stop - start_line = 1
      BY <1>4, <2>1
    <3> QED
      BY <1>1, <3>1
  <2>3. Stop # start_line
    BY <1>1, <2>2
  <2> QED
    BY <1>5, <2>1, <2>2, <2>3
<1> QED
  BY <1>5, <1>6, <1>7, <1>8

-----------------------------------------------------------------------------
(* The buffer while it is filled and scanned.                              *)

LEMMA ScanReceive ==
    ASSUME ParseInv, NEW n \in 1 .. Unread, n <= Room, Receive(n),
           UNCHANGED <<client, base, start_line, checked_idx>>
    PROVE  ScanInv'
<1>1. /\ base \in Nat /\ read_idx \in Nat /\ start_line \in Nat /\ checked_idx \in Nat
      /\ SIZE \in Nat /\ n \in Nat /\ read_idx' = read_idx + n
      /\ read_idx + n <= SIZE /\ start_line <= checked_idx
      /\ checked_idx <= read_idx
  BY IndicesTyped, InputType
     DEF ParseInv, TypeInv, TypeOK, IndicesOrdered, Room, Unread, Receive, Indices
<1>2. ASSUME NEW i \in 0 .. read_idx - 1 PROVE buf'[i] = buf[i]
  BY <1>1, <1>2 DEF Receive
<1>3. ASSUME NEW i \in read_idx .. read_idx + n - 1 PROVE buf'[i] = At(i + 1)
  <2>1. i \in 0 .. SIZE - 1 /\ base + i + 1 = base + (i + 1)
    BY <1>1
  <2> QED
    BY <2>1 DEF Receive, At
<1>4. \A i \in start_line .. read_idx' - 1 : buf'[i] = At(i + 1)
  <2> SUFFICES ASSUME NEW i \in start_line .. read_idx' - 1
               PROVE  buf'[i] = At(i + 1)
    OBVIOUS
  <2>1. CASE i < read_idx
    <3>1. i \in 0 .. read_idx - 1 /\ i \in start_line .. read_idx - 1
      BY <1>1, <2>1
    <3> QED
      BY <1>2, <3>1 DEF ParseInv, ScanInv
  <2>2. CASE i >= read_idx
    <3>1. i \in read_idx .. read_idx + n - 1
      BY <1>1, <2>2
    <3> QED
      BY <1>3, <3>1
  <2> QED
    BY <1>1, <2>1, <2>2
<1>5. \A i \in start_line .. checked_idx - 1 : buf'[i] \notin {"CR", "LF"}
  <2> SUFFICES ASSUME NEW i \in start_line .. checked_idx - 1
               PROVE  buf'[i] \notin {"CR", "LF"}
    OBVIOUS
  <2>1. i \in 0 .. read_idx - 1
    BY <1>1
  <2> QED
    BY <1>2, <2>1 DEF ParseInv, ScanInv
<1>6. start_line > 0 => buf'[start_line - 1] # "CR"
  <2> SUFFICES ASSUME start_line > 0 PROVE buf'[start_line - 1] # "CR"
    OBVIOUS
  <2>1. start_line - 1 \in 0 .. read_idx - 1
    BY <1>1
  <2> QED
    BY <1>2, <2>1 DEF ParseInv, ScanInv
<1> QED
  BY <1>4, <1>5, <1>6, SameBytes DEF ScanInv

LEMMA ScanGetLine ==
    ASSUME ParseInv, GetLine, UNCHANGED <<client, base, read_idx>>
    PROVE  ScanInv' /\ start_line' = Stop + 2 /\ checked_idx' = Stop + 2
<1>1. /\ Stop \in Nat /\ start_line \in Nat /\ read_idx \in Nat
      /\ LineEnd = Stop /\ start_line <= Stop /\ Stop + 2 <= read_idx
  BY NextLine DEF ParseInv, GetLine
<1>2. start_line' = Stop + 2 /\ checked_idx' = Stop + 2
      /\ buf' = [buf EXCEPT ![Stop] = "NUL", ![Stop + 1] = "NUL"]
  BY <1>1 DEF GetLine
<1>3. SIZE \in Nat /\ read_idx <= SIZE /\ DOMAIN buf = 0 .. SIZE - 1
  BY IndicesTyped, NumbersAssumption DEF ParseInv, TypeInv, Indices
<1>4. \A i \in Stop + 2 .. read_idx - 1 : buf'[i] = At(i + 1)
  <2> SUFFICES ASSUME NEW i \in Stop + 2 .. read_idx - 1 PROVE buf'[i] = At(i + 1)
    OBVIOUS
  <2>1. /\ i \in 0 .. SIZE - 1 /\ i # Stop /\ i # Stop + 1
        /\ i \in start_line .. read_idx - 1
    BY <1>1, <1>3
  <2> QED
    BY <1>2, <1>3, <2>1 DEF ParseInv, ScanInv
<1>5. buf'[Stop + 1] = "NUL"
  <2>1. Stop + 1 \in 0 .. SIZE - 1
    BY <1>1, <1>3
  <2> QED
    BY <1>2, <1>3, <2>1
<1>6. /\ \A i \in start_line' .. checked_idx' - 1 : buf'[i] \notin {"CR", "LF"}
      /\ start_line' - 1 = Stop + 1
  BY <1>1, <1>2
<1> QED
  BY <1>2, <1>4, <1>5, <1>6, SameBytes DEF ScanInv

\* The bytes that a scan passes over, without taking a line.
LEMMA ScanStops ==
    ASSUME ParseInv, checked_idx' = Stop,
           UNCHANGED <<client, base, read_idx, buf, start_line>>
    PROVE  ScanInv'
<1>1. /\ Indices /\ start_line <= checked_idx
      /\ start_line \in Nat /\ checked_idx \in Nat
  BY IndicesTyped DEF ParseInv, TypeInv, TypeOK, IndicesOrdered, Indices
<1>2. Stop \in Nat /\ checked_idx <= Stop
  BY <1>1, StopFacts
<1>3. \A i \in start_line .. Stop - 1 : buf[i] \notin {"CR", "LF"}
  <2> SUFFICES ASSUME NEW i \in start_line .. Stop - 1
               PROVE  buf[i] \notin {"CR", "LF"}
    OBVIOUS
  <2>1. CASE i < checked_idx
    BY <1>1, <2>1 DEF ParseInv, ScanInv
  <2>2. CASE checked_idx <= i
    <3>1. i \in Nat /\ i < Stop
      BY <1>1, <1>2
    <3> QED
      BY <1>1, <2>2, <3>1, StopFacts
  <2> QED
    BY <1>1, <2>1, <2>2
<1> QED
  BY <1>3, SameBytes DEF ParseInv, ScanInv

LEMMA ScanContent ==
    ASSUME ParseInv, start_line' = checked_idx,
           UNCHANGED <<client, base, read_idx, buf, checked_idx>>
    PROVE  ScanInv'
<1>1. /\ start_line \in Nat /\ checked_idx \in Nat /\ start_line <= checked_idx
  BY IndicesTyped DEF ParseInv, TypeInv, TypeOK, IndicesOrdered, Indices
<1>2. checked_idx > 0 => buf[checked_idx - 1] # "CR"
  <2>1. CASE start_line = checked_idx
    BY <2>1 DEF ParseInv, ScanInv
  <2>2. CASE start_line # checked_idx
    <3>1. checked_idx - 1 \in start_line .. checked_idx - 1
      BY <1>1, <2>2
    <3> QED
      BY <3>1 DEF ParseInv, ScanInv
  <2> QED
    BY <2>1, <2>2
<1>3. /\ \A i \in checked_idx .. read_idx - 1 : buf[i] = At(i + 1)
      /\ \A i \in checked_idx .. checked_idx - 1 : buf[i] \notin {"CR", "LF"}
  BY <1>1 DEF ParseInv, ScanInv
<1> QED
  BY <1>2, <1>3, SameBytes DEF ScanInv

LEMMA SameScan ==
    ASSUME ScanInv, UNCHANGED <<client, base, read_idx, buf, start_line, checked_idx>>
    PROVE  ScanInv'
BY SameBytes DEF ScanInv

-----------------------------------------------------------------------------
(* The headers grow by a line.                                             *)

LEMMA FirstLine ==
    ASSUME At(1) = "REQ", At(2) = "CR", At(3) = "LF"
    PROVE  HeadersTo(3) /\ LengthIn(3) = 0
BY DEF HeadersTo, LengthIn, Announces

LEMMA HeadersGrow ==
    ASSUME NEW e \in Nat, HeadersTo(e), NEW k \in Nat, e < k, Plain(e, k),
           At(k + 1) = "CR", At(k + 2) = "LF"
    PROVE  /\ HeadersTo(k + 2)
           /\ Announces(k + 2)
              <=> Announces(e) \/ (prog = "http_conn" /\ At(e + 1) = "LEN")
<1>1. \A i \in e + 1 .. k : At(i) \notin {"CR", "LF"}
  BY DEF Plain
<1>2. HeadersTo(k + 2)
  <2>1. ASSUME NEW i \in 1 .. k + 2, At(i) = "LF" PROVE i > 1 /\ At(i - 1) = "CR"
    <3>1. i <= e \/ i \in e + 1 .. k \/ i = k + 1 \/ i = k + 2
      OBVIOUS
    <3> QED
      BY <1>1, <2>1, <3>1 DEF HeadersTo
  <2>2. ASSUME NEW i \in 1 .. k + 2, At(i) = "CR" PROVE i < k + 2 /\ At(i + 1) = "LF"
    <3>1. i <= e \/ i \in e + 1 .. k \/ i = k + 1 \/ i = k + 2
      OBVIOUS
    <3> QED
      BY <1>1, <2>2, <3>1 DEF HeadersTo
  <2>3. ASSUME NEW i \in 3 .. k + 2, At(i) = "CR", At(i - 2) = "CR", At(i - 1) = "LF"
        PROVE  FALSE
    <3>1. i <= e \/ i \in e + 1 .. k \/ i = k + 1 \/ i = k + 2
      OBVIOUS
    <3>2. k \in e + 1 .. k
      OBVIOUS
    <3> QED
      BY <1>1, <2>3, <3>1, <3>2 DEF HeadersTo
  <2>4. k + 2 \in Nat /\ k + 2 >= 3 /\ (k + 2) - 1 = k + 1
    BY DEF HeadersTo
  <2> QED
    BY <2>1, <2>2, <2>3, <2>4 DEF HeadersTo
<1>3. ASSUME NEW i \in 3 .. k + 2, At(i) = "LEN", At(i - 2) = "CR", At(i - 1) = "LF"
      PROVE  i \in 3 .. e \/ i = e + 1
  <2>1. i <= e \/ i = e + 1 \/ i - 1 \in e + 1 .. k \/ i = k + 2
    OBVIOUS
  <2> QED
    BY <1>1, <1>3, <2>1
<1>4. ASSUME At(e + 1) = "LEN"
      PROVE  \E i \in 3 .. k + 2 : /\ At(i) = "LEN"
                                   /\ At(i - 2) = "CR" /\ At(i - 1) = "LF"
  <2>1. e + 1 \in 3 .. k + 2 /\ (e + 1) - 2 = e - 1 /\ (e + 1) - 1 = e
    BY DEF HeadersTo
  <2> QED
    BY <1>4, <2>1 DEF HeadersTo
<1>5. 3 .. e \subseteq 3 .. k + 2
  OBVIOUS
<1>6. ASSUME Announces(k + 2)
      PROVE  Announces(e) \/ (prog = "http_conn" /\ At(e + 1) = "LEN")
  <2>1. PICK i \in 3 .. k + 2 : At(i) = "LEN" /\ At(i - 2) = "CR" /\ At(i - 1) = "LF"
    BY <1>6 DEF Announces
  <2>2. i \in 3 .. e \/ i = e + 1
    BY <1>3, <2>1
  <2>a. prog = "http_conn"
    BY <1>6 DEF Announces
  <2>3. CASE i \in 3 .. e
    <3>1. Announces(e)
      BY <2>a, <2>1, <2>3, Zenon DEF Announces
    <3> QED
      BY <3>1
  <2>4. CASE i = e + 1
    BY <2>a, <2>1, <2>4
  <2> QED
    BY <2>2, <2>3, <2>4
<1>7. Announces(e) => Announces(k + 2)
  BY <1>5 DEF Announces
<1>8. prog = "http_conn" /\ At(e + 1) = "LEN" => Announces(k + 2)
  BY <1>4 DEF Announces
<1> QED
  BY <1>2, <1>6, <1>7, <1>8

-----------------------------------------------------------------------------
(* The answers.                                                            *)

LEMMA AnswerSound ==
    ASSUME UNCHANGED <<client, base, read_idx>>, result' = Verdict(Got)
    PROVE  ResultSound'
BY SameVerdict DEF ResultSound

LEMMA RequestLineStep == ParseInv /\ RequestLine => ParseInv'
<1> SUFFICES ASSUME ParseInv, RequestLine PROVE ParseInv'
  OBVIOUS
<1>1. /\ TypeInv /\ ScanInv /\ StateInv /\ check_state = "requestline"
      /\ GetLine /\ UNCHANGED <<client, base, read_idx, content_length>>
      /\ start_line = 0 /\ content_length = 0
  BY DEF ParseInv, RequestLine, GetLine, StateInv
<1>2. TypeInv'
  BY <1>1, TypeStep DEF Next, Server, Parse
<1>3. ScanInv' /\ start_line' = Stop + 2
  BY <1>1, ScanGetLine
<1>4. LineStatus = "ok"
  BY <1>1 DEF GetLine
<1>5. /\ Stop \in Nat /\ Stop + 2 <= read_idx /\ Plain(0, Stop)
      /\ At(Stop + 1) = "CR" /\ At(Stop + 2) = "LF"
      /\ Line = <<"REQ">> <=> Stop = 1 /\ At(1) = "REQ"
  <2>1. Line = <<"REQ">> <=> Stop = start_line + 1 /\ At(start_line + 1) = "REQ"
    BY <1>1, <1>4, LineText
  <2>2. start_line + 1 = 1
    BY <1>1
  <2> QED
    BY <1>1, <1>4, <2>1, <2>2, NextLine
<1>6. CASE Line = <<"REQ">>
  <2>1. check_state' = "header" /\ pc' = "parse"
    BY <1>1, <1>6 DEF RequestLine, GoOn, GetLine
  <2>2. start_line' = 3 /\ HeadersTo(3) /\ LengthIn(3) = 0
    BY <1>3, <1>5, <1>6, FirstLine
  <2>3. StateInv'
    BY <1>1, <2>1, <2>2, SameBytes DEF StateInv
  <2> QED
    BY <1>2, <1>3, <2>1, <2>3 DEF ParseInv, ResultSound
<1>7. CASE Line # <<"REQ">>
  <2>1. pc' = "answered" /\ result' = "BAD_REQUEST"
    BY <1>7 DEF RequestLine, Answer
  <2>2. Verdict(Got) = "BAD_REQUEST"
    BY <1>1, <1>5, <1>7, BadFirstLine
  <2>3. ResultSound'
    BY <1>1, <2>1, <2>2, AnswerSound
  <2> QED
    BY <1>2, <1>3, <2>1, <2>3 DEF ParseInv
<1> QED
  BY <1>6, <1>7

LEMMA BlankLineStep == ParseInv /\ BlankLine => ParseInv'
<1> SUFFICES ASSUME ParseInv, BlankLine PROVE ParseInv'
  OBVIOUS
<1>1. /\ TypeInv /\ ScanInv /\ check_state = "header"
      /\ GetLine /\ UNCHANGED <<client, base, read_idx, content_length>>
      /\ HeadersTo(start_line) /\ content_length = LengthIn(start_line)
      /\ Line = <<>>
  BY DEF ParseInv, BlankLine, GetLine, StateInv
<1>2. TypeInv'
  BY <1>1, TypeStep DEF Next, Server, Parse
<1>3. ScanInv' /\ start_line' = Stop + 2
  BY <1>1, ScanGetLine
<1>4. LineStatus = "ok"
  BY <1>1 DEF GetLine
<1>5. /\ start_line \in Nat /\ start_line + 2 <= read_idx /\ EndsAt(start_line)
      /\ start_line' = start_line + 2
  BY <1>1, <1>3, <1>4, NextLine, LineText DEF EndsAt
<1>6. CASE content_length # 0
  <2>1. check_state' = "content" /\ pc' = "parse"
    BY <1>1, <1>6 DEF BlankLine, GoOn, GetLine
  <2>2. StateInv'
    BY <1>1, <1>5, <2>1, SameBytes DEF StateInv
  <2> QED
    BY <1>2, <1>3, <2>1, <2>2 DEF ParseInv, ResultSound
<1>7. CASE content_length = 0
  <2>1. pc' = "answered" /\ result' = "GET_REQUEST"
    BY <1>7 DEF BlankLine, Answer
  <2>2. /\ HasHeaders(Got) /\ HeaderEnd(Got) = start_line + 2
        /\ ~BadRequestLine(Got) /\ BodyLength(Got) = 0
        /\ Len(Got) = read_idx
    BY <1>1, <1>5, <1>7, WholeHeaders, GotFacts
  <2>3. Verdict(Got) = "GET_REQUEST"
    BY <1>5, <2>2 DEF Verdict
  <2>4. ResultSound'
    BY <1>1, <2>1, <2>3, AnswerSound
  <2> QED
    BY <1>2, <1>3, <2>1, <2>4 DEF ParseInv
<1> QED
  BY <1>6, <1>7

LEMMA HeaderLineStep == ParseInv /\ HeaderLine => ParseInv'
<1> SUFFICES ASSUME ParseInv, HeaderLine PROVE ParseInv'
  OBVIOUS
<1>1. /\ TypeInv /\ ScanInv /\ check_state = "header"
      /\ GetLine /\ UNCHANGED <<client, base, read_idx, check_state>>
      /\ HeadersTo(start_line) /\ content_length = LengthIn(start_line)
      /\ Line # <<>> /\ pc = "parse" /\ pc' = pc
  BY DEF ParseInv, HeaderLine, GetLine, StateInv, GoOn
<1>2. TypeInv'
  BY <1>1, TypeStep DEF Next, Server, Parse
<1>3. ScanInv' /\ start_line' = Stop + 2
  BY <1>1, ScanGetLine
<1>4. LineStatus = "ok"
  BY <1>1 DEF GetLine
<1>5. /\ start_line \in Nat /\ Stop \in Nat /\ start_line < Stop
      /\ Plain(start_line, Stop) /\ At(Stop + 1) = "CR" /\ At(Stop + 2) = "LF"
      /\ Line[1] = At(start_line + 1)
  <2>1. Stop # start_line /\ Line[1] = At(start_line + 1)
    BY <1>1, <1>4, LineText
  <2> QED
    BY <1>1, <1>4, <2>1, NextLine
<1>6. /\ HeadersTo(Stop + 2)
      /\ Announces(Stop + 2)
         <=> \/ Announces(start_line)
             \/ prog = "http_conn" /\ At(start_line + 1) = "LEN"
  BY <1>1, <1>5, HeadersGrow
<1>7. content_length' = LengthIn(Stop + 2)
  <2>1. content_length' = IF prog = "http_conn" /\ Line[1] = "LEN" THEN number
                          ELSE content_length
    BY DEF HeaderLine
  <2>2. CASE prog = "http_conn" /\ At(start_line + 1) = "LEN"
    <3>1. content_length' = number
      BY <1>5, <2>1, <2>2
    <3> QED
      BY <1>6, <2>2, <3>1 DEF LengthIn
  <2>3. CASE ~(prog = "http_conn" /\ At(start_line + 1) = "LEN")
    <3>1. content_length' = LengthIn(start_line)
      BY <1>1, <1>5, <2>1, <2>3
    <3>2. Announces(Stop + 2) <=> Announces(start_line)
      BY <1>6, <2>3, Zenon
    <3> QED
      BY <3>1, <3>2, Zenon DEF LengthIn
  <2> QED
    BY <2>2, <2>3
<1>8. StateInv'
  BY <1>1, <1>3, <1>6, <1>7, SameBytes DEF StateInv
<1> QED
  BY <1>1, <1>2, <1>3, <1>8 DEF ParseInv, ResultSound

\* What follows parse_content, wherever it was called.
LEMMA BodyStep ==
    ASSUME ParseInv, TypeInv', ScanInv', pc = "parse", check_state = "content", Body,
           UNCHANGED <<client, base, read_idx, check_state, content_length>>,
           start_line' = checked_idx', start_line <= start_line'
    PROVE  ParseInv'
<1>1. PICK e \in Nat : /\ EndsAt(e) /\ e + 2 <= start_line
                       /\ content_length = LengthIn(e)
  BY DEF ParseInv, StateInv
<1>2. /\ TypeInv /\ start_line \in Nat /\ start_line' \in Nat /\ read_idx \in Nat
      /\ content_length \in Int /\ start_line <= read_idx
  BY IndicesTyped, InputType DEF ParseInv, TypeInv, TypeOK, IndicesOrdered, Indices
<1>3. CASE ~Wild /\ BodyRead
  <2>1. pc' = "answered" /\ result' = "GET_REQUEST"
    BY <1>3 DEF Body, Answer
  <2>2. e + 2 <= read_idx /\ read_idx >= (e + 2) + content_length
    BY <1>1, <1>2, <1>3 DEF BodyRead
  <2>3. /\ HasHeaders(Got) /\ HeaderEnd(Got) = e + 2
        /\ ~BadRequestLine(Got) /\ BodyLength(Got) = content_length
        /\ Len(Got) = read_idx
    BY <1>1, <1>2, <2>2, WholeHeaders, GotFacts
  <2>4. Verdict(Got) = "GET_REQUEST"
    <3>1. Len(Got) - HeaderEnd(Got) >= BodyLength(Got)
      BY <1>1, <1>2, <2>2, <2>3
    <3> QED
      BY <2>3, <3>1 DEF Verdict
  <2>5. ResultSound'
    BY <2>1, <2>4, AnswerSound
  <2> QED
    BY <2>1, <2>5 DEF ParseInv
<1>4. CASE ~Wild /\ ~BodyRead
  <2>1. pc' = "parse"
    BY <1>4 DEF Body, GoOn
  <2>2. e + 2 <= start_line'
    BY <1>1, <1>2
  <2>3. StateInv'
    BY <1>1, <2>2, SameBytes DEF StateInv
  <2> QED
    BY <2>1, <2>3 DEF ParseInv, ResultSound
<1>5. CASE Wild
  BY <1>5 DEF Body, ParseInv, ResultSound
<1> QED
  BY <1>3, <1>4, <1>5

\* What LineBad finds.
LEMMA BadBytes ==
    ASSUME TypeInv, ScanInv, LineStatus = "bad"
    PROVE  /\ Stop \in Nat /\ start_line \in Nat /\ start_line <= Stop
           /\ Stop < read_idx /\ read_idx \in Nat /\ Plain(start_line, Stop)
           /\ \/ At(Stop + 1) = "CR" /\ Stop + 1 < read_idx /\ At(Stop + 2) # "LF"
              \/ At(Stop + 1) = "LF"
<1>1. /\ Indices /\ start_line <= checked_idx /\ Stop \in Nat
      /\ start_line \in Nat /\ read_idx \in Nat /\ checked_idx \in Nat
      /\ checked_idx <= Stop /\ Stop <= read_idx
  BY IndicesTyped, StopFacts DEF TypeInv, TypeOK, IndicesOrdered, Indices
<1>2. ~HalfLine /\ ~AtCRLF
  BY DEF LineStatus
<1>3. Stop < read_idx /\ buf[Stop] \in {"CR", "LF"}
  BY <1>1, <1>2, StopFacts DEF HalfLine
<1>4. Stop \in start_line .. read_idx - 1 /\ buf[Stop] = At(Stop + 1)
  BY <1>1, <1>3 DEF ScanInv
<1>5. CASE buf[Stop] = "CR"
  <2>1. Stop + 1 < read_idx
    BY <1>1, <1>2, <1>3, <1>5 DEF HalfLine
  <2>2. Stop + 1 \in start_line .. read_idx - 1 /\ (Stop + 1) + 1 = Stop + 2
    BY <1>1, <2>1
  <2>3. buf[Stop + 1] = At(Stop + 2)
    BY <2>2 DEF ScanInv
  <2>4. At(Stop + 2) # "LF"
    BY <1>2, <1>5, <2>3 DEF AtCRLF
  <2> QED
    BY <1>1, <1>3, <1>4, <1>5, <2>1, <2>4, PlainToStop
<1> QED
  BY <1>1, <1>3, <1>4, <1>5, PlainToStop

LEMMA ParseStep == ParseInv /\ [Next]_vars => ParseInv'
<1> SUFFICES ASSUME ParseInv, [Next]_vars PROVE ParseInv'
  OBVIOUS
<1>a. TypeInv /\ ScanInv /\ TypeInv'
  BY TypeStep DEF ParseInv
<1>1. CASE Fin
  <2>1. UNCHANGED <<client, base, pc, buf, read_idx, parsed>>
    BY <1>1 DEF Fin
  <2> QED
    BY <1>a, <2>1, SameScan, SameState, SameVerdict DEF ParseInv, ResultSound, parsed
<1>2. ASSUME NEW n \in 1 .. Unread, RecvOnce(n) PROVE ParseInv'
  <2>1. ScanInv'
    BY <1>2, ScanReceive DEF RecvOnce, StartParse
  <2>2. StateInv' /\ pc' = "parse"
    BY <1>2, SameState DEF RecvOnce, StartParse, ParseInv
  <2> QED
    BY <1>a, <2>1, <2>2 DEF ParseInv, ResultSound
<1>3. ASSUME NEW n \in 1 .. Unread, ReadAll(n) PROVE ParseInv'
  <2>1. n <= Room
    BY <1>3, <1>a, InputType, IndicesTyped
       DEF ReadAll, MayParse, Room, Unread, Indices, TypeInv
  <2>2. ScanInv'
    BY <1>3, <2>1, ScanReceive DEF ReadAll, StartParse
  <2>3. StateInv' /\ pc' = "parse"
    BY <1>3, SameState DEF ReadAll, StartParse, ParseInv
  <2> QED
    BY <1>a, <2>2, <2>3 DEF ParseInv, ResultSound
<1>4. CASE CloseUnread
  <2>1. UNCHANGED <<client, base, buf, read_idx, parsed>> /\ pc' = "closed"
    BY <1>4 DEF CloseUnread
  <2> QED
    BY <1>a, <2>1, SameScan DEF ParseInv, ResultSound, parsed
<1>5. CASE RequestLine
  BY <1>5, RequestLineStep
<1>6. CASE BlankLine
  BY <1>6, BlankLineStep
<1>7. CASE HeaderLine
  BY <1>7, HeaderLineStep
<1>8. CASE Content
  <2>1. ScanInv'
    BY <1>8, ScanContent DEF Content
  <2>2. start_line <= start_line'
    BY <1>8, <1>a DEF Content, TypeInv, TypeOK, IndicesOrdered
  <2> QED
    BY <1>8, <1>a, <2>1, <2>2, BodyStep DEF Content, SkipsLine
<1>9. CASE BodyLine
  <2>1. ScanInv' /\ start_line' = Stop + 2 /\ checked_idx' = Stop + 2
    BY <1>9, ScanGetLine DEF BodyLine
  <2>2. Stop \in Nat /\ start_line \in Nat /\ start_line <= Stop
    BY <1>9, <1>a, NextLine DEF BodyLine, GetLine
  <2> QED
    BY <1>9, <1>a, <2>1, <2>2, BodyStep DEF BodyLine, GetLine
<1>10. CASE LineOpen
  <2>1. ScanInv'
    BY <1>10, ScanStops DEF LineOpen
  <2>2. StateInv' /\ pc' = "recv"
    BY <1>10, SameState DEF LineOpen, ParseInv
  <2> QED
    BY <1>a, <2>1, <2>2 DEF ParseInv, ResultSound
<1>11. CASE LineBad
  <2>1. ScanInv'
    BY <1>11, ScanStops DEF LineBad
  <2>2. StateInv /\ StateInv'
    BY <1>11, SameState DEF LineBad, ParseInv
  <2>3. CASE prog = "parse_line"
    <3>1. start_line = 0 \/ HeadersTo(start_line)
      BY <1>a, <2>2, <2>3 DEF TypeInv, PhaseInv, TypeOK, StateInv
    <3>2. LineStatus = "bad"
      BY <1>11 DEF LineBad
    <3>3. Verdict(Got) = "BAD_REQUEST"
      BY <1>a, <3>1, <3>2, BadBytes, BadLine
    <3>4. ResultSound' /\ pc' = "answered"
      BY <1>11, <2>3, <3>3, AnswerSound DEF LineBad, Answer
    <3> QED
      BY <1>a, <2>1, <3>4 DEF ParseInv
  <2>4. CASE prog # "parse_line"
    BY <1>11, <1>a, <2>1, <2>2, <2>4 DEF LineBad, ParseInv, ResultSound
  <2> QED
    BY <2>3, <2>4
<1>12. CASE ReplyKeep
  <2>1. /\ read_idx' = 0 /\ checked_idx' = 0 /\ start_line' = 0 /\ pc' = "recv"
        /\ check_state' = "requestline" /\ content_length' = 0
    BY <1>12 DEF ReplyKeep, Reset
  <2>2. ScanInv'
    BY <2>1 DEF ScanInv
  <2>3. StateInv'
    BY <2>1 DEF StateInv
  <2> QED
    BY <1>a, <2>1, <2>2, <2>3 DEF ParseInv, ResultSound
<1>13. CASE ReplyClose
  <2>1. UNCHANGED <<client, base, buf, read_idx, parsed>> /\ pc' = "closed"
    BY <1>13 DEF ReplyClose
  <2> QED
    BY <1>a, <2>1, SameScan DEF ParseInv, ResultSound, parsed
<1>14. CASE UNCHANGED vars
  <2>1. UNCHANGED <<client, base, pc, buf, read_idx, parsed>>
    BY <1>14 DEF vars, client, parsed
  <2> QED
    BY <1>a, <2>1, SameScan, SameState, SameVerdict DEF ParseInv, ResultSound, parsed
<1> QED
  BY <1>1, <1>2, <1>3, <1>4, <1>5, <1>6, <1>7, <1>8, <1>9, <1>10, <1>11, <1>12,
     <1>13, <1>14 DEF Next, Server, Parse

LEMMA ParseInit == Init => ParseInv
<1> SUFFICES ASSUME Init PROVE ParseInv
  OBVIOUS
<1>1. TypeInv
  BY TypeInit
<1>2. ScanInv /\ StateInv /\ ResultSound
  BY DEF Init, ScanInv, StateInv, ResultSound
<1> QED
  BY <1>1, <1>2 DEF ParseInv

LEMMA ParseInvariant == Spec => []ParseInv
BY ParseInit, ParseStep, PTL DEF Spec

\* However a request is cut into pieces, the answer is the one that its bytes
\* deserve as a whole.
THEOREM ResultIsSound == Spec => []ResultSound
BY ParseInvariant, PTL DEF ParseInv

-----------------------------------------------------------------------------
(* What has been read decides nothing while more is waited for.            *)

LEMMA OpenLine ==
    ASSUME TypeInv, NEW a \in Nat, NEW k \in Nat, a <= k, k <= read_idx,
           a = 0 \/ HeadersTo(a), Plain(a, k),
           k = read_idx \/ (k + 1 = read_idx /\ At(k + 1) = "CR")
    PROVE  Verdict(Got) = "NO_REQUEST"
<1>1. /\ Got \in Seq(Bytes) /\ Len(Got) = read_idx /\ read_idx \in Nat
      /\ \A i \in 1 .. read_idx : Got[i] = At(i)
  BY GotFacts
<1>2. \A i \in a + 1 .. k : Got[i] \notin {"CR", "LF"}
  BY <1>1 DEF Plain
<1>3. ASSUME NEW i \in 1 .. read_idx PROVE i <= a \/ i \in a + 1 .. k \/ i = read_idx
  BY <1>1
<1>4. a > 0 => HeadersTo(a)
  OBVIOUS
<1>5. \A i \in Blanks(Got) : FALSE
  <2> SUFFICES ASSUME NEW i \in Blanks(Got) PROVE FALSE
    OBVIOUS
  <2>1. /\ i \in 3 .. read_idx - 1 /\ Got[i] = "CR" /\ At(i) = "CR"
        /\ At(i - 2) = "CR" /\ At(i - 1) = "LF"
    BY <1>1 DEF Blanks, Ends
  <2>2. i <= a
    BY <1>1, <1>2, <1>3, <2>1
  <2> QED
    BY <1>4, <2>1, <2>2 DEF HeadersTo
<1>6. \A i \in Strays(Got) : FALSE
  <2> SUFFICES ASSUME NEW i \in Strays(Got) PROVE FALSE
    OBVIOUS
  <2>1. /\ i \in 1 .. read_idx
        /\ \/ At(i) = "LF" /\ (i > 1 => At(i - 1) # "CR")
           \/ At(i) = "CR" /\ i < read_idx /\ At(i + 1) # "LF"
    BY <1>1 DEF Strays
  <2>2. i <= a
    <3>1. ~(i \in a + 1 .. k)
      BY <2>1 DEF Plain
    <3>2. i = read_idx => i <= k
      BY <1>1, <2>1
    <3> QED
      BY <1>1, <1>3, <2>1, <3>1, <3>2
  <2> QED
    BY <1>4, <2>1, <2>2 DEF HeadersTo
<1>7. ~BadRequestLine(Got)
  <2>1. CASE a = 0
    <3>1. ASSUME NEW i \in Ends(Got) PROVE FALSE
      <4>1. i \in 1 .. read_idx - 1 /\ Got[i] = "CR"
        BY <1>1 DEF Ends
      <4> QED
        BY <1>1, <1>2, <1>3, <2>1, <4>1
    <3> QED
      BY <3>1 DEF BadRequestLine, HasRequestLine
  <2>2. CASE a # 0
    BY <1>1, <1>4, <2>2, RightFirstLine
  <2> QED
    BY <2>1, <2>2
<1> QED
  BY <1>5, <1>6, <1>7 DEF Verdict, HasHeaders

\* In the second round of a body, not all of it has come.
BodyOpen ==
    pc = "parse" /\ check_state = "content" /\ line_status # "ok"
        => read_idx < content_length + checked_idx

PromptInv == ParseInv /\ ResultPrompt /\ BodyOpen

\* A body that has been taken for lines is overlooked; any other is not whole.
LEMMA BodyWaits ==
    ASSUME PromptInv, pc = "parse", ~SkipsLine, check_state = "content",
           UNCHANGED <<client, base, read_idx, check_state>>, checked_idx' = Stop
    PROVE  Verdict(Got)' = "NO_REQUEST" \/ Overlooked'
<1>1. /\ TypeInv /\ StateInv /\ Indices /\ start_line <= checked_idx
      /\ start_line \in Nat /\ read_idx \in Nat /\ checked_idx \in Nat
      /\ Stop \in Nat /\ checked_idx <= Stop /\ Stop <= read_idx
      /\ content_length \in Int /\ prog = "http_conn"
  BY IndicesTyped, StopFacts, InputType
     DEF PromptInv, ParseInv, TypeInv, TypeOK, IndicesOrdered, Indices, PhaseInv
<1>2. PICK e \in Nat : /\ EndsAt(e) /\ e + 2 <= start_line
                       /\ content_length = LengthIn(e)
  BY <1>1 DEF StateInv
<1>3. /\ HasHeaders(Got) /\ HeaderEnd(Got) = e + 2
      /\ ~BadRequestLine(Got) /\ BodyLength(Got) = content_length
      /\ Len(Got) = read_idx
  BY <1>1, <1>2, WholeHeaders, GotFacts
<1>4. Got' = Got /\ prog' = prog
  BY DEF Got, client
<1>5. CASE Stop > e + 2
  <2>1. HeaderEnd(Got)' = e + 2
    BY <1>3, <1>4 DEF HeaderEnd
  <2> QED
    BY <1>1, <1>2, <1>5, <2>1, <1>4 DEF Overlooked, client
<1>6. CASE Stop <= e + 2
  <2>1. checked_idx = e + 2
    BY <1>1, <1>2, <1>6
  <2>2. read_idx < content_length + checked_idx
    BY DEF PromptInv, BodyOpen, SkipsLine
  <2>3. Verdict(Got) = "NO_REQUEST"
    BY <1>1, <1>3, <2>1, <2>2 DEF Verdict
  <2> QED
    BY <2>3, SameVerdict
<1> QED
  BY <1>1, <1>5, <1>6

LEMMA SamePrompt ==
    ASSUME ResultPrompt, BodyOpen,
           UNCHANGED <<client, base, pc, read_idx, checked_idx, check_state,
                       line_status, content_length>>
    PROVE  ResultPrompt' /\ BodyOpen'
<1>1. Verdict(Got)' = Verdict(Got) /\ Got' = Got /\ prog' = prog
  BY SameVerdict DEF Got, client
<1>2. HeaderEnd(Got)' = HeaderEnd(Got)
  BY <1>1 DEF HeaderEnd
<1>3. Overlooked' <=> Overlooked
  BY <1>1, <1>2 DEF Overlooked
<1> QED
  BY <1>1, <1>3 DEF ResultPrompt, BodyOpen

LEMMA EmptySub ==
    ASSUME NEW s \in Seq(Bytes), NEW b \in Nat, b + 0 <= Len(s)
    PROVE  SubSeq(s, b + 1, b + 0) \in Seq(Bytes) /\ Len(SubSeq(s, b + 1, b + 0)) = 0
<1>1. \A i \in b + 1 .. b + 0 : s[i] \in Bytes
  OBVIOUS
<1> QED
  BY <1>1, SubSeqProperties

LEMMA NothingYet ==
    ASSUME NEW s \in Seq(Bytes), Len(s) = 0
    PROVE  ~BadRequestLine(s) /\ ~HasHeaders(s) /\ Strays(s) = {}
<1>1. Ends(s) = {} /\ Strays(s) = {}
  BY DEF Ends, Strays
<1>2. Blanks(s) = {}
  BY <1>1 DEF Blanks
<1> QED
  BY <1>1, <1>2 DEF BadRequestLine, HasRequestLine, HasHeaders

LEMMA PromptStep == PromptInv /\ [Next]_vars => PromptInv'
<1> SUFFICES ASSUME PromptInv, [Next]_vars PROVE PromptInv'
  OBVIOUS
<1>a. /\ ParseInv /\ ParseInv' /\ TypeInv /\ ScanInv
      /\ content_length \in Int /\ checked_idx \in Nat /\ read_idx \in Nat
      /\ start_line \in Nat /\ Stop \in Nat /\ start_line <= Stop /\ Stop <= read_idx
  <2>1. ParseInv /\ ParseInv' /\ TypeInv /\ ScanInv
    BY ParseStep DEF PromptInv, ParseInv
  <2>2. /\ Indices /\ start_line <= checked_idx /\ content_length \in Int
        /\ Stop \in Nat /\ checked_idx <= Stop /\ Stop <= read_idx
    BY <2>1, InputType, IndicesTyped, StopFacts DEF TypeInv, TypeOK, IndicesOrdered
  <2> QED
    BY <2>1, <2>2 DEF Indices
<1> SUFFICES ResultPrompt' /\ BodyOpen'
  BY <1>a DEF PromptInv
<1>1. CASE Fin
  <2>1. UNCHANGED <<client, base, pc, read_idx, checked_idx, check_state,
                    line_status, content_length>>
    BY <1>1 DEF Fin, parsed
  <2> QED
    BY <2>1, SamePrompt DEF PromptInv
<1>2. ASSUME NEW n \in 1 .. Unread, RecvOnce(n) \/ ReadAll(n)
      PROVE  ResultPrompt' /\ BodyOpen'
  BY <1>2 DEF RecvOnce, ReadAll, StartParse, ResultPrompt, BodyOpen
<1>3. CASE CloseUnread
  BY <1>3 DEF CloseUnread, ResultPrompt, BodyOpen
<1>4. CASE RequestLine
  BY <1>4 DEF RequestLine, GetLine, Answer, GoOn, ResultPrompt, BodyOpen
<1>5. CASE BlankLine
  BY <1>5 DEF BlankLine, GetLine, Answer, GoOn, ResultPrompt, BodyOpen
<1>6. CASE HeaderLine
  BY <1>6 DEF HeaderLine, GetLine, GoOn, ResultPrompt, BodyOpen
<1>7. CASE Content
  BY <1>7, <1>a DEF Content, Body, BodyRead, Answer, GoOn, ResultPrompt, BodyOpen
<1>8. CASE BodyLine
  <2>1. checked_idx' = Stop + 2 /\ read_idx' = read_idx
        /\ content_length' = content_length /\ pc = "parse"
    BY <1>8, <1>a, ScanGetLine DEF BodyLine, GetLine
  <2> QED
    BY <1>8, <1>a, <2>1 DEF BodyLine, Body, BodyRead, Answer, GoOn, ResultPrompt, BodyOpen
<1>9. ASSUME LineOpen \/ LineBad PROVE ResultPrompt' /\ BodyOpen'
  <2>1. /\ pc = "parse" /\ ~SkipsLine /\ checked_idx' = Stop
        /\ UNCHANGED <<client, base, read_idx, check_state>>
    BY <1>9 DEF LineOpen, LineBad
  <2>2. pc' # "parse"
    BY <1>9 DEF LineOpen, LineBad, Answer
  <2>3. CASE check_state = "content"
    BY <2>1, <2>2, <2>3, BodyWaits DEF ResultPrompt, BodyOpen
  <2>4. CASE check_state # "content"
    <3>1. start_line = 0 \/ HeadersTo(start_line)
      BY <1>a, <2>1, <2>4 DEF ParseInv, TypeInv, TypeOK, StateInv
    <3>2. CASE LineOpen
      <4>1. LineStatus = "open"
        BY <3>2 DEF LineOpen
      <4>2. HalfLine
        BY <4>1 DEF LineStatus
      <4>3. Stop = read_idx \/ (Stop + 1 = read_idx /\ At(Stop + 1) = "CR")
        BY <1>a, <4>2 DEF HalfLine, ScanInv
      <4>4. Verdict(Got) = "NO_REQUEST"
        BY <1>a, <3>1, <4>3, PlainToStop, OpenLine
      <4> QED
        BY <2>1, <2>2, <4>4, SameVerdict DEF ResultPrompt, BodyOpen
    <3>3. CASE LineBad
      <4>1. LineStatus = "bad"
        BY <3>3 DEF LineBad
      <4>2. Verdict(Got) = "BAD_REQUEST"
        BY <1>a, <3>1, <4>1, BadBytes, BadLine
      <4>3. Verdict(Got)' = "BAD_REQUEST"
        BY <2>1, <4>2, SameVerdict
      <4>4. pc' = "recv" => prog' = "http_conn"
        BY <1>a, <3>3, InputType DEF LineBad, Answer, client, TypeInv
      <4> QED
        BY <2>2, <4>3, <4>4 DEF ResultPrompt, BodyOpen, Overlooked
    <3> QED
      BY <1>9, <3>2, <3>3
  <2> QED
    BY <2>3, <2>4
<1>10. CASE ReplyKeep
  <2>1. read_idx' = 0 /\ pc' = "recv"
    BY <1>10 DEF ReplyKeep, Reset
  <2>2. Got' \in Seq(Bytes) /\ Len(Got') = 0
    <3>1. input' \in Seq(Bytes) /\ base' \in Nat /\ base' + read_idx' <= Len(input')
      BY <1>a DEF ParseInv, TypeInv, TypeOK, PhaseInv
    <3>2. Got' = SubSeq(input', base' + 1, base' + 0)
      BY <2>1 DEF Got
    <3> QED
      BY <2>1, <3>1, <3>2, EmptySub
  <2>3. Verdict(Got)' = "NO_REQUEST"
    BY <2>2, NothingYet DEF Verdict
  <2> QED
    BY <2>1, <2>3 DEF ResultPrompt, BodyOpen
<1>11. CASE ReplyClose
  BY <1>11 DEF ReplyClose, ResultPrompt, BodyOpen
<1>12. CASE UNCHANGED vars
  <2>1. UNCHANGED <<client, base, pc, read_idx, checked_idx, check_state,
                    line_status, content_length>>
    BY <1>12 DEF vars, client
  <2> QED
    BY <2>1, SamePrompt DEF PromptInv
<1> QED
  BY <1>1, <1>2, <1>3, <1>4, <1>5, <1>6, <1>7, <1>8, <1>9, <1>10, <1>11, <1>12
     DEF Next, Server, Parse

LEMMA PromptInit == Init => PromptInv
<1> SUFFICES ASSUME Init PROVE PromptInv
  OBVIOUS
<1>1. ParseInv /\ TypeInv
  BY ParseInit DEF ParseInv
<1>2. Got \in Seq(Bytes) /\ Len(Got) = 0
  BY <1>1, GotFacts DEF Init
<1>3. Verdict(Got) = "NO_REQUEST"
  BY <1>2, NothingYet DEF Verdict
<1> QED
  BY <1>1, <1>3 DEF Init, PromptInv, ResultPrompt, BodyOpen

\* An answer comes as soon as the bytes that were read decide it, but for
\* malformed lines and bodies that http_conn overlooks.
THEOREM ResultIsPrompt == Spec => []ResultPrompt
<1>1. Spec => []PromptInv
  BY PromptInit, PromptStep, PTL DEF Spec
<1> QED
  BY <1>1, PTL DEF PromptInv

-----------------------------------------------------------------------------
(* The end of a parse.                                                     *)

LEMMA ParseMoves ==
    ASSUME TypeInv, [Next]_vars, pc = "parse", fin' = fin, pc' = "parse",
           ~UNCHANGED vars
    PROVE  Progress
<1>a. Indices
  BY IndicesTyped DEF TypeInv
<1>1. CASE GetLine
  BY <1>1, <1>a, GetLineFacts DEF Progress
<1>2. CASE Content
  BY <1>2 DEF Content, Body, Answer, GoOn, Progress, SkipsLine
<1>3. Parse
  BY DEF Next, Server, Fin, RecvOnce, ReadAll, CloseUnread, ReplyKeep, ReplyClose
<1> QED
  BY <1>1, <1>2, <1>3
     DEF Parse, RequestLine, BlankLine, HeaderLine, BodyLine, LineOpen, LineBad, Answer

\* A parse comes to an end: no round of its loop leaves both what is left to
\* check and the kind of the next round as they were.
THEOREM ParseEnds == Spec => ParseReturns
<1>1. TypeInv /\ [Next]_vars
          => [pc = "parse" /\ fin' = fin => pc' # "parse" \/ Progress]_vars
  BY ParseMoves
<1> QED
  BY <1>1, TypeInvariant, PTL DEF Spec, ParseReturns
=============================================================================
