---------------------------- MODULE HttpMessages ----------------------------
(***************************************************************************)
(* The parsers of utility.hpp: Percent, QueryString, HttpHeader,           *)
(* RequestMessage, ResponseMessage and ContentDisposition.  A character is *)
(* its ASCII code, a text a sequence of them, a stream the sequence of its *)
(* lines as getline gives them, each still with its carriage return.  A    *)
(* multimap is a set of fields <<position, name, value>>: the position in  *)
(* the input keeps equal fields apart.                                     *)
(***************************************************************************)
EXTENDS Naturals, Sequences, SequencesExt, FiniteSetsExt

CONSTANTS
    Values,         \* texts that are encoded
    Queries,        \* query strings
    FieldLists,     \* lists of fields <<name, value>>, of a query or a header
    RequestLines,   \* first lines of requests
    Targets,        \* <<path, query>> of requests
    Dispositions    \* lists of fields of a Content-Disposition line

Space == 32   Quote == 34   PercentSign == 37   Ampersand == 38   Plus == 43   Slash == 47
Colon == 58   Semicolon == 59   Equals == 61   QuestionMark == 63   Return == 13
HTTP  == <<72, 84, 84, 80>>

Places(t, c)  == {i \in DOMAIN t : t[i] = c}
FirstOf(s)    == CHOOSE i \in s : \A j \in s : i <= j
LastOf(s)     == CHOOSE i \in s : \A j \in s : i >= j
From(t, i)    == SubSeq(t, i, Len(t))
Until(t, i)   == SubSeq(t, 1, i - 1)

-----------------------------------------------------------------------------
tolower(c) == IF c \in 65 .. 90 THEN c + 32 ELSE c

case_insensitive_equal(s, t) ==
    Len(s) = Len(t) /\ \A i \in DOMAIN s : tolower(s[i]) = tolower(t[i])

\* What find() may return for a name: any of the fields that have it.
Found(header, name) == {f[3] : f \in {g \in header : case_insensitive_equal(g[2], name)}}

-----------------------------------------------------------------------------
Hex(n)        == IF n < 10 THEN 48 + n ELSE 55 + n
Reserved      == {33, 35, 36, Equals, QuestionMark, 64, 91, 93} \cup (38 .. 44) \cup (47 .. 59)
HexDigit(c)   == CASE c \in 48 .. 57 -> c - 48 [] c \in 65 .. 70 -> c - 55
                   [] c \in 97 .. 102 -> c - 87 [] OTHER -> 16

EncodeChar(c) == IF c = Space THEN <<Plus>>
                 ELSE IF c \in Reserved THEN <<PercentSign, Hex(c \div 16), Hex(c % 16)>>
                 ELSE <<c>>

Encode(value) == FlattenSeq([i \in DOMAIN value |-> EncodeChar(value[i])])

\* strtol of two characters in base 16, as a char.
strtol(a, b) ==
    CASE HexDigit(a) < 16 /\ HexDigit(b) < 16 -> 16 * HexDigit(a) + HexDigit(b)
      [] HexDigit(a) < 16 /\ HexDigit(b) = 16 -> HexDigit(a)
      [] a \in {Space, Plus} /\ HexDigit(b) < 16 -> HexDigit(b)
      [] a = 45 /\ HexDigit(b) < 16 -> (256 - HexDigit(b)) % 256
      [] OTHER -> 0

\* The loop: skip counts the characters an escape has taken with it.
Decode(value) ==
    FoldLeftDomain(LAMBDA r, i :
        IF r.skip > 0 THEN [r EXCEPT !.skip = @ - 1]
        ELSE IF value[i] = PercentSign /\ i + 2 <= Len(value)
             THEN [skip |-> 2, out |-> Append(r.out, strtol(value[i + 1], value[i + 2]))]
             ELSE [r EXCEPT !.out = Append(@, IF value[i] = Plus THEN Space ELSE value[i])],
        [skip |-> 0, out |-> << >>], value).out

-----------------------------------------------------------------------------
QueryCreate(fields) ==
    FlattenSeq([i \in DOMAIN fields |->
        (IF i > 1 THEN <<Ampersand>> ELSE << >>) \o fields[i][1] \o <<Equals>> \o Encode(fields[i][2])])

\* The field that ends before position end.
QueryField(q, r, end) ==
    LET name == SubSeq(q, r.name, (IF r.name_end = 0 THEN end ELSE r.name_end) - 1)
    IN  IF name = << >> THEN {}
        ELSE {<<r.name, name, IF r.value = 0 THEN << >> ELSE Decode(SubSeq(q, r.value, end - 1))>>}

QueryChar(q, r, i) ==
    CASE q[i] = Ampersand ->
           [name |-> i + 1, name_end |-> 0, value |-> 0, out |-> r.out \cup QueryField(q, r, i)]
      [] q[i] = Equals -> [r EXCEPT !.name_end = i, !.value = i + 1]
      [] OTHER -> r

QueryParse(q) ==
    LET end == FoldLeftDomain(LAMBDA r, i : QueryChar(q, r, i),
                              [name |-> 1, name_end |-> 0, value |-> 0, out |-> {}], q)
    IN  end.out \cup QueryField(q, end, Len(q) + 1)

-----------------------------------------------------------------------------
\* A header line's field: one space after the colon, and the carriage return,
\* are left out.
HeaderField(line, i) ==
    LET colon == FirstOf(Places(line, Colon))
        start == IF colon < Len(line) /\ line[colon + 1] = Space THEN colon + 2 ELSE colon + 1
    IN  IF start > Len(line) THEN {}
        ELSE {<<i, Until(line, colon), SubSeq(line, start, Len(line) - 1)>>}

\* The header ends with the first line that has no colon; what follows it is
\* left in the stream.
HeaderParse(stream) ==
    LET without == {i \in DOMAIN stream : Places(stream[i], Colon) = {}}
        end     == IF without = {} THEN Len(stream) + 1 ELSE FirstOf(without)
    IN  [header |-> UNION {HeaderField(stream[i], i) : i \in 1 .. end - 1},
         left   |-> From(stream, end + 1)]

Refused == [ok |-> FALSE]

\* The last question mark of the target counts.
QueryStart(line, marks) == LastOf(marks) + 1

Protocol(line, end, slash) == SubSeq(line, end + 1, slash - 1) = HTTP

RequestParse(stream) ==
    LET line   == stream[1]
        spaces == Places(line, Space)
        method == FirstOf(spaces)
        end    == FirstOf(spaces \ {method})
        marks  == Places(line, QuestionMark) \cap (method + 1 .. end - 1)
        slash  == FirstOf(Places(line, Slash) \cap (end + 1 .. Len(line)))
    IN  IF Cardinality(spaces) < 2 THEN Refused
        ELSE IF Places(line, Slash) \cap (end + 1 .. Len(line)) = {} THEN Refused
        ELSE IF ~ Protocol(line, end, slash) THEN Refused
        ELSE [ok      |-> TRUE,
              method  |-> Until(line, method),
              path    |-> SubSeq(line, method + 1,
                                 IF marks = {} THEN end - 1 ELSE LastOf(marks) - 1),
              query   |-> IF marks = {} THEN << >>
                          ELSE SubSeq(line, QueryStart(line, marks), end - 1),
              version |-> SubSeq(line, slash + 1, Len(line) - 1),
              fields  |-> HeaderParse(Tail(stream))]

StatusCode(line, space) == SubSeq(line, space + 1, Len(line) - 1)

ResponseParse(stream) ==
    LET line  == stream[1]
        space == FirstOf(Places(line, Space))
    IN  IF Places(line, Space) = {} \/ Len(line) <= 5 \/ space >= Len(line) THEN Refused
        ELSE [ok      |-> TRUE,
              version |-> IF space <= 5 THEN From(line, 6) ELSE SubSeq(line, 6, space - 1),
              status  |-> StatusCode(line, space),
              fields  |-> HeaderParse(Tail(stream))]

-----------------------------------------------------------------------------
\* The parameter of a Content-Disposition that starts at r.start.
Parameter(line, r, end, value) == <<r.start, SubSeq(line, r.start, end - 1), value>>

Between == [start |-> 0, equals |-> 0, value |-> 0]

\* Mutant: a semicolon ends a quoted value.
DispositionChar_Unquoted(line, r, i) ==
    IF r.at.start = 0
    THEN IF line[i] \in {Space, Semicolon} THEN r ELSE [r EXCEPT !.at.start = i]
    ELSE IF line[i] = Semicolon
    THEN [at |-> Between, out |-> r.out \cup {Parameter(line, r.at, i, << >>)}]
    ELSE IF r.at.equals = 0 THEN IF line[i] = Equals THEN [r EXCEPT !.at.equals = i] ELSE r
    ELSE IF line[i] # Quote THEN r
    ELSE IF r.at.value = 0 THEN IF i < Len(line) THEN [r EXCEPT !.at.value = i + 1] ELSE r
    ELSE [at |-> Between, out |-> r.out \cup
            {Parameter(line, r.at, r.at.equals, SubSeq(line, r.at.value, i - 1))}]

DispositionChar(line, r, i) ==
    IF r.at.start = 0
    THEN IF line[i] \in {Space, Semicolon} THEN r ELSE [r EXCEPT !.at.start = i]
    ELSE IF r.at.equals = 0
    THEN CASE line[i] = Semicolon ->
                [at |-> Between, out |-> r.out \cup {Parameter(line, r.at, i, << >>)}]
           [] line[i] = Equals -> [r EXCEPT !.at.equals = i]
           [] OTHER -> r
    ELSE IF line[i] # Quote THEN r
    ELSE IF r.at.value = 0 THEN IF i < Len(line) THEN [r EXCEPT !.at.value = i + 1] ELSE r
    ELSE [at |-> Between, out |-> r.out \cup
            {Parameter(line, r.at, r.at.equals, SubSeq(line, r.at.value, i - 1))}]

\* A parameter starts with the line.
DispositionParse(line) ==
    LET end == FoldLeftDomain(LAMBDA r, i : DispositionChar(line, r, i),
                              [at |-> [Between EXCEPT !.start = 1], out |-> {}], line)
    IN  end.out \cup (IF end.at.start > 0 /\ end.at.equals = 0
                      THEN {Parameter(line, end.at, Len(line) + 1, << >>)} ELSE {})

-----------------------------------------------------------------------------
\* What is written: Client<HTTP>'s request, the server's response, a
\* Content-Disposition line.

FieldLine(f) == f[1] \o <<Colon, Space>> \o f[2] \o <<Return>>
Body == <<<<97, Colon, 97>>>>   \* content that looks like a field
Message(line, fields) ==
    <<line \o <<Return>>>> \o [i \in DOMAIN fields |-> FieldLine(fields[i])] \o <<<<Return>>>> \o Body

GET     == <<71, 69, 84>>
Version == <<49, 46, 49>>
OK      == <<50, 48, 48, Space, 79, 75>>

create_request_header(path, fields) ==
    Message(GET \o <<Space>> \o (IF path = << >> THEN <<Slash>> ELSE path) \o <<Space>> \o HTTP
                \o <<Slash>> \o Version, fields)
write_response(status, fields) ==
    Message(HTTP \o <<Slash>> \o Version \o <<Space>> \o status, fields)

DispositionLine(fields) ==
    FlattenSeq([i \in DOMAIN fields |->
        (IF i > 1 THEN <<Semicolon, Space>> ELSE << >>) \o fields[i][1] \o
        (IF i > 1 THEN <<Equals, Quote>> \o fields[i][2] \o <<Quote>> ELSE << >>)])

Path(target) == target[1] \o (IF target[2] = << >> THEN << >> ELSE <<QuestionMark>> \o target[2])

VARIABLES
    kind,     \* what is parsed
    input,    \* what it was made of
    parsed    \* what the parser gives, << >> before

vars == <<kind, input, parsed>>

Init ==
    /\ \/ kind = "value" /\ input \in Values
       \/ kind = "query" /\ input \in Queries
       \/ kind \in {"fields", "response"} /\ input \in FieldLists
       \/ kind = "line" /\ input \in RequestLines
       \/ kind = "request" /\ input \in Targets \X FieldLists
       \/ kind = "disposition" /\ input \in Dispositions
    /\ parsed = << >>

Parse(k, result) == kind = k /\ parsed = << >> /\ parsed' = <<result>> /\ UNCHANGED <<kind, input>>

Next ==
    \/ Parse("value", Decode(Encode(input)))
    \/ Parse("query", QueryParse(input))
    \/ Parse("fields", QueryParse(QueryCreate(input)))
    \/ Parse("response", ResponseParse(write_response(OK, input)))
    \/ Parse("line", RequestParse(<<input>>))
    \/ Parse("request", RequestParse(create_request_header(Path(input[1]), input[2])))
    \/ Parse("disposition", DispositionParse(DispositionLine(input)))

Spec == Init /\ [][Next]_vars

-----------------------------------------------------------------------------
Done(k) == kind = k /\ parsed # << >>

\* The fields of a multimap are those of a list, in its order.
Same(fields, list) ==
    /\ Cardinality(fields) = Len(list)
    /\ \A f \in fields : LET i == Cardinality({g \in fields : g[1] <= f[1]})
                         IN  f[2] = list[i][1] /\ f[3] = list[i][2]

\* A percent sign that decode takes for the start of an escape.
Ambiguous(value) ==
    \E i \in Places(value, PercentSign) : Len(Encode(From(value, i + 1))) >= 2

\* What was encoded is decoded, as long as it has no percent sign that encode
\* leaves as it is and decode does not.
PlainValueSurvives == Done("value") /\ ~ Ambiguous(input) => parsed[1] = input

\* The loop over a query string finds what lies between the ampersands: a
\* name up to the last equals sign, and a value after it.
QueryAsSegments ==
    LET starts     == {i \in 1 .. Len(input) : i = 1 \/ input[i - 1] = Ampersand}
        Segment(i) == SubSeq(input, i, FirstOf({j \in i .. Len(input) + 1 :
                                  j = Len(input) + 1 \/ input[j] = Ampersand}) - 1)
        Field(i)   == LET s == Segment(i)
                      IN  IF Places(s, Equals) = {} THEN <<i, s, << >>>>
                          ELSE <<i, Until(s, LastOf(Places(s, Equals))),
                                 Decode(From(s, LastOf(Places(s, Equals)) + 1))>>
    IN  Done("query") => parsed[1] = {f \in {Field(i) : i \in starts} : f[2] # << >>}

\* Fields that make a query string are found in it again.
FieldsSurvive ==
    Done("fields") /\ (\A i \in DOMAIN input : ~ Ambiguous(input[i][2])) => Same(parsed[1], input)

\* What the client writes the server reads: method, path, query, version,
\* fields, whatever the values have in them, and the content behind them; a
\* query with a question mark in it is the exception.
RequestSurvives ==
    LET target == input[1]
        r      == parsed[1]
    IN  Done("request") /\ Places(target[2], QuestionMark) = {} =>
            /\ r.ok /\ r.method = GET /\ r.version = Version
            /\ r.path = (IF Path(target) = << >> THEN <<Slash>> ELSE target[1])
            /\ r.query = target[2]
            /\ Same(r.fields.header, input[2]) /\ r.fields.left = Body

\* What the server writes the client reads; a field is found under its name
\* in any case.
ResponseSurvives ==
    LET r == parsed[1]
    IN  Done("response") =>
            /\ r.ok /\ r.version = Version /\ r.status = OK
            /\ Same(r.fields.header, input) /\ r.fields.left = Body
            /\ \A i \in DOMAIN input :
                 input[i][2] \in Found(r.fields.header, [k \in DOMAIN input[i][1] |-> tolower(input[i][1][k])])

\* A request line that is accepted has nothing the parts do not have.
AcceptedLineIsKept ==
    Done("line") /\ parsed[1].ok /\ Last(input) = Return =>
        LET Line(mark) == parsed[1].method \o <<Space>> \o parsed[1].path \o mark \o parsed[1].query
                          \o <<Space>> \o HTTP \o <<Slash>> \o parsed[1].version \o <<Return>>
        IN  input \in {Line(<< >>), Line(<<QuestionMark>>)}

\* A parameter's name and its quoted value, whatever is between the quotes.
DispositionSurvives == Done("disposition") => Same(parsed[1], input)

=============================================================================
