------------------------------- MODULE MCFormats -------------------------------
(***************************************************************************)
(* The ways in which the programs turn what they hold into characters,     *)
(* bytes or rows and back: HttpMessages, MachineMessages, ResponseReading  *)
(* and ObjectStatements.  A behaviour is about one of them and leaves the  *)
(* variables of the others as they were.                                   *)
(***************************************************************************)
EXTENDS StatementsRefinement, Integers

VARIABLES
    kind, input, parsed,                                   \* the parsers
    framing, sizes, cut, taken, again, streambuf,          \* a response that is read
    chunked_streambuf, tmp_streambuf, reading, length, misplaced, result

parsers    == <<kind, input, parsed>>
response   == <<framing, sizes, cut, taken, again, streambuf, chunked_streambuf, tmp_streambuf,
                reading, length, misplaced, result>>

-----------------------------------------------------------------------------
(* Short texts over the characters that the parsers tell apart. *)

Space == 32   Percent == 37   Ampersand == 38   Plus == 43   Slash == 47   Colon == 58
Semicolon == 59   Equals == 61   QuestionMark == 63   Return == 13
HTTP == <<72, 84, 84, 80>>
A == 65
a == 97

Strings(chars, n) == UNION {[1 .. k -> chars] : k \in 0 .. n}

EncodedTexts == Strings({A, 52, Percent, Ampersand, Plus, Space}, 4)
QueryTexts   == Strings({a, Equals, Ampersand}, 6)

Fields(values)     == {<<a>>, <<A, a>>} \X values
ShortFields        == Fields(Strings({a, Space, Colon, Percent, Ampersand, Equals}, 2))
OneOrTwo(fields)   == {<< >>} \cup {<<f>> : f \in fields} \cup (fields \X fields)
HeaderLists        == OneOrTwo(Fields({<< >>, <<a>>, <<Space, Colon>>, <<Colon, a, Ampersand>>, <<A, Space>>}))
                      \cup {<<f>> : f \in ShortFields}

\* Lines of up to six pieces, "HTTP" being one, with and without a line's return.
Lines == {FlattenSeq(t) \o end :
             t \in Strings({<<a>>, <<Space>>, <<QuestionMark>>, <<Slash>>, HTTP}, 6), end \in {<< >>, <<Return>>}}
         \ {<< >>}

PathsAndQueries == Strings({Slash, a}, 2) \X Strings({a, Equals, QuestionMark}, 2)

\* The first parameter has no value; it may have no name, or one with a space.
Flags  == {<<a, 45>>, <<Space, a>>, << >>} \X {<< >>}
Quoted == {<<a>>, <<A, a>>} \X Strings({a, Semicolon, Equals, Space}, 2)
DispositionLists == {<<f>> : f \in Flags} \cup (Flags \X Quoted) \cup (Flags \X Quoted \X Quoted)

Parsers == INSTANCE HttpMessages WITH
    Values <- EncodedTexts, Queries <- QueryTexts, FieldLists <- HeaderLists,
    RequestLines <- Lines, Targets <- PathsAndQueries, Dispositions <- DispositionLists

\* Names and values that are written are found again when they are read: in a
\* query string, a request, a response and a Content-Disposition line.
TextsSurvive ==
    /\ Parsers!PlainValueSurvives /\ Parsers!QueryAsSegments /\ Parsers!FieldsSurvive
    /\ Parsers!RequestSurvives /\ Parsers!ResponseSurvives /\ Parsers!AcceptedLineIsKept
    /\ Parsers!DispositionSurvives

-----------------------------------------------------------------------------
(* Numbers at the boundaries of a varint's bytes and of an int32, floats   *)
(* that are zero, minus zero and not a number, names that are and are not  *)
(* UTF-8.                                                                  *)

Zero      == <<0, 0, 0, 0>>
MinusZero == <<0, 0, 0, 128>>

Ints   == {0, 127, 128, 2147483647, -1, -2147483647 - 1}
Floats == {Zero, MinusZero, <<0, 0, 192, 127>>, <<0, 0, 128, 63>>}
Names  == {<< >>, <<65>>, <<195, 169, 10>>, <<195>>, <<65, 255>>}

No == << >>
Maybe(set) == {<< >>} \cup {<<m>> : m \in set}

Memories(ints) == [mem_total : ints, mem_available : ints, mem_free : ints]
CPUs           == [idle_time : Floats, use_time : Floats]
Processes      == [total : {0, 300}, running : {0, -1}, blocked : {0, 1}]
SystemInfos    == [system_ip : Names, system_name : Names]
Times          == [seconds : {0, 1500000000}, nanos : {0, 999999999}]

Machines(times, memories, cpus, processes, infos) ==
    [last_updated : times, memory : memories, cpu : cpus, process : processes, systeminfo : infos]

OneOfEach == Machines(Maybe({[seconds |-> 1500000000, nanos |-> 0]}),
                      Maybe({[mem_total |-> 128, mem_available |-> 0, mem_free |-> -1]}),
                      Maybe({[idle_time |-> <<0, 0, 128, 63>>, use_time |-> MinusZero]}),
                      Maybe({[total |-> 300, running |-> 0, blocked |-> 1]}),
                      Maybe({[system_ip |-> << >>, system_name |-> <<195, 169>>]}))

OneKind == Machines({No}, Maybe(Memories(Ints)), {No}, {No}, {No})
           \cup Machines({No}, {No}, Maybe(CPUs), Maybe(Processes), {No})
           \cup Machines(Maybe(Times), {No}, {No}, {No}, Maybe(SystemInfos))

Reports(machines) == {[machine |-> m] : m \in Maybe(machines)}

SentReports == Reports(OneKind \cup OneOfEach)
Later == Reports(Machines({No}, Maybe({[mem_total |-> t, mem_available |-> 0, mem_free |-> 1] : t \in {0, -1}}),
                         Maybe({[idle_time |-> Zero, use_time |-> <<0, 0, 128, 63>>]}), {No},
                         {No, <<[system_ip |-> <<65>>, system_name |-> << >>]>>}))

\* Up to five bytes: a Machine, a Timestamp or a Memory or a SystemInfo in it,
\* lengths, tags that are not known, and numbers that do not end.
ShortNoise == UNION {[1 .. k -> {0, 2, 8, 10, 50, 74, 128}] : k \in 0 .. 5}

Report == INSTANCE MachineMessages WITH
    Messages <- SentReports, Others <- Later, Noise <- ShortNoise, got <- parsed

\* A report is read as it was written, and nothing is read into bytes that are
\* cut off, that follow others, or that no agent has written.
ReportSurvives ==
    /\ Report!RoundTrip /\ Report!SizeIsExact /\ Report!ConcatenationMerges
    /\ Report!CutIsPart /\ Report!AcceptedIsStable

-----------------------------------------------------------------------------
(* Responses of up to three chunks, some too large for the stream buffer. *)

Bodies == {<< >>, <<1>>, <<2>>, <<1, 1>>, <<1, 2>>, <<2, 2>>, <<1, 2, 1>>, <<3, 1, 2>>, <<2, 3, 2>>}

Response == INSTANCE ResponseReading WITH
    Framings <- {"length", "chunked", "old", "close"}, Contents <- Bodies,
    max_response_streambuf_size <- 7

\* The content of a response that is taken for whole is the whole content, and
\* one that has come whole is taken for it, where no bytes were misplaced.
ContentIsWhole ==
    Response!ContentIsWhole /\ Response!WholeIsAccepted /\ Response!NothingLeft

-----------------------------------------------------------------------------
(* Two objects whose texts are of different lengths and whose numbers all  *)
(* differ, so that a text that does not fit, a stale buffer or an          *)
(* exchanged column shows.                                                 *)

Info(key, ip, name, n) ==
    [client_key |-> key,
     memory |-> [mem_total |-> n + 1, mem_available |-> n + 2, mem_free |-> n + 3],
     cpu |-> [idle_time |-> n + 4, use_time |-> n + 5],
     process |-> [total |-> n + 6, running |-> n + 7, blocked |-> n + 8],
     system_info |-> [system_ip |-> ip, system_name |-> name], time_stamp |-> n + 9]

Short == Info(<<1>>, << >>, <<3>>, 10)
Long  == Info(<<1, 2>>, <<4, 5>>, <<6, 7, 8>>, 20)

TwoObjects == {Short, Long}
OneKey     == {<<1>>}

-----------------------------------------------------------------------------
NoResponse ==
    /\ framing = "none" /\ sizes = << >> /\ cut = 0 /\ taken = 0 /\ again = FALSE
    /\ streambuf = << >> /\ chunked_streambuf = << >> /\ tmp_streambuf = << >>
    /\ reading = "over" /\ length = 0 /\ misplaced = FALSE /\ result = "none"

Init ==
    \/ (Parsers!Init \/ Report!Init) /\ NoResponse /\ StatementsInit
    \/ kind = "content" /\ input = << >> /\ parsed = << >> /\ Response!Init /\ StatementsInit
    \/ kind = "statements" /\ input = << >> /\ parsed = << >> /\ NoResponse /\ StatementsInit

Next ==
    \/ (Parsers!Next \/ Report!Next) /\ UNCHANGED <<response, statementVars>>
    \/ kind = "content" /\ Response!Next /\ UNCHANGED <<parsers, statementVars>>
    \/ kind = "statements" /\ StatementsNext /\ UNCHANGED <<parsers, response>>

Spec == Init /\ [][Next]_<<parsers, response, statementVars>>

=============================================================================
