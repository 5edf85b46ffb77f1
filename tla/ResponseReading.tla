--------------------------- MODULE ResponseReading ---------------------------
(***************************************************************************)
(* How ClientBase::read and read_chunked (client_http.hpp) put a response  *)
(* together from what the socket gives: async_read_until may take more     *)
(* than it was asked for, which stays in the stream buffer it was given.   *)
(* A response is a sequence of tokens, and the size of a stream buffer the *)
(* number of tokens in it; a token is a piece whose cut the code would see *)
(* no differently.                                                         *)
(***************************************************************************)
EXTENDS Naturals, Sequences, SequencesExt

CONSTANTS
    Framings,      \* how responses are framed: "length", "chunked", "old" (HTTP/1.0,
                   \* ended by the connection) or "close" (the same in HTTP/1.1)
    Contents,      \* of the responses, as the sizes of their chunks
    max_response_streambuf_size

Limit == max_response_streambuf_size

Token(is, n) == [is |-> is, n |-> n]
Status     == Token("status", 0)
Blank      == Token("blank", 0)     \* the header's fields, and the empty line
Crlf       == Token("crlf", 0)
Data(i, n) == [k \in 1 .. n |-> Token("data", i + k)]

\* The tokens of the chunks, or of the content, from the i-th token on.
Chunks(sizes, i) == <<Token("size", Head(sizes))>> \o Data(i, Head(sizes)) \o <<Crlf>>
Total(sizes)     == FoldLeft(LAMBDA s, n : s + n, 0, sizes)
Chunked(sizes)   ==
    FoldLeft(LAMBDA s, k : s \o Chunks(<<sizes[k]>>, Total(SubSeq(sizes, 1, k - 1))),
             << >>, [k \in DOMAIN sizes |-> k]) \o <<Token("size", 0), Crlf>>

VARIABLES
    framing, sizes,   \* of the response
    cut,              \* how much of it the server sends before it fails or closes
    taken,            \* how much of it has been read from the socket
    again,            \* the connection is the second one
    streambuf,        \* response->streambuf
    chunked_streambuf, tmp_streambuf,
    reading,          \* what is read: "header", "content", "line", "chunk", or "over"
    length,           \* of the chunk, after its line
    misplaced,        \* bytes were dropped with a stream buffer, or kept over a reconnection
    result            \* of the callback: "none", "ok", "error", "protocol_error",
                      \* "message_size", or "aborted" by a timer

response == <<framing, sizes, cut>>
vars == <<response, taken, again, streambuf, chunked_streambuf, tmp_streambuf, reading, length,
          misplaced, result>>

Stream == <<Status, Blank>> \o
          (IF framing = "chunked" THEN Chunked(sizes) ELSE Data(0, Total(sizes)))

\* Where a server may fail.
Cuts == 0 .. Len(Stream)

\* The connection ends after what the server sends.
Closed == cut < Len(Stream) \/ framing \in {"old", "close"}

Init ==
    /\ framing \in Framings /\ sizes \in Contents
    /\ cut \in Cuts
    /\ taken = 0 /\ again = FALSE
    /\ streambuf = << >> /\ chunked_streambuf = << >> /\ tmp_streambuf = << >>
    /\ reading = "header" /\ length = 0 /\ misplaced = FALSE /\ result = "none"

-----------------------------------------------------------------------------
\* asio's reads into a stream buffer.

Positions(b, delimiters) == {i \in DOMAIN b : b[i].is \in delimiters}
Through(b, delimiters)   == CHOOSE i \in Positions(b, delimiters) :
                                \A j \in Positions(b, delimiters) : i <= j

\* async_read_until: b becomes after, with a delimiter ("found"), without one
\* but full ("not_found"), or with all there is ("eof").
ReadUntil(b, max, delimiters, after, outcome) ==
    \/ /\ outcome = "found" /\ Positions(b, delimiters) # {}
       /\ after = b /\ UNCHANGED taken
    \/ /\ Positions(b, delimiters) = {}
       /\ \E j \in taken .. cut :
            /\ after = b \o SubSeq(Stream, taken + 1, j) /\ Len(after) <= max
            /\ taken' = j
            /\ \/ outcome = "found" /\ Positions(after, delimiters) # {}
               \/ /\ outcome = "not_found" /\ Positions(after, delimiters) = {}
                  /\ Len(after) = max
               \/ /\ outcome = "eof" /\ Positions(after, delimiters) = {}
                  /\ Len(after) < max /\ j = cut /\ Closed

\* async_read of n tokens, or of all there are: "ok" also when b gets full.
ReadExactly(b, max, n, after, outcome) ==
    \E j \in taken .. cut :
        /\ after = b \o SubSeq(Stream, taken + 1, j) /\ Len(after) <= max
        /\ taken' = j
        /\ \/ outcome = "ok" /\ (j = taken + n \/ (j < taken + n /\ Len(after) = max))
           \/ outcome = "eof" /\ j < taken + n /\ Len(after) < max /\ j = cut /\ Closed

Everything == Len(Stream) + 1

\* The stream buffers a read may leave behind: b and some of what comes.
Afters(b) == {b \o SubSeq(Stream, taken + 1, j) : j \in taken .. cut}

-----------------------------------------------------------------------------
Callback(how) == reading' = "over" /\ result' = how

\* The header has been parsed and left streambuf.  The framing of a header
\* with the start of another one before it is not found.
Parsed(b) == IF b[1] = Status /\ b[2] = Blank THEN framing
             ELSE IF framing = "old" THEN "old" ELSE "close"
Rest(b)   == SubSeq(b, Through(b, {"blank"}) + 1, Len(b))

\* Mutant: what was read after the header is not moved.
read_chunked_Afresh(b, tmp) ==
    IF Len(tmp) >= Limit
    THEN Callback("message_size") /\ streambuf' = b /\ UNCHANGED chunked_streambuf
    ELSE /\ chunked_streambuf' = << >> /\ streambuf' = << >>
         /\ reading' = "line" /\ UNCHANGED result

\* read_chunked: a new chunked_streambuf gets what is in streambuf.
read_chunked(b, tmp) ==
    IF Len(tmp) >= Limit
    THEN Callback("message_size") /\ streambuf' = b /\ UNCHANGED chunked_streambuf
    ELSE /\ chunked_streambuf' = b /\ streambuf' = << >>
         /\ reading' = "line" /\ UNCHANGED result

HeaderRead ==
    /\ reading = "header"
    /\ \E b \in Afters(streambuf) :
         /\ ReadUntil(streambuf, Limit, {"blank"}, b, "found")
         /\ IF Len(b) = Limit
            THEN Callback("message_size") /\ streambuf' = b /\ UNCHANGED chunked_streambuf
            ELSE CASE Parsed(b) = "length" ->
                       /\ IF Total(sizes) > Len(Rest(b)) THEN reading' = "content" /\ UNCHANGED result
                          ELSE Callback("ok")
                       /\ streambuf' = Rest(b) /\ UNCHANGED chunked_streambuf
                   [] Parsed(b) = "chunked" -> read_chunked(Rest(b), << >>)
                   [] Parsed(b) = "old" ->
                       /\ reading' = "content" /\ streambuf' = Rest(b)
                       /\ UNCHANGED <<result, chunked_streambuf>>
                   [] OTHER ->
                       /\ Callback("ok") /\ streambuf' = Rest(b) /\ UNCHANGED chunked_streambuf
    /\ UNCHANGED <<response, again, tmp_streambuf, length, misplaced>>

HeaderTooLarge ==
    /\ reading = "header"
    /\ \E b \in Afters(streambuf) :
         ReadUntil(streambuf, Limit, {"blank"}, b, "not_found") /\ streambuf' = b
    /\ Callback("message_size")
    /\ UNCHANGED <<response, again, chunked_streambuf, tmp_streambuf, length, misplaced>>

\* The second connection ends first.
HeaderFails ==
    /\ reading = "header"
    /\ \E b \in Afters(streambuf) :
         /\ ReadUntil(streambuf, Limit, {"blank"}, b, "eof") /\ streambuf' = b
    /\ again /\ Callback("error")
    /\ UNCHANGED <<response, again, chunked_streambuf, tmp_streambuf, length, misplaced>>

\* The first one ends first: what has come of its header stays in streambuf.
Reconnect ==
    /\ reading = "header" /\ ~ again /\ Closed /\ cut < 2
    /\ again' = TRUE /\ taken' = 0
    /\ streambuf' = streambuf \o SubSeq(Stream, taken + 1, cut)
    /\ cut' \in Cuts
    /\ misplaced' = (streambuf' # << >>)
    /\ UNCHANGED <<framing, sizes, chunked_streambuf, tmp_streambuf, reading, length, result>>

Missing == IF framing = "length" THEN Total(sizes) - Len(streambuf) ELSE Everything

\* The rest of the content, or what comes until the connection ends.
ContentRead ==
    /\ reading = "content"
    /\ \E b \in Afters(streambuf), outcome \in {"ok", "eof"} :
         /\ ReadExactly(streambuf, Limit, Missing, b, outcome)
         /\ streambuf' = b
         /\ Callback(IF outcome = "eof" THEN IF framing = "old" THEN "ok" ELSE "error"
                     ELSE IF Len(b) = Limit THEN "message_size" ELSE "ok")
    /\ UNCHANGED <<response, again, chunked_streambuf, tmp_streambuf, length, misplaced>>

-----------------------------------------------------------------------------
ChunkLimit == Limit - Len(tmp_streambuf)

\* The end of a line is read; a line that is not a size is a protocol_error.
LineRead ==
    /\ reading = "line"
    /\ \E b \in Afters(chunked_streambuf), outcome \in {"found", "not_found", "eof"} :
         /\ ReadUntil(chunked_streambuf, ChunkLimit, {"size", "crlf"}, b, outcome)
         /\ CASE outcome = "eof" ->
                   Callback("error") /\ chunked_streambuf' = b /\ UNCHANGED length
              [] outcome # "eof" /\ Len(b) = ChunkLimit ->
                   Callback("message_size") /\ chunked_streambuf' = b /\ UNCHANGED length
              [] OTHER ->
                   LET end == Through(b, {"size", "crlf"})
                   IN  /\ chunked_streambuf' = SubSeq(b, end + 1, Len(b))
                       /\ IF end = 1 /\ b[1].is = "size"
                          THEN reading' = "chunk" /\ length' = b[1].n /\ UNCHANGED result
                          ELSE Callback("protocol_error") /\ UNCHANGED length
    /\ UNCHANGED <<response, again, streambuf, tmp_streambuf, misplaced>>

\* A chunk's data and the line end after it.
ChunkEnd == length + 1

\* post_process: the data goes to tmp_streambuf, which the last chunk copies
\* to streambuf; the chunked_streambuf is left behind.
post_process(b) ==
    LET tmp == tmp_streambuf \o SubSeq(b, 1, length)
    IN  /\ tmp_streambuf' = tmp
        /\ misplaced' = (misplaced \/ Len(b) > ChunkEnd)
        /\ IF length > 0 THEN read_chunked(streambuf, tmp)
           ELSE /\ streambuf' = streambuf \o tmp /\ chunked_streambuf' = << >>
                /\ Callback("ok")

ChunkRead ==
    /\ reading = "chunk"
    /\ IF ChunkEnd > Len(chunked_streambuf)
       THEN \E b \in Afters(chunked_streambuf), outcome \in {"ok", "eof"} :
              /\ ReadExactly(chunked_streambuf, ChunkLimit, ChunkEnd - Len(chunked_streambuf), b,
                             outcome)
              /\ IF outcome = "ok" /\ Len(b) < ChunkLimit THEN post_process(b)
                 ELSE /\ Callback(IF outcome = "eof" THEN "error" ELSE "message_size")
                      /\ chunked_streambuf' = b /\ UNCHANGED <<streambuf, tmp_streambuf, misplaced>>
       ELSE post_process(chunked_streambuf) /\ UNCHANGED taken
    /\ UNCHANGED <<response, again, length>>

\* The connection's timer.
Timeout ==
    /\ reading # "over"
    /\ Callback("aborted")
    /\ UNCHANGED <<response, taken, again, streambuf, chunked_streambuf, tmp_streambuf, length,
                   misplaced>>

Read == HeaderRead \/ HeaderTooLarge \/ HeaderFails \/ Reconnect \/ ContentRead \/ LineRead \/ ChunkRead

Next == Read \/ Timeout

Spec == Init /\ [][Next]_vars

-----------------------------------------------------------------------------
\* A callback without an error has the whole content, in order and nothing
\* else.  There are three ways to get something else: the bytes that followed
\* a chunk in the stream buffer it was read into, or came before the header
\* of a second connection; a response without a length that is not HTTP/1.0;
\* and HTTP/1.0 content that ended early.
ContentIsWhole ==
    result = "ok" /\ ~ misplaced /\ framing # "close" =>
        \/ streambuf = Data(0, Total(sizes))
        \/ framing = "old" /\ cut < Len(Stream) /\ IsPrefix(streambuf, Data(0, Total(sizes)))

\* An error means that the server failed, that the response is too large, or
\* that bytes were misplaced.
WholeIsAccepted ==
    result \in {"error", "protocol_error", "message_size"} =>
        cut < Len(Stream) \/ Len(Stream) >= Limit \/ misplaced

\* A connection that is used again has nothing of this response left on it.
NothingLeft ==
    result = "ok" /\ ~ misplaced /\ framing \in {"length", "chunked"} => taken = Len(Stream)

=============================================================================
