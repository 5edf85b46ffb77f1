---------------------------- MODULE MCHttpClient ----------------------------
(* A small instance of HttpClient: how the server answers. *)
EXTENDS HttpClient

\* In one piece, in two, or with more behind a header than the client waits for.
\* Bytes that are not HTTP and a header without its content end a request as an
\* error and a timer do.
SomeAnswers == {<<"whole">>, <<"header", "content">>, <<"unframed", "content">>}

=============================================================================
