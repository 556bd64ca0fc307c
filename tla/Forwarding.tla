----------------------------- MODULE Forwarding -----------------------------
(***************************************************************************)
(* How a buffered answer reaches the client (handler.rs): read, decoded    *)
(* under the decompression cap, perhaps rewritten, dumped and forwarded    *)
(* with the headers that are still true of it; and the monitoring          *)
(* pass-through, which does the same without rewriting.                    *)
(*                                                                         *)
(* A body is a document of some size in some coding.  What a decoder makes *)
(* of bytes that are not of its coding, or that break off, is external.    *)
(***************************************************************************)
EXTENDS Integers, Sequences, FiniteSets

CONSTANTS
  Absent,
  MAX_DECOMPRESSED_BYTES,
  RequestCap,     \* the 10 MiB (pass-through) or 100 MiB of to_bytes
  MaxSize         \* bound of the model: the size of a body

VARIABLES
  hop,        \* reading, asking, decoding, rewriting, answered
  path,       \* completion, monitoring or streaming
  uploaded,   \* the client's body: its size, whether it arrives whole and is JSON
  wire,       \* the backend's answer: status, coding, size, sound, headers, content_encoding, json
  held,       \* the body the proxy holds: decoded or not, its size, rewritten or not
  response,   \* the client's answer: status, headers, body; or an error envelope
  dump,       \* the files of the dump directory, or Absent when none is configured
  writing,    \* what the dump task has still to write
  bad_write   \* a write failed

forwardVars == <<hop, path, uploaded, wire, held, response, dump, writing, bad_write>>

---------------------------------------------------------------------------
Failed(status, kind) == [status |-> status, headers |-> {}, body |-> kind]

\* body_read_error.
body_read_error(too_long) ==
  IF too_long THEN Failed(413, "request_body_too_large") ELSE Failed(400, "invalid_request_json")

\* prepare_request and proxy_passthrough read the request.
ReadRequest ==
  /\ hop = "reading"
  /\ IF uploaded.size > RequestCap \/ ~uploaded.whole
     THEN /\ response' = body_read_error(uploaded.size > RequestCap)
          /\ hop' = "answered"
     ELSE hop' = "asking" /\ UNCHANGED response
  /\ UNCHANGED <<path, uploaded, wire, held, dump, writing, bad_write>>

\* The backend cannot be reached, or its body cannot be read.
BackendFails ==
  /\ hop = "asking" /\ path # "streaming"
  /\ \E kind \in {"backend_connect_error", "backend_read_error"} : response' = Failed(502, kind)
  /\ hop' = "answered"
  /\ UNCHANGED <<path, uploaded, wire, held, dump, writing, bad_write>>

Headers == {"content-type", "content-length", "content-encoding", "connection", "transfer-encoding"}

\* A coded answer names its coding; nothing says it is the coding the bytes have.
Answers ==
  {[status |-> 200, coding |-> coding, size |-> size, sound |-> sound, json |-> json,
    content_encoding |-> named,
    headers |-> IF named = Absent THEN Headers \ {"content-encoding"} ELSE Headers] :
     coding \in {"none", "gzip", "zlib", "raw", "br"}, size \in 0 .. MaxSize, sound \in BOOLEAN, json \in BOOLEAN,
     named \in {Absent, "gzip", "deflate", "br", "compress"}}

AnswerArrives ==
  /\ hop = "asking"
  /\ wire' \in Answers
  /\ wire'.coding = "none" => wire'.sound
  /\ hop' = IF path = "streaming" THEN "rewriting" ELSE "decoding"
  /\ held' = [decoded |-> FALSE, size |-> wire'.size, rewritten |-> FALSE]
  /\ UNCHANGED <<path, uploaded, response, dump, writing, bad_write>>

---------------------------------------------------------------------------
(* decode_body_bytes.                                                      *)

\* A decoder behind take(limit): it ends well with at most limit bytes, or fails
\* with the bytes it had; one that is cut off at the limit may do either.
Reads(answer, coding, limit) ==
  LET got == IF answer.size < limit THEN answer.size ELSE limit IN
  IF answer.coding # coding THEN {[ok |-> FALSE, len |-> 0]}
  ELSE IF answer.size > limit THEN {[ok |-> TRUE, len |-> got], [ok |-> FALSE, len |-> got]}
  ELSE {[ok |-> answer.sound, len |-> got]}

TooLarge == [is |-> "too_large", len |-> 0]
Corrupt == [is |-> "corrupt", len |-> 0]
Decoded(len) == [is |-> "decoded", len |-> len]
Passthrough == [is |-> "passthrough", len |-> 0]

\* Mutant: the body at the cap is refused.
decoded_within_cap_bug(len) == IF len >= MAX_DECOMPRESSED_BYTES THEN TooLarge ELSE Decoded(len)

decoded_within_cap(len) == IF len > MAX_DECOMPRESSED_BYTES THEN TooLarge ELSE Decoded(len)

\* The three arms of every codec.
Outcome(read) ==
  IF read.ok THEN decoded_within_cap(read.len)
  ELSE IF read.len > MAX_DECOMPRESSED_BYTES THEN TooLarge ELSE Corrupt

\* deflate is tried as zlib and then raw; an unknown coding is handed on.
decode_body_bytes(answer) ==
  LET limit == MAX_DECOMPRESSED_BYTES + 1
      with(coding) == {Outcome(read) : read \in Reads(answer, coding, limit)}
  IN  CASE answer.content_encoding \in {Absent, "compress"} -> {Passthrough}
        [] answer.content_encoding = "deflate" ->
             (with("zlib") \ {Corrupt}) \cup (IF Corrupt \in with("zlib") THEN with("raw") ELSE {})
        [] OTHER -> with(answer.content_encoding)

decompress_error_response(outcome) ==
  IF outcome = TooLarge THEN Failed(413, "backend_payload_too_large") ELSE Failed(502, "backend_decompress_error")

\* decompress_body on its blocking worker.
DecompressBody ==
  /\ hop = "decoding"
  /\ \E outcome \in decode_body_bytes(wire) :
       IF outcome \in {TooLarge, Corrupt}
       THEN /\ response' = decompress_error_response(outcome)
            /\ hop' = "answered"
            /\ UNCHANGED held
       ELSE /\ held' = IF outcome = Passthrough THEN held
                       ELSE [held EXCEPT !.decoded = TRUE, !.size = outcome.len]
            /\ hop' = "rewriting"
            /\ UNCHANGED response
  /\ UNCHANGED <<path, uploaded, wire, dump, writing, bad_write>>

---------------------------------------------------------------------------
(* The answer.                                                             *)

is_hop_by_hop_header(name) == name = "connection"

forward_response(status, headers, body_was_decoded) ==
  [status |-> status, body |-> "forwarded",
   headers |-> {h \in headers : /\ h \notin {"content-length", "transfer-encoding"}
                                /\ ~is_hop_by_hop_header(h)
                                /\ body_was_decoded => h # "content-encoding"}]

\* The streamed answer copies every header but the length.
StreamedResponse(status, headers) ==
  [status |-> status, body |-> "forwarded", headers |-> headers \ {"content-length"}]

\* A body that can be read as JSON may come out of the fixes and of reprompting as
\* another one; the rest, and the monitoring answers, are forwarded as they are.
Readable == wire.json /\ (held.decoded \/ wire.coding = "none")

\* What is dumped: the original, and the transformed body where it differs.
Dumped(final) == {"request", "original"} \cup (IF final.decoded \/ final.rewritten THEN {"transformed"} ELSE {})

\* Which answers are dumped: buffered ones, and streams that are not coded.
Files(final) ==
  CASE path = "completion" -> Dumped(final)
    [] path = "streaming" /\ wire.content_encoding = Absent -> {"request", "merged"}
    [] OTHER -> {}

Respond ==
  /\ hop = "rewriting"
  /\ \E rewritten \in IF Readable /\ path = "completion" THEN BOOLEAN ELSE {FALSE} :
       /\ held' = [held EXCEPT !.rewritten = rewritten]
       /\ response' = IF path = "streaming" THEN StreamedResponse(wire.status, wire.headers)
                      ELSE forward_response(wire.status, wire.headers, held.decoded)
       /\ writing' = IF dump # Absent /\ uploaded.json
                     THEN Files(held') ELSE {}
  /\ hop' = "answered"
  /\ UNCHANGED <<path, uploaded, wire, dump, bad_write>>

\* dump_request_response: the request, the response, its transformed variant and
\* last the meta file; an error ends it.
Rank(file) == CASE file = "request" -> 1 [] file \in {"original", "merged"} -> 2 [] file = "transformed" -> 3

WriteFile ==
  /\ hop = "answered" /\ dump # Absent /\ writing # {} /\ ~bad_write
  /\ \E file \in writing :
       /\ \A other \in writing : Rank(file) <= Rank(other)
       /\ \/ dump' = dump \cup {file} /\ writing' = writing \ {file} /\ UNCHANGED bad_write
          \/ bad_write' = TRUE /\ UNCHANGED <<dump, writing>>
  /\ UNCHANGED <<hop, path, uploaded, wire, held, response>>

WriteMeta ==
  /\ hop = "answered" /\ dump # Absent /\ dump # {} /\ writing = {} /\ ~bad_write /\ "meta" \notin dump
  /\ \/ dump' = dump \cup {"meta"} /\ UNCHANGED bad_write
     \/ bad_write' = TRUE /\ UNCHANGED dump
  /\ UNCHANGED <<hop, path, uploaded, wire, held, response, writing>>

Init ==
  /\ hop = "reading" /\ path \in {"completion", "monitoring", "streaming"}
  /\ uploaded \in [size : {0, RequestCap, RequestCap + 1}, whole : BOOLEAN, json : BOOLEAN]
  /\ wire = Absent /\ held = Absent /\ response = Absent
  /\ dump \in {Absent, {}} /\ writing = {} /\ bad_write = FALSE

Next ==
  \/ ReadRequest \/ BackendFails \/ AnswerArrives \/ DecompressBody \/ Respond \/ WriteFile \/ WriteMeta

Spec == Init /\ [][Next]_forwardVars

---------------------------------------------------------------------------
\* "Only Decoded bodies may have the header stripped; anything handed on
\* unchanged must keep its header", "+1 so a body exactly at the cap still
\* decodes", and decompress_error_response: a forwarded body is the backend's in
\* the coding the headers still name, or the whole document with the coding gone;
\* a document too large for the cap is refused with 413 and, when its coding is
\* the one named and it is sound, only then.
BodyMatchesHeaders ==
  hop = "answered" /\ wire # Absent =>
    LET named == wire.content_encoding
        understood == \/ named = "gzip" /\ wire.coding = "gzip"
                      \/ named = "br" /\ wire.coding = "br"
                      \/ named = "deflate" /\ wire.coding \in {"zlib", "raw"}
    IN  /\ response.body = "forwarded" =>
             IF "content-encoding" \in response.headers
             THEN ~held.decoded
             ELSE named = Absent \/ (held.decoded /\ wire.sound /\ held.size = wire.size)
        /\ held.decoded => held.size <= MAX_DECOMPRESSED_BYTES
        /\ understood /\ wire.sound /\ path # "streaming" =>
             /\ response.status = (IF wire.size > MAX_DECOMPRESSED_BYTES THEN 413 ELSE 200)
             /\ response.status = 200 => held.decoded

\* "The dump records the backend's ORIGINAL pre-decompression bytes; the
\* transformed body rides along only when the bytes actually differ" and "meta.txt
\* is the LAST file, so its presence proves the whole dump landed": a complete dump
\* of a buffered answer has the original, and the other one exactly when the
\* client received something else.
DumpsAreComplete ==
  dump # Absent /\ "meta" \in dump =>
    /\ "request" \in dump
    /\ path = "streaming" => "merged" \in dump
    /\ path = "completion" => "original" \in dump /\ ("transformed" \in dump <=> held.decoded \/ held.rewritten)
===========================================================================
