---------------------------- MODULE HttpParser -----------------------------
(***************************************************************************)
(* http_parser_execute of http_parser.c, as both proxies drive it: one     *)
(* message arrives in pieces of any length, each piece is one call, and    *)
(* the callbacks of http_callbacks.h keep what the proxy wants of it.  A   *)
(* client's parser takes a request and is done with its header; an         *)
(* origin's takes a reply and is done with the message.                    *)
(*                                                                         *)
(* One action is one pass through the switch for one state: it looks at    *)
(* the next symbol, and consumes it, looks at it again in another state    *)
(* (REEXECUTE), or fails.  A word is a symbol, so that the states inside   *)
(* the matching of a word are gone; a piece never ends inside a word.      *)
(***************************************************************************)
EXTENDS HttpMessage, TLC

CONSTANTS Messages,   \* what may be sent
          Pieces      \* how much a read may return, if it is not all there is

ASSUME MessagesAssumption == \A m \in Messages : Bytes(m) \in Seq(STRING)
ASSUME PiecesAssumption   == Pieces \subseteq Nat \ {0}

VARIABLES message,    \* what the peer sends
          text,       \* its symbols
          at,         \* how many of them the parser has consumed
          upTo,       \* how many of them have been read
          calling,    \* in http_parser_execute
          again,      \* its next symbol has been looked at before
          mark,       \* where the word begins that a callback is to get, or 0
          parser,     \* struct http_parser
          data,       \* custom_data_t
          torn,       \* a word was given to its callback in two parts
          closed      \* read() has returned 0

vars == <<message, text, at, upTo, calling, again, mark, parser, data, torn, closed>>

-----------------------------------------------------------------------------
\* Classes of symbols.

Methods  == {"GET", "POST", "CONNECT"}
Versions == {"HTTP/1.0", "HTTP/1.1"}
Statuses == {"100", "101", "200", "204", "304", "404"}

Eol(c) == c \in {"CR", "LF"}

\* tokens[]: what a name may be made of.  CTL is a control character.
Token(c) == ~Eol(c) /\ c \notin {" ", ":", ",", ";", "/", "?", "@", "CTL"}

\* IS_ALPHA, IS_URL_CHAR and IS_USERINFO_CHAR.
Alpha(c)    == Token(c) /\ ~IsDigit(c) /\ c # "#"
UrlChar(c)  == ~Eol(c) /\ c \notin {" ", "?", "#", "CTL"}
UserInfo(c) == UrlChar(c) /\ c \notin {"/", "@"}

-----------------------------------------------------------------------------
\* States.

ServerStates   == {"s_req_server_start", "s_req_server", "s_req_server_with_at"}
SchemaStates   == {"s_req_schema", "s_req_schema_slash", "s_req_schema_slash_slash"}
QueryStates    == {"s_req_query_string_start", "s_req_query_string"}
FragmentStates == {"s_req_fragment_start", "s_req_fragment"}
UrlStates      == SchemaStates \cup ServerStates \cup {"s_req_path"} \cup
                  QueryStates \cup FragmentStates

BodyStates ==
  {"s_chunk_data", "s_chunk_data_almost_done", "s_chunk_data_done",
   "s_body_identity", "s_body_identity_eof", "s_message_done"}

ChunkStates ==
  {"s_chunk_size_start", "s_chunk_size", "s_chunk_parameters", "s_chunk_size_almost_done",
   "s_chunk_data", "s_chunk_data_almost_done", "s_chunk_data_done"}

StartStates == {"s_start_req", "s_start_res"}

\* Where parse_url_char goes from a state on a symbol.
UrlRule(s, c, next) ==
  \/ /\ s = "s_req_spaces_before_url"
     /\ \/ c = "/" /\ next = "s_req_path"
        \/ Alpha(c) /\ next = "s_req_schema"
  \/ s = "s_req_schema" /\ Alpha(c) /\ next = s
  \/ s = "s_req_schema" /\ c = ":" /\ next = "s_req_schema_slash"
  \/ s = "s_req_schema_slash" /\ c = "/" /\ next = "s_req_schema_slash_slash"
  \/ s = "s_req_schema_slash_slash" /\ c = "/" /\ next = "s_req_server_start"
  \/ /\ s \in ServerStates
     /\ \/ c = "/" /\ next = "s_req_path"
        \/ c = "?" /\ next = "s_req_query_string_start"
        \/ c = "@" /\ s # "s_req_server_with_at" /\ next = "s_req_server_with_at"
        \/ UserInfo(c) /\ next = "s_req_server"
  \/ /\ s = "s_req_path"
     /\ \/ UrlChar(c) /\ next = s
        \/ c = "?" /\ next = "s_req_query_string_start"
        \/ c = "#" /\ next = "s_req_fragment_start"
  \/ /\ s \in QueryStates
     /\ \/ (UrlChar(c) \/ c = "?") /\ next = "s_req_query_string"
        \/ c = "#" /\ next = "s_req_fragment_start"
  \/ s = "s_req_fragment_start" /\ (UrlChar(c) \/ c = "?") /\ next = "s_req_fragment"
  \/ s = "s_req_fragment_start" /\ c = "#" /\ next = s
  \/ s = "s_req_fragment" /\ (UrlChar(c) \/ c \in {"?", "#"}) /\ next = s

parse_url_char(s, c) ==
  LET nexts == {next \in UrlStates : UrlRule(s, c, next)}
  IN IF nexts = {} THEN "s_dead" ELSE CHOOSE next \in nexts : TRUE

-----------------------------------------------------------------------------
\* The parser between two looks.

ch == text[at + 1]

IsRequest == parser.type = "HTTP_REQUEST"

start_state == IF IsRequest THEN "s_start_req" ELSE "s_start_res"

(* Mutant of http_message_needs_eof: no status is without a body. *)
NeedsEofUnlessCounted ==
  /\ ~IsRequest
  /\ "F_CHUNKED" \notin parser.flags
  /\ parser.uses_transfer_encoding \/ parser.content_length = ULLONG_MAX

http_message_needs_eof ==
  /\ ~IsRequest
  /\ parser.status_code \notin Bodiless
  /\ "F_CHUNKED" \notin parser.flags
  /\ parser.uses_transfer_encoding \/ parser.content_length = ULLONG_MAX

http_should_keep_alive ==
  /\ IF parser.version = "HTTP/1.1"
     THEN "F_CONNECTION_CLOSE" \notin parser.flags
     ELSE "F_CONNECTION_KEEP_ALIVE" \in parser.flags
  /\ ~http_message_needs_eof

NEW_MESSAGE == IF http_should_keep_alive THEN start_state ELSE "s_dead"

\* Every state but those of the body belongs to the header.
PARSING_HEADER(s) == s \notin BodyStates

\* A byte of the header is counted when it is looked at first.
COUNT_HEADER_SIZE ==
  IF PARSING_HEADER(parser.state) /\ ~again THEN parser.nread + 1 ELSE parser.nread

Looks(state) ==
  calling /\ parser.state = state /\ COUNT_HEADER_SIZE <= max_header_size

on_url_callback(d, word) == [d EXCEPT !.url = word]
on_header_field(d, word) == [d EXCEPT !.next_header_value = word]
on_header_value(d, word) ==
  [d EXCEPT !.headers =
     [name \in DOMAIN d.headers \cup {d.next_header_value} |->
        IF name = d.next_header_value THEN word ELSE d.headers[name]]]

\* What the callbacks make of a word; an origin's parser has none for words.
Heard(state, word) ==
  IF ~IsRequest THEN data
  ELSE IF state \in UrlStates THEN on_url_callback(data, word)
  ELSE IF state = "s_header_field" THEN on_header_field(data, word)
  ELSE on_header_value(data, word)

on_headers_complete == IF IsRequest THEN [data EXCEPT !.done = TRUE] ELSE data
on_message_complete == IF IsRequest THEN data ELSE [data EXCEPT !.done = TRUE]

\* The record r with the fields of `change` in place of its own.
With(r, change) == [f \in DOMAIN r |-> IF f \in DOMAIN change THEN change[f] ELSE r[f]]

(* The parser goes on at the symbol after `to`, with `change` to its        *)
(* fields, the callbacks' data d and the mark m.  At the end of the piece   *)
(* what is marked so far goes to its callback.                              *)
Goes(change, to, d, m) ==
  /\ parser' = With([parser EXCEPT !.nread = COUNT_HEADER_SIZE], change)
  /\ at' = to
  /\ again' = (to = at)
  /\ calling' = (to < upTo)
  /\ IF to = upTo /\ m # 0
     THEN /\ data' = Heard(parser'.state, SubSeq(text, m, to))
          /\ torn' = TRUE
          /\ mark' = 0
     ELSE /\ data' = d
          /\ torn' = (torn \/ parser.state = "s_header_value_start")
          /\ mark' = m
  /\ UNCHANGED <<message, text, upTo, closed>>

Takes(change) == Goes(change, at + 1, data, mark)

Stays == Takes([state |-> parser.state])

Reexecutes(change) == Goes(change, at, data, mark)

\* MARK: the word begins with this symbol.
Marks(change) == Goes(change, at + 1, data, at + 1)

(* Mutant of CALLBACK_DATA: the symbol that ends the word is taken for a part of it. *)
CallbackDataWithEnd(change) ==
  Goes(change, at + 1, Heard(parser.state, SubSeq(text, mark, at + 1)), 0)

\* The word has ended before this symbol.
CALLBACK_DATA(change) ==
  Goes(change, at + 1, Heard(parser.state, SubSeq(text, mark, at)), 0)

CALLBACK_DATA_NOADVANCE(change) ==
  Goes(change, at, Heard(parser.state, SubSeq(text, mark, at)), 0)

\* RETURN before the end of the piece, this symbol consumed.
Returns(change, d) ==
  /\ parser' = With(parser, change)
  /\ at' = at + 1
  /\ calling' = FALSE
  /\ data' = d
  /\ UNCHANGED <<message, text, upTo, again, mark, torn, closed>>

SET_ERRNO(error) ==
  /\ parser' = [parser EXCEPT !.http_errno = error, !.nread = COUNT_HEADER_SIZE]
  /\ calling' = FALSE
  /\ UNCHANGED <<message, text, at, upTo, again, mark, data, torn, closed>>

\* STRICT_CHECK and its like: one symbol is right here, any other is an error.
Expects(symbol, state, error) ==
  IF ch = symbol THEN Takes([state |-> state]) ELSE SET_ERRNO(error)

-----------------------------------------------------------------------------
\* The first line.

HeaderOverflow ==
  /\ calling
  /\ COUNT_HEADER_SIZE > max_header_size
  /\ SET_ERRNO("HPE_HEADER_OVERFLOW")

\* After a message that ends the connection.
s_dead ==
  /\ Looks("s_dead")
  /\ IF Eol(ch) THEN Stays ELSE SET_ERRNO("HPE_CLOSED_CONNECTION")

s_start_res ==
  /\ Looks("s_start_res")
  /\ \/ Eol(ch) /\ Stays
     \/ /\ ch \in Versions
        /\ Takes([state |-> "s_res_http_end", version |-> ch, flags |-> {},
                  uses_transfer_encoding |-> FALSE, content_length |-> ULLONG_MAX])
     \/ ~Eol(ch) /\ ch \notin Versions /\ SET_ERRNO("HPE_INVALID_CONSTANT")

s_res_http_end ==
  /\ Looks("s_res_http_end")
  /\ Expects(" ", "s_res_first_status_code", "HPE_INVALID_VERSION")

s_res_first_status_code ==
  /\ Looks("s_res_first_status_code")
  /\ \/ ch = " " /\ Stays
     \/ ch \in Statuses /\ Takes([state |-> "s_res_status_code", status_code |-> ch])
     \/ ch \notin Statuses \cup {" "} /\ SET_ERRNO("HPE_INVALID_STATUS")

s_res_status_code ==
  /\ Looks("s_res_status_code")
  /\ \/ ch = " " /\ Takes([state |-> "s_res_status_start"])
     \/ Eol(ch) /\ Reexecutes([state |-> "s_res_status_start"])
     \/ ~Eol(ch) /\ ch # " " /\ SET_ERRNO("HPE_INVALID_STATUS")

s_res_status_start ==
  /\ Looks("s_res_status_start")
  /\ IF Eol(ch) THEN Reexecutes([state |-> "s_res_status"])
     ELSE Takes([state |-> "s_res_status"])

s_res_status ==
  /\ Looks("s_res_status")
  /\ \/ ch = "CR" /\ Takes([state |-> "s_res_line_almost_done"])
     \/ ch = "LF" /\ Takes([state |-> "s_header_field_start"])
     \/ ~Eol(ch) /\ Stays

s_res_line_almost_done ==
  /\ Looks("s_res_line_almost_done")
  /\ Expects("LF", "s_header_field_start", "HPE_STRICT")

s_start_req ==
  /\ Looks("s_start_req")
  /\ \/ Eol(ch) /\ Stays
     \/ /\ ch \in Methods
        /\ Takes([state |-> "s_req_method", method |-> ch, flags |-> {},
                  uses_transfer_encoding |-> FALSE, content_length |-> ULLONG_MAX])
     \/ ~Eol(ch) /\ ch \notin Methods /\ SET_ERRNO("HPE_INVALID_METHOD")

s_req_method ==
  /\ Looks("s_req_method")
  /\ Expects(" ", "s_req_spaces_before_url", "HPE_INVALID_METHOD")

s_req_spaces_before_url ==
  /\ Looks("s_req_spaces_before_url")
  /\ LET from == IF parser.method = "CONNECT" THEN "s_req_server_start" ELSE parser.state
         next == parse_url_char(from, ch)
     IN IF ch = " " THEN Stays
        ELSE IF next = "s_dead" THEN SET_ERRNO("HPE_INVALID_URL")
        ELSE Marks([state |-> next])

\* The states of the address; those of `unfinished` are too early for its end.
s_req_url(s) ==
  LET unfinished == SchemaStates \cup {"s_req_server_start"}
      next == parse_url_char(s, ch)
  IN /\ Looks(s)
     /\ IF s \notin unfinished /\ ch = " "
        THEN CALLBACK_DATA([state |-> "s_req_http_start"])
        ELSE IF s \notin unfinished /\ Eol(ch)
        THEN CALLBACK_DATA([state |-> IF ch = "CR" THEN "s_req_line_almost_done"
                                      ELSE "s_header_field_start",
                            version |-> "HTTP/0.9"])
        ELSE IF next = "s_dead" THEN SET_ERRNO("HPE_INVALID_URL")
        ELSE Takes([state |-> next])

s_req_http_start ==
  /\ Looks("s_req_http_start")
  /\ \/ ch = " " /\ Stays
     \/ ch \in Versions /\ Takes([state |-> "s_req_http_end", version |-> ch])
     \/ ch \notin Versions \cup {" "} /\ SET_ERRNO("HPE_INVALID_CONSTANT")

s_req_http_end ==
  /\ Looks("s_req_http_end")
  /\ \/ ch = "CR" /\ Takes([state |-> "s_req_line_almost_done"])
     \/ ch = "LF" /\ Takes([state |-> "s_header_field_start"])
     \/ ~Eol(ch) /\ SET_ERRNO("HPE_INVALID_VERSION")

s_req_line_almost_done ==
  /\ Looks("s_req_line_almost_done")
  /\ Expects("LF", "s_header_field_start", "HPE_LF_EXPECTED")

-----------------------------------------------------------------------------
\* The header's other lines.

\* What the word a name begins with makes the parser look for in the value.
NameState(word) ==
  CASE word \in {"connection", "proxy-connection"} -> "h_connection"
    [] word = "content-length"    -> "h_content_length"
    [] word = "transfer-encoding" -> "h_transfer_encoding"
    [] word = "upgrade"           -> "h_upgrade"
    [] OTHER                      -> "h_general"

s_header_field_start ==
  /\ Looks("s_header_field_start")
  /\ \/ ch = "CR" /\ Takes([state |-> "s_headers_almost_done"])
     \/ ch = "LF" /\ Reexecutes([state |-> "s_headers_almost_done"])
     \/ ~Eol(ch) /\ ~Token(ch) /\ SET_ERRNO("HPE_INVALID_HEADER_TOKEN")
     \/ /\ Token(ch)
        /\ Marks([state |-> "s_header_field", header_state |-> NameState(ch),
                  uses_transfer_encoding |->
                    parser.uses_transfer_encoding \/ ch = "transfer-encoding"])

s_header_field ==
  /\ Looks("s_header_field")
  /\ \/ Token(ch) /\ Takes([header_state |-> "h_general"])
     \/ ch = ":" /\ CALLBACK_DATA([state |-> "s_header_value_discard_ws"])
     \/ ~Token(ch) /\ ch # ":" /\ SET_ERRNO("HPE_INVALID_HEADER_TOKEN")

s_header_value_discard_ws ==
  /\ Looks("s_header_value_discard_ws")
  /\ \/ ch = " "  /\ Stays
     \/ ch = "CR" /\ Takes([state |-> "s_header_value_discard_ws_almost_done"])
     \/ ch = "LF" /\ Takes([state |-> "s_header_value_discard_lws"])

\* A word of a list of encodings, or of a list of connection options.
EncodingState(word) ==
  IF word = "chunked" THEN "h_transfer_encoding_chunked"
  ELSE "h_matching_transfer_encoding_token"

ConnectionState(word) ==
  CASE word = "close"      -> "h_connection_close"
    [] word = "keep-alive" -> "h_connection_keep_alive"
    [] word = "upgrade"    -> "h_connection_upgrade"
    [] OTHER               -> "h_matching_connection_token"

\* The value's first symbol, here or, folded, on the next line.
s_header_value_start ==
  LET h == parser.header_state
      Value1(state) == Marks([state |-> "s_header_value", header_state |-> state])
  IN /\ \/ Looks("s_header_value_discard_ws") /\ ~Blank(ch)
        \/ Looks("s_header_value_start")
     /\ \/ /\ h = "h_upgrade"
           /\ Marks([state |-> "s_header_value", header_state |-> "h_general",
                     flags |-> parser.flags \cup {"F_UPGRADE"}])
        \/ h = "h_transfer_encoding" /\ Value1(EncodingState(ch))
        \/ h = "h_connection" /\ Value1(ConnectionState(ch))
        \/ /\ h = "h_content_length"
           /\ IF ~IsDigit(ch) THEN SET_ERRNO("HPE_INVALID_CONTENT_LENGTH")
              ELSE IF "F_CONTENTLENGTH" \in parser.flags
              THEN SET_ERRNO("HPE_UNEXPECTED_CONTENT_LENGTH")
              ELSE Marks([state |-> "s_header_value", header_state |-> "h_content_length_num",
                          flags |-> parser.flags \cup {"F_CONTENTLENGTH"},
                          content_length |-> Value[ch]])
        \/ /\ h \in {"h_matching_transfer_encoding_token_start", "h_content_length_ws",
                     "h_matching_connection_token_start"}
           /\ Value1(h)
        \/ /\ h \notin {"h_upgrade", "h_transfer_encoding", "h_connection", "h_content_length",
                        "h_matching_transfer_encoding_token_start", "h_content_length_ws",
                        "h_matching_connection_token_start"}
           /\ Value1("h_general")

ConnectionFlag(h) ==
  CASE h = "h_connection_keep_alive" -> {"F_CONNECTION_KEEP_ALIVE"}
    [] h = "h_connection_close"      -> {"F_CONNECTION_CLOSE"}
    [] h = "h_connection_upgrade"    -> {"F_CONNECTION_UPGRADE"}
    [] OTHER                         -> {}

\* Where a symbol of a value leads that is neither a number nor the line's end.
ValueState(h, symbol) ==
  CASE h = "h_matching_transfer_encoding_token_start" ->
         IF symbol = " " THEN h
         ELSE IF Token(symbol) THEN EncodingState(symbol) ELSE "h_general"
    [] h = "h_matching_connection_token_start" ->
         IF symbol = " " THEN h
         ELSE IF Token(symbol) THEN ConnectionState(symbol) ELSE "h_general"
    [] h = "h_matching_transfer_encoding_token" ->
         IF symbol = "," THEN "h_matching_transfer_encoding_token_start" ELSE h
    [] h = "h_matching_connection_token" ->
         IF symbol = "," THEN "h_matching_connection_token_start" ELSE h
    [] h = "h_transfer_encoding_chunked" ->
         IF symbol = " " THEN h ELSE "h_matching_transfer_encoding_token"
    [] ConnectionFlag(h) # {} ->
         IF symbol = "," THEN "h_matching_connection_token_start"
         ELSE IF symbol = " " THEN h ELSE "h_matching_connection_token"
    [] OTHER -> "h_general"

(* Mutant of ContentLength: what does not fit is cut off. *)
ContentLengthModulo ==
  IF ~IsDigit(ch) THEN SET_ERRNO("HPE_INVALID_CONTENT_LENGTH")
  ELSE Takes([content_length |->
                (parser.content_length * 10 + Value[ch]) % (ULLONG_MAX + 1)])

\* One more digit, if the number so far leaves room for it.
ContentLength ==
  IF ~IsDigit(ch) \/ (ULLONG_MAX - 10) \div 10 < parser.content_length
  THEN SET_ERRNO("HPE_INVALID_CONTENT_LENGTH")
  ELSE Takes([content_length |-> parser.content_length * 10 + Value[ch]])

s_header_value ==
  LET h == parser.header_state
  IN /\ Looks("s_header_value")
     /\ \/ ch = "CR" /\ CALLBACK_DATA([state |-> "s_header_almost_done"])
        \/ ch = "LF" /\ CALLBACK_DATA_NOADVANCE([state |-> "s_header_almost_done"])
        \/ ch = "CTL" /\ SET_ERRNO("HPE_INVALID_HEADER_TOKEN")
        \/ /\ ~Eol(ch) /\ ch # "CTL"
           /\ \/ /\ h = "h_content_length_num"
                 /\ IF ch = " " THEN Takes([header_state |-> "h_content_length_ws"])
                    ELSE ContentLength
              \/ /\ h = "h_content_length_ws"
                 /\ IF ch = " " THEN Stays ELSE SET_ERRNO("HPE_INVALID_CONTENT_LENGTH")
              \/ /\ h \notin {"h_content_length_num", "h_content_length_ws"}
                 /\ Takes([header_state |-> ValueState(h, ch),
                           flags |-> IF ch = "," THEN parser.flags \cup ConnectionFlag(h)
                                     ELSE parser.flags])

s_header_almost_done ==
  /\ Looks("s_header_almost_done")
  /\ Expects("LF", "s_header_value_lws", "HPE_LF_EXPECTED")

\* What the line leaves behind when the next one does not continue it.
FinishedFlags ==
  parser.flags \cup ConnectionFlag(parser.header_state) \cup
  (IF parser.header_state = "h_transfer_encoding_chunked" THEN {"F_CHUNKED"} ELSE {})

s_header_value_lws ==
  /\ Looks("s_header_value_lws")
  /\ IF ch = " "
     THEN Reexecutes([state |-> "s_header_value_start",
                      header_state |-> IF parser.header_state = "h_content_length_num"
                                       THEN "h_content_length_ws" ELSE parser.header_state])
     ELSE Reexecutes([state |-> "s_header_field_start", flags |-> FinishedFlags])

s_header_value_discard_ws_almost_done ==
  /\ Looks("s_header_value_discard_ws_almost_done")
  /\ Expects("LF", "s_header_value_discard_lws", "HPE_STRICT")

(* Mutant of s_header_value_discard_lws: the state is left as it is. *)
DiscardLwsAgain ==
  /\ Looks("s_header_value_discard_lws")
  /\ IF ch = " " THEN Takes([state |-> "s_header_value_discard_ws"])
     ELSE Goes([flags |-> FinishedFlags], at, Heard(parser.state, <<>>), 0)

\* The value was empty, unless the next line continues it.
s_header_value_discard_lws ==
  /\ Looks("s_header_value_discard_lws")
  /\ IF ch = " " THEN Takes([state |-> "s_header_value_discard_ws"])
     ELSE IF parser.header_state = "h_content_length"
     THEN SET_ERRNO("HPE_INVALID_CONTENT_LENGTH")
     ELSE Goes([state |-> "s_header_field_start", flags |-> FinishedFlags],
               at, Heard(parser.state, <<>>), 0)

-----------------------------------------------------------------------------
\* The end of the header.

s_headers_almost_done ==
  /\ Looks("s_headers_almost_done")
  /\ IF ch # "LF" THEN SET_ERRNO("HPE_STRICT")
     ELSE IF "F_TRAILING" \in parser.flags THEN Reexecutes([state |-> "s_message_done"])
     ELSE IF parser.uses_transfer_encoding /\ "F_CONTENTLENGTH" \in parser.flags
     THEN SET_ERRNO("HPE_UNEXPECTED_CONTENT_LENGTH")
     ELSE Goes([state |-> "s_headers_done",
                upgrade |->
                  IF {"F_UPGRADE", "F_CONNECTION_UPGRADE"} \subseteq parser.flags
                  THEN IsRequest \/ parser.status_code = "101"
                  ELSE parser.method = "CONNECT"],
               at, on_headers_complete, 0)

hasBody == "F_CHUNKED" \in parser.flags \/ parser.content_length \notin {0, ULLONG_MAX}

(* Mutant of Begins: the count of header bytes goes on. *)
BeginsCounting(state) == Takes([state |-> state])

Begins(state) == Takes([state |-> state, nread |-> 0])

s_headers_done ==
  LET Ends == [state |-> NEW_MESSAGE, nread |-> 0]
  IN /\ Looks("s_headers_done")
     /\ IF parser.upgrade /\ (parser.method = "CONNECT" \/ ~hasBody)
        THEN Returns(Ends, on_message_complete)
        ELSE IF "F_CHUNKED" \in parser.flags THEN Begins("s_chunk_size_start")
        ELSE IF parser.uses_transfer_encoding
        THEN IF IsRequest THEN SET_ERRNO("HPE_INVALID_TRANSFER_ENCODING")
             ELSE Begins("s_body_identity_eof")
        ELSE IF hasBody THEN Begins("s_body_identity")
        ELSE IF parser.content_length = ULLONG_MAX /\ http_message_needs_eof
        THEN Begins("s_body_identity_eof")
        ELSE Goes(Ends, at + 1, on_message_complete, 0)

-----------------------------------------------------------------------------
\* The body.

(* Mutant of to_read: all of the body, however little has been read. *)
WholeBody == parser.content_length

to_read ==
  IF parser.content_length < upTo - at THEN parser.content_length ELSE upTo - at

BodyLeft == parser.content_length - to_read

\* The last byte is looked at again, for the message to be complete.
s_body_identity ==
  /\ Looks("s_body_identity")
  /\ IF BodyLeft = 0
     THEN Goes([state |-> "s_message_done", content_length |-> 0],
               at + to_read - 1, data, 0)
     ELSE Goes([content_length |-> BodyLeft], at + to_read, data, 0)

s_body_identity_eof ==
  /\ Looks("s_body_identity_eof")
  /\ Goes([state |-> "s_body_identity_eof"], upTo, data, 0)

s_message_done ==
  /\ Looks("s_message_done")
  /\ IF parser.upgrade THEN Returns([state |-> NEW_MESSAGE], on_message_complete)
     ELSE Goes([state |-> NEW_MESSAGE], at + 1, on_message_complete, 0)

s_chunk_size_start ==
  /\ Looks("s_chunk_size_start")
  /\ IF IsDigit(ch) THEN Takes([state |-> "s_chunk_size", content_length |-> Value[ch]])
     ELSE SET_ERRNO("HPE_INVALID_CHUNK_SIZE")

s_chunk_size ==
  /\ Looks("s_chunk_size")
  /\ \/ ch = "CR" /\ Takes([state |-> "s_chunk_size_almost_done"])
     \/ ch \in {";", " "} /\ Takes([state |-> "s_chunk_parameters"])
     \/ /\ IsDigit(ch)
        /\ IF (ULLONG_MAX - 16) \div 16 < parser.content_length
           THEN SET_ERRNO("HPE_INVALID_CONTENT_LENGTH")
           ELSE Takes([content_length |-> parser.content_length * 16 + Value[ch]])
     \/ ~IsDigit(ch) /\ ch \notin {"CR", ";", " "} /\ SET_ERRNO("HPE_INVALID_CHUNK_SIZE")

s_chunk_parameters ==
  /\ Looks("s_chunk_parameters")
  /\ IF ch = "CR" THEN Takes([state |-> "s_chunk_size_almost_done"]) ELSE Stays

\* A chunk of no bytes is the last: the trailer is parsed as a header.
s_chunk_size_almost_done ==
  /\ Looks("s_chunk_size_almost_done")
  /\ \/ ch # "LF" /\ SET_ERRNO("HPE_STRICT")
     \/ /\ ch = "LF" /\ parser.content_length = 0
        /\ Takes([state |-> "s_header_field_start", nread |-> 0,
                  flags |-> parser.flags \cup {"F_TRAILING"}])
     \/ /\ ch = "LF" /\ parser.content_length # 0
        /\ Takes([state |-> "s_chunk_data", nread |-> 0])

s_chunk_data ==
  /\ Looks("s_chunk_data")
  /\ Goes([content_length |-> BodyLeft,
           state |-> IF BodyLeft = 0 THEN "s_chunk_data_almost_done" ELSE "s_chunk_data"],
          at + to_read, data, 0)

s_chunk_data_almost_done ==
  /\ Looks("s_chunk_data_almost_done")
  /\ Expects("CR", "s_chunk_data_done", "HPE_STRICT")

s_chunk_data_done ==
  /\ Looks("s_chunk_data_done")
  /\ IF ch = "LF" THEN Takes([state |-> "s_chunk_size_start", nread |-> 0])
     ELSE SET_ERRNO("HPE_STRICT")

-----------------------------------------------------------------------------
\* The proxies' reading.

\* What they make of a call that has returned: parsed_count # read_count, or done, or neither.
Outcome ==
  IF calling THEN "in call"
  ELSE IF parser.http_errno # "HPE_OK" \/ at < upTo THEN "failed"
  ELSE IF data.done THEN "done"
  ELSE IF closed THEN "silent" ELSE "reading"

\* The callback that gets the rest of a word a piece has ended in.
Marked == UrlStates \cup {"s_header_field", "s_header_value"}

\* read() returns n bytes, or all that are left.
Read(n) ==
  /\ Outcome = "reading"
  /\ upTo < Len(text)
  /\ upTo' = IF upTo + n < Len(text) THEN upTo + n ELSE Len(text)
  /\ calling' = TRUE
  /\ again' = FALSE
  /\ mark' = IF parser.state \in Marked THEN at + 1 ELSE 0
  /\ UNCHANGED <<message, text, at, parser, data, torn, closed>>

\* read() returns 0: the peer has closed, before or after the end.
Eof ==
  /\ Outcome = "reading"
  /\ closed' = TRUE
  /\ data' = IF parser.state = "s_body_identity_eof" THEN on_message_complete ELSE data
  /\ parser' = IF parser.state \in {"s_body_identity_eof", "s_dead", start_state} THEN parser
               ELSE [parser EXCEPT !.http_errno = "HPE_INVALID_EOF_STATE"]
  /\ UNCHANGED <<message, text, at, upTo, calling, again, mark, torn>>

-----------------------------------------------------------------------------
http_parser_init(type) ==
  [type |-> type,
   state |-> IF type = "HTTP_REQUEST" THEN "s_start_req" ELSE "s_start_res",
   header_state |-> "h_general", flags |-> {}, uses_transfer_encoding |-> FALSE,
   content_length |-> 0, method |-> "DELETE", version |-> "HTTP/0.0",
   status_code |-> "0", nread |-> 0, upgrade |-> FALSE, http_errno |-> "HPE_OK"]

Init ==
  /\ message \in Messages
  /\ text = Bytes(message)
  /\ at = 0
  /\ upTo = 0
  /\ calling = FALSE
  /\ again = FALSE
  /\ mark = 0
  /\ parser = http_parser_init(message.type)
  /\ data = [done |-> FALSE, headers |-> <<>>, next_header_value |-> <<>>, url |-> <<>>]
  /\ torn = FALSE
  /\ closed = FALSE

\* The first line, the other lines, and the body.
FirstLine ==
  \/ s_dead \/ s_start_res \/ s_res_http_end \/ s_res_first_status_code \/ s_res_status_code
  \/ s_res_status_start \/ s_res_status \/ s_res_line_almost_done
  \/ s_start_req \/ s_req_method \/ s_req_spaces_before_url
  \/ \E s \in UrlStates : s_req_url(s)
  \/ s_req_http_start \/ s_req_http_end \/ s_req_line_almost_done

HeaderLines ==
  \/ s_header_field_start \/ s_header_field
  \/ s_header_value_discard_ws \/ s_header_value_start \/ s_header_value
  \/ s_header_almost_done \/ s_header_value_lws
  \/ s_header_value_discard_ws_almost_done \/ s_header_value_discard_lws
  \/ s_headers_almost_done \/ s_headers_done

Body ==
  \/ s_body_identity \/ s_body_identity_eof \/ s_message_done
  \/ s_chunk_size_start \/ s_chunk_size \/ s_chunk_parameters \/ s_chunk_size_almost_done
  \/ s_chunk_data \/ s_chunk_data_almost_done \/ s_chunk_data_done

http_parser_execute == HeaderOverflow \/ FirstLine \/ HeaderLines \/ Body

Next == http_parser_execute \/ Eof \/ \E n \in Pieces : Read(n)

\* A call goes on once it has begun; the peer owes nothing.
Spec == Init /\ [][Next]_vars /\ WF_vars(http_parser_execute)

-----------------------------------------------------------------------------
\* Correctness.

TypeOK ==
  /\ message \in Messages /\ text = Bytes(message)
  /\ upTo \in 0..Len(text) /\ at \in 0..upTo
  /\ calling \in BOOLEAN /\ again \in BOOLEAN /\ torn \in BOOLEAN /\ closed \in BOOLEAN
  /\ mark \in 0..upTo
  /\ parser.type = message.type
  /\ parser.content_length \in 0..ULLONG_MAX
  /\ parser.nread \in 0..(max_header_size + 1)
  /\ parser.flags \subseteq
       {"F_CHUNKED", "F_CONNECTION_KEEP_ALIVE", "F_CONNECTION_CLOSE", "F_CONNECTION_UPGRADE",
        "F_TRAILING", "F_UPGRADE", "F_CONTENTLENGTH"}
  /\ parser.uses_transfer_encoding \in BOOLEAN /\ parser.upgrade \in BOOLEAN
  /\ data.done \in BOOLEAN

\* All that the proxy waits for has been consumed.
Whole ==
  IF IsRequest THEN at >= Len(Header(message))
  ELSE IF Framing(message) = "close" THEN closed /\ at >= Len(Header(message))
  ELSE at >= End(message)

\* More has been read than belongs to the message.
ReadOn == Framing(message) # "close" /\ upTo > End(message)

(* Wherever the reads split a well-formed message, a proxy goes on reading *)
(* exactly until the whole of it has been consumed: until the end of the   *)
(* header for a request, until the announced end, the last chunk with its  *)
(* trailer, or the origin's close for a reply.  A peer that closes before  *)
(* that is an error, but one that closes before the first byte is none,    *)
(* and the proxy is told nothing.  What was read past the end may make an  *)
(* error of a message that was whole.                                      *)
DoneAtEnd ==
  ~calling /\ WellFormed(message) =>
    IF Whole THEN Outcome = "done" \/ (ReadOn /\ Outcome = "failed")
    ELSE IF ~closed THEN Outcome = "reading"
    ELSE Outcome = IF at <= Len(message.lead) THEN "silent" ELSE "failed"

(* A message that contradicts itself, is not HTTP, or has a length beyond  *)
(* 64 bits or a header beyond max_header_size, is never taken for a whole  *)
(* one, wherever the reads split it.                                       *)
MalformedRefused ==
  Malformed(message) =>
    /\ Outcome # "done"
    /\ closed /\ at > Len(message.lead) => Outcome = "failed"

(* The asserts of http_parser_execute hold in every call: the count of     *)
(* header bytes starts anew with each chunk, a chunk is read only from a   *)
(* message that is chunked, a body has a length that is neither none nor   *)
(* unknown, and no value is read on in a state that only its name leaves.  *)
AssertionsHold ==
  calling =>
    /\ parser.state = "s_chunk_size_start" => COUNT_HEADER_SIZE = 1
    /\ parser.state \in ChunkStates => "F_CHUNKED" \in parser.flags
    /\ parser.state \in {"s_body_identity", "s_chunk_data"} =>
         parser.content_length \notin {0, ULLONG_MAX}
    /\ parser.state = "s_chunk_data_almost_done" => parser.content_length = 0
    /\ parser.state = "s_header_value" =>
         parser.header_state \notin {"h_connection", "h_transfer_encoding", "h_content_length",
                                     "h_upgrade"}

-----------------------------------------------------------------------------
\* What the text of a request says, and what the parser takes from it.

Space(c) == c = " "

\* The line that ends at i is empty.
EmptyLine(t, i) ==
  t[i] = "LF" /\ (t[i - 1] = "LF" \/ (t[i - 1] = "CR" /\ t[i - 2] = "LF"))

\* The request begins at b, behind empty lines if any.
RequestAt(t, b) == (\A k \in 1..(b - 1) : Eol(t[k])) /\ ~Eol(t[b])

\* The first line and the header of a request: from b to the first empty line, which ends at e.
HeaderAt(t, b, e) ==
  RequestAt(t, b) /\ EmptyLine(t, e) /\ \A k \in (b + 2)..(e - 1) : ~EmptyLine(t, k)

(* A request is done with at the first empty line after its beginning, on  *)
(* no account earlier and never later, whatever its lines are and wherever *)
(* the reads split them; and up to there it has max_header_size bytes at   *)
(* most, each of them counted once, however often it was looked at.        *)
EndSeen ==
  IsRequest /\ ~data.done /\ data'.done =>
    /\ \E b \in 1..at : HeaderAt(text, b, at + 1)
    /\ parser'.nread = at + 1 /\ at + 1 <= max_header_size

\* Spaces follow the method at b, and then, at i..j, a word.
AddressAt(t, b, i, j) ==
  /\ b + 1 < i /\ i <= j
  /\ \A k \in (b + 1)..(i - 1) : Space(t[k])
  /\ \A k \in i..j : ~Blank(t[k])
  /\ Blank(t[j + 1])

\* A line begins at l with a name, and its colon is at c.
NameAt(t, l, c) ==
  /\ l < c /\ t[l - 1] = "LF" /\ t[c] = ":"
  /\ \A k \in l..(c - 1) : Token(t[k])

NameOf(t, l, c) == SubSeq(t, l, c - 1)

\* Blanks, and ends of lines only where a line is folded.
FoldsAt(t, i, j) == \A k \in i..j : Blank(t[k]) /\ (t[k] = "LF" => Space(t[k + 1]))

\* The value w behind the colon at c: the rest of the line, or nothing.
ValueAt(t, c, w) ==
  \E v \in (c + 1)..(Len(t) - 1) :
    /\ FoldsAt(t, c + 1, v - 1)
    /\ \/ t[v] = "LF" /\ ~Space(t[v + 1]) /\ w = <<>>
       \/ /\ ~Blank(t[v])
          /\ \E e \in v..(Len(t) - 1) :
               /\ \A k \in v..e : ~Eol(t[k])
               /\ Eol(t[e + 1])
               /\ w = SubSeq(t, v, e)

\* Of the lines that begin up to q, the one at l is the last with its name.
LastNamed(t, l, c, q) ==
  /\ NameAt(t, l, c)
  /\ \A l2 \in (l + 1)..q, c2 \in DOMAIN t :
       NameAt(t, l2, c2) => NameOf(t, l2, c2) # NameOf(t, l, c)

\* The map h has the names of the lines that begin up to q, each with its last value.
KeptUpTo(t, h, q) ==
  /\ \A name \in DOMAIN h :
       \E l \in 2..q, c \in DOMAIN t : NameAt(t, l, c) /\ name = NameOf(t, l, c)
  /\ \A l \in 2..q, c \in DOMAIN t :
       LastNamed(t, l, c, q) =>
         NameOf(t, l, c) \in DOMAIN h /\ ValueAt(t, c, h[NameOf(t, l, c)])

(* What the key of the cache is made of is that of the request up to e: the *)
(* address is its second word, all of it and nothing else, and the map, in *)
(* which the proxy looks the host up, has the names of its lines and no    *)
(* others, each with the value of the last line of that name.              *)
KeyOf(t, e, d) ==
  /\ \E b \in 1..(e - 1), i \in 1..(e - 1), j \in 1..(e - 1) :
       HeaderAt(t, b, e) /\ AddressAt(t, b, i, j) /\ d.url = SubSeq(t, i, j)
  /\ KeptUpTo(t, d.headers, e - 1)

(* When the proxy makes the key (Proxy.h:148 in lab31), which is when the  *)
(* call has returned, it is that of the request, wherever else the reads   *)
(* have split the request and whatever its lines are.  Two things are      *)
(* asked of what was read, without which it does not hold (KeyAsSent): no  *)
(* word was given to its callback in parts, as when a read ends in it or a *)
(* value is folded behind its first word; and behind the request nothing   *)
(* was read but ends of lines, for a second is written over the first.     *)
KeyRead ==
  IsRequest /\ Outcome = "done" =>
    \E e \in 1..at :
      /\ \E b \in 1..(e - 1) : HeaderAt(text, b, e)
      /\ ~torn /\ (\A k \in (e + 1)..at : Eol(text[k])) => KeyOf(text, e, data)

(* What http_parser.h:86-88 says of the callbacks, that each may be called *)
(* many times for one string, is no reason to lose a part of it: the key   *)
(* is that of the request, whatever was read when.  Other methods than GET *)
(* get no key (Proxy.h:144 in lab31).                                      *)
KeyAsSent ==
  IsRequest /\ Outcome = "done" /\ parser.method = "GET" => \E e \in 1..at : KeyOf(text, e, data)

\* How often the next symbol may yet be looked at again.
LooksLeft(s) ==
  CASE s \in {"s_header_value_lws", "s_header_value_discard_lws"} -> 4
    [] s = "s_header_field_start" -> 3
    [] s \in {"s_headers_almost_done", "s_res_status_code"} -> 2
    [] s \in {"s_res_status_start", "s_header_value", "s_body_identity"} -> 1
    [] OTHER -> 0

(* A pass through the switch consumes something, or ends the call, or      *)
(* leads to a state from which the same symbol is looked at less often:    *)
(* none is ever looked at more than five times.                            *)
PassesAdvance ==
  [][http_parser_execute =>
       \/ ~calling'
       \/ at' > at
       \/ at' = at /\ LooksLeft(parser'.state) < LooksLeft(parser.state)]_vars

(* Looking at a symbol again in another state comes to an end, so every    *)
(* call returns.                                                           *)
CallsReturn == calling ~> ~calling
=============================================================================
