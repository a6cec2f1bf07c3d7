-------------------------- MODULE HttpParserProofs --------------------------
(***************************************************************************)
(* What every call of the parser does, for every set of messages, cut into *)
(* reads of every length, and for every ULLONG_MAX and max_header_size:    *)
(* the types and the asserts, that no pass through the switch is in vain,  *)
(* where the header of a request ends, and that what the proxy makes its   *)
(* key of when the call has returned is what the text of the request says. *)
(* A pass changes a few fields of the parser; it keeps the invariant if    *)
(* what it gives them is of their types and fits the state it leaves the   *)
(* parser in.  Of a request whose header is being read each pass is one    *)
(* row of a table (LinePass, FieldPass, ValuePass, LastPass), and from     *)
(* there on only the table and the text are spoken of.  Behind the header  *)
(* only the passes that hear no word matter (QuietPass).                   *)
(***************************************************************************)
EXTENDS HttpParser, TLAPS

Fields ==
  {"type", "state", "header_state", "flags", "uses_transfer_encoding", "content_length",
   "method", "version", "status_code", "nread", "upgrade", "http_errno"}

Flags ==
  {"F_CHUNKED", "F_CONNECTION_KEEP_ALIVE", "F_CONNECTION_CLOSE", "F_CONNECTION_UPGRADE",
   "F_TRAILING", "F_UPGRADE", "F_CONTENTLENGTH"}

(* The states in which a header's name leaves the parser. *)
NameStates == {"h_connection", "h_transfer_encoding", "h_content_length", "h_upgrade"}

IsData(d) ==
  /\ DOMAIN d = {"done", "headers", "next_header_value", "url"}
  /\ d.done \in BOOLEAN

(* A parser that has not failed. *)
Typed(p) ==
  /\ DOMAIN p = Fields
  /\ p.type = message.type
  /\ p.content_length \in 0..ULLONG_MAX
  /\ p.nread \in 0..max_header_size
  /\ p.flags \subseteq Flags
  /\ p.uses_transfer_encoding \in BOOLEAN
  /\ p.upgrade \in BOOLEAN

(* What the asserts need: of the parser p in a state, its next symbol       *)
(* looked at before or not.                                                 *)
Consistent(p, looked) ==
  /\ p.state = "s_chunk_size_start" => p.nread = 0 /\ ~looked
  /\ p.state \in ChunkStates => "F_CHUNKED" \in p.flags
  /\ p.state \in ChunkStates \ {"s_chunk_size_start"} => p.content_length # ULLONG_MAX
  /\ p.state \in {"s_body_identity", "s_chunk_data"} =>
       p.content_length \notin {0, ULLONG_MAX}
  /\ p.state = "s_chunk_data_almost_done" => p.content_length = 0
  /\ p.state = "s_header_value" => p.header_state \notin NameStates

(* A call goes on only while there is a symbol to look at and no error.     *)
IInv ==
  /\ TypeOK
  /\ DOMAIN parser = Fields
  /\ IsData(data)
  /\ calling => at < upTo /\ parser.http_errno = "HPE_OK"
  /\ parser.http_errno = "HPE_OK" => Typed(parser) /\ Consistent(parser, again)

-----------------------------------------------------------------------------
(* How a call goes on *)

(* A digit is worth less than ten. *)
LEMMA Values == \A c : IsDigit(c) => Value[c] \in 0..9
BY DEF IsDigit, Value

(* The test before the next digit of a length leaves room for it. *)
LEMMA TenMore ==
  ASSUME NEW length \in Nat, ~((ULLONG_MAX - 10) \div 10 < length), NEW v \in 0..9
  PROVE  length * 10 + v \in 0..ULLONG_MAX
BY SizesAssumption

(* So does the one of a chunk's size, which stays below the unknown length. *)
LEMMA SixteenMore ==
  ASSUME NEW length \in Nat, ~((ULLONG_MAX - 16) \div 16 < length), NEW v \in 0..9
  PROVE  length * 16 + v \in 0..(ULLONG_MAX - 1)
BY SizesAssumption

(* What a pass through the switch may rely on. *)
LEMMA LooksFacts ==
  ASSUME IInv, NEW s, Looks(s)
  PROVE  /\ calling /\ parser.state = s
         /\ COUNT_HEADER_SIZE \in 0..max_header_size
         /\ at \in Nat /\ upTo \in Nat /\ at < upTo
         /\ Typed(parser) /\ Consistent(parser, again) /\ IsData(data)
         /\ parser.http_errno = "HPE_OK"
         /\ mark \in 0..upTo
BY SizesAssumption, MessagesAssumption
   DEF IInv, TypeOK, Looks, COUNT_HEADER_SIZE, Typed

(* No callback for a word touches data.done. *)
LEMMA HeardData == ASSUME IsData(data), NEW s, NEW w PROVE IsData(Heard(s, w))
BY DEF IsData, Heard, on_url_callback, on_header_field, on_header_value

(* The other callbacks set it. *)
LEMMA CompleteData ==
  ASSUME IsData(data)
  PROVE  IsData(on_headers_complete) /\ IsData(on_message_complete)
BY DEF IsData, on_headers_complete, on_message_complete

(* What a pass through the switch makes of the parser's fields. *)
Changed(change) == With([parser EXCEPT !.nread = COUNT_HEADER_SIZE], change)

Fits(change, looked) ==
  /\ "http_errno" \notin DOMAIN change
  /\ Typed(Changed(change))
  /\ Consistent(Changed(change), looked)

(* A pass whose changes fit keeps the invariant. *)
LEMMA GoesKeeps ==
  ASSUME IInv, NEW s, Looks(s), NEW change, NEW to \in at..upTo, NEW d, NEW m \in 0..upTo,
         IsData(d), Fits(change, to = at), Goes(change, to, d, m)
  PROVE  IInv'
<1> DEFINE p == Changed(change)
<1>1. /\ calling /\ at \in Nat /\ upTo \in Nat /\ at < upTo /\ parser.http_errno = "HPE_OK"
      /\ IsData(data) /\ DOMAIN parser = Fields
  BY LooksFacts DEF Typed
<1>2. parser' = p /\ Typed(p) /\ Consistent(p, to = at)
  BY DEF Goes, Fits, Changed
<1>3. p.http_errno = "HPE_OK"
  BY <1>1 DEF With, Fields, Fits, Changed
<1>4. IsData(data')
  BY <1>1, HeardData DEF Goes
<1>5. /\ at' = to /\ upTo' = upTo /\ again' = (to = at) /\ calling' = (to < upTo)
      /\ mark' \in {0, m} /\ message' = message /\ text' = text /\ closed' = closed
  BY DEF Goes
<1>6. torn' \in BOOLEAN
  <2>1. torn' = TRUE \/ torn' = (torn \/ parser.state = "s_header_value_start")
    BY Zenon DEF Goes
  <2>2. (torn \/ parser.state = "s_header_value_start") \in BOOLEAN
    BY Zenon
  <2> QED
    BY <2>1, <2>2, Zenon
<1> HIDE DEF p
<1>7. Typed(parser)' /\ Consistent(parser, again)'
  BY <1>2, <1>5 DEF Typed, Consistent
<1>8. TypeOK'
  <2>1. at' \in 0..upTo' /\ mark' \in 0..upTo'
    BY <1>1, <1>5
  <2>2. (to = at) \in BOOLEAN /\ (to < upTo) \in BOOLEAN
    OBVIOUS
  <2>3. again' \in BOOLEAN /\ calling' \in BOOLEAN
    BY <1>5, <2>2, Zenon
  <2>4. /\ message' \in Messages /\ text' = Bytes(message') /\ upTo' \in 0..Len(text')
        /\ closed' \in BOOLEAN
    BY <1>5, Zenon DEF IInv, TypeOK
  <2>5. parser'.nread \in 0..(max_header_size + 1)
    BY <1>7, SizesAssumption DEF Typed
  <2> QED
    BY <1>4, <1>7, <1>6, <2>1, <2>3, <2>4, <2>5, Zenon DEF TypeOK, Typed, IsData, Flags
<1> QED
  BY <1>1, <1>2, <1>3, <1>4, <1>5, <1>7, <1>8 DEF IInv, IsData, Typed

(* So does one that fails: there is no other after it. *)
LEMMA ErrnoKeeps ==
  ASSUME IInv, NEW error, error # "HPE_OK", calling, SET_ERRNO(error)
  PROVE  IInv'
<1>1. /\ parser' = [parser EXCEPT !.http_errno = error, !.nread = COUNT_HEADER_SIZE]
      /\ calling' = FALSE
      /\ UNCHANGED <<message, text, at, upTo, again, mark, data, torn, closed>>
      /\ IsData(data) /\ DOMAIN parser = Fields
  BY DEF SET_ERRNO, IInv
<1>2. parser.nread \in 0..max_header_size /\ COUNT_HEADER_SIZE \in 0..(max_header_size + 1)
  BY SizesAssumption DEF IInv, Typed, COUNT_HEADER_SIZE
<1>3. TypeOK'
  BY <1>1, <1>2 DEF IInv, TypeOK, Fields
<1>4. parser'.http_errno = error /\ DOMAIN parser' = Fields
  BY <1>1 DEF Fields
<1>5. IsData(data)'
  BY <1>1 DEF IsData
<1> QED
  BY <1>1, <1>3, <1>4, <1>5, Zenon DEF IInv

(* So does one that returns. *)
LEMMA ReturnsKeeps ==
  ASSUME IInv, NEW s, Looks(s), NEW change, NEW d, IsData(d), "http_errno" \notin DOMAIN change,
         Typed(With(parser, change)), Consistent(With(parser, change), again),
         Returns(change, d)
  PROVE  IInv'
<1> DEFINE p == With(parser, change)
<1>1. /\ calling /\ at \in Nat /\ upTo \in Nat /\ at < upTo /\ parser.http_errno = "HPE_OK"
      /\ DOMAIN parser = Fields
  BY LooksFacts DEF Typed
<1>2. parser' = p /\ Typed(p) /\ Consistent(p, again)
  BY DEF Returns
<1>3. p.http_errno = "HPE_OK"
  BY <1>1 DEF With, Fields
<1>4. /\ at' = at + 1 /\ calling' = FALSE /\ IsData(data')
      /\ UNCHANGED <<message, text, upTo, again, mark, torn, closed>>
  BY DEF Returns
<1> HIDE DEF p
<1>5. Typed(parser)' /\ Consistent(parser, again)'
  BY <1>2, <1>4 DEF Typed, Consistent
<1>6. /\ again' \in BOOLEAN /\ torn' \in BOOLEAN /\ closed' \in BOOLEAN
      /\ message' \in Messages /\ text' = Bytes(message')
      /\ upTo' \in 0..Len(text') /\ mark' \in 0..upTo'
  BY <1>4, Zenon DEF IInv, TypeOK
<1>7. TypeOK'
  <2>1. at' \in 0..upTo'
    BY <1>1, <1>4
  <2>3. calling' \in BOOLEAN
    BY <1>4, Zenon
  <2>2. parser'.nread \in 0..(max_header_size + 1)
    BY <1>5, SizesAssumption DEF Typed
  <2> QED
    BY <1>4, <1>5, <1>6, <2>1, <2>2, <2>3, Zenon DEF TypeOK, Typed, IsData, Flags
<1> QED
  BY <1>3, <1>4, <1>5, <1>7, <1>2 DEF IInv, IsData, Typed

(* The states Consistent says something of. *)
Guarded == ChunkStates \cup {"s_body_identity", "s_header_value"}

(* Fields with values of their types. *)
TypedFields(c) ==
  /\ DOMAIN c \subseteq Fields \ {"type", "http_errno"}
  /\ "content_length" \in DOMAIN c => c.content_length \in 0..ULLONG_MAX
  /\ "nread" \in DOMAIN c => c.nread \in 0..max_header_size
  /\ "flags" \in DOMAIN c => c.flags \subseteq Flags
  /\ "uses_transfer_encoding" \in DOMAIN c => c.uses_transfer_encoding \in BOOLEAN
  /\ "upgrade" \in DOMAIN c => c.upgrade \in BOOLEAN

(* Values of their types leave a parser of its type. *)
LEMMA ChangedTyped ==
  ASSUME IInv, NEW s, Looks(s), NEW c, TypedFields(c)
  PROVE  Typed(Changed(c)) /\ "http_errno" \notin DOMAIN c
<1>1. Typed(parser) /\ COUNT_HEADER_SIZE \in 0..max_header_size
  BY LooksFacts
<1>2. \A f \in Fields \ {"nread"} :
        Changed(c)[f] = IF f \in DOMAIN c THEN c[f] ELSE parser[f]
  BY <1>1 DEF Changed, With, Typed
<1>3. Changed(c).nread = IF "nread" \in DOMAIN c THEN c.nread ELSE COUNT_HEADER_SIZE
  BY <1>1 DEF Changed, With, Typed, Fields
<1>4. DOMAIN Changed(c) = Fields
  BY <1>1 DEF Changed, With, Typed
<1>5. "http_errno" \notin DOMAIN c /\ "type" \notin DOMAIN c
  BY DEF TypedFields
<1>6. /\ Changed(c).type = message.type
      /\ Changed(c).content_length \in 0..ULLONG_MAX
      /\ Changed(c).flags \subseteq Flags
      /\ Changed(c).nread \in 0..max_header_size
  BY <1>1, <1>2, <1>3, <1>5 DEF Typed, Fields, TypedFields
<1>7. Changed(c).uses_transfer_encoding \in BOOLEAN /\ Changed(c).upgrade \in BOOLEAN
  BY <1>1, <1>2 DEF Typed, Fields, TypedFields
<1> QED
  BY <1>4, <1>5, <1>6, <1>7, Zenon DEF Typed

(* Nothing but types matters on the way to another state. *)
LEMMA FitsUnguarded ==
  ASSUME IInv, NEW s, Looks(s), NEW c, TypedFields(c), NEW looked,
         "state" \in DOMAIN c, c.state \notin Guarded
  PROVE  Fits(c, looked)
<1>1. Typed(Changed(c)) /\ "http_errno" \notin DOMAIN c
  BY ChangedTyped
<1>2. Changed(c).state = c.state
  BY LooksFacts DEF Changed, With, Typed, Fields
<1>3. Consistent(Changed(c), looked)
  BY <1>2 DEF Consistent, Guarded, ChunkStates
<1> QED
  BY <1>1, <1>3 DEF Fits

(* Such a pass keeps the invariant. *)
LEMMA GoesOn ==
  ASSUME IInv, NEW s, Looks(s), NEW c, TypedFields(c), "state" \in DOMAIN c, c.state \notin Guarded,
         NEW to \in at..upTo, NEW d, IsData(d), NEW m \in 0..upTo, Goes(c, to, d, m)
  PROVE  IInv'
BY FitsUnguarded, GoesKeeps

(* The same, by the name of the macro. *)
LEMMA Passes ==
  ASSUME IInv, NEW s, Looks(s), NEW c, TypedFields(c), "state" \in DOMAIN c, c.state \notin Guarded,
         \/ Takes(c) \/ Reexecutes(c) \/ Marks(c) \/ CALLBACK_DATA(c) \/ CALLBACK_DATA_NOADVANCE(c)
  PROVE  IInv'
<1>1. /\ at \in at..upTo /\ at + 1 \in at..upTo /\ 0 \in 0..upTo /\ at + 1 \in 0..upTo
      /\ mark \in 0..upTo /\ IsData(data)
  BY LooksFacts
<1>2. CASE Takes(c)
  BY <1>1, <1>2, GoesOn DEF Takes
<1>3. CASE Reexecutes(c)
  BY <1>1, <1>3, GoesOn DEF Reexecutes
<1>4. CASE Marks(c)
  BY <1>1, <1>4, GoesOn DEF Marks
<1>5. CASE CALLBACK_DATA(c)
  BY <1>1, <1>5, GoesOn, HeardData DEF CALLBACK_DATA
<1>6. CASE CALLBACK_DATA_NOADVANCE(c)
  BY <1>1, <1>6, GoesOn, HeardData DEF CALLBACK_DATA_NOADVANCE
<1> QED
  BY <1>2, <1>3, <1>4, <1>5, <1>6

(* The same, when only the state changes. *)
LEMMA OtherState ==
  ASSUME IInv, NEW s, Looks(s), NEW next, next \notin Guarded,
         \/ Takes([state |-> next]) \/ Reexecutes([state |-> next]) \/ Marks([state |-> next])
         \/ CALLBACK_DATA([state |-> next]) \/ CALLBACK_DATA_NOADVANCE([state |-> next])
  PROVE  IInv'
<1> DEFINE c == [state |-> next]
<1>1. TypedFields(c) /\ "state" \in DOMAIN c /\ c.state \notin Guarded
  BY DEF TypedFields, Fields
<1> HIDE DEF c
<1>2. Takes(c) \/ Reexecutes(c) \/ Marks(c) \/ CALLBACK_DATA(c) \/ CALLBACK_DATA_NOADVANCE(c)
  BY DEF c
<1> QED
  BY <1>1, <1>2, Passes

(* A pass that takes one symbol and refuses any other. *)
LEMMA Expecting ==
  ASSUME IInv, NEW s, Looks(s), NEW symbol, NEW next, next \notin Guarded,
         NEW error, error # "HPE_OK", Expects(symbol, next, error)
  PROVE  IInv'
BY OtherState, ErrnoKeeps DEF Expects, Looks

(* A pass that takes its symbol, into any state it fits. *)
LEMMA TakesKeeps ==
  ASSUME IInv, NEW s, Looks(s), NEW change, Fits(change, FALSE),
         Takes(change) \/ Marks(change) \/ CALLBACK_DATA(change)
  PROVE  IInv'
<1>1. /\ at \in Nat /\ at + 1 \in at..upTo /\ {0, at + 1, mark} \subseteq 0..upTo
      /\ IsData(data)
  BY LooksFacts
<1>2. (at + 1 = at) = FALSE
  BY <1>1
<1> QED
  BY <1>1, <1>2, HeardData, GoesKeeps DEF Takes, Marks, CALLBACK_DATA

-----------------------------------------------------------------------------
(* The first line *)

(* An address goes on within the states of addresses, or is dead. *)
LEMMA ParseResult == \A s, c : parse_url_char(s, c) \in UrlStates \cup {"s_dead"}
<1> SUFFICES ASSUME NEW s, NEW c
             PROVE  parse_url_char(s, c) \in UrlStates \cup {"s_dead"}
  OBVIOUS
<1> DEFINE nexts == {next \in UrlStates : UrlRule(s, c, next)}
<1>1. parse_url_char(s, c) = IF nexts = {} THEN "s_dead" ELSE CHOOSE next \in nexts : TRUE
  BY DEF parse_url_char
<1>2. nexts # {} => (CHOOSE next \in nexts : TRUE) \in nexts
  OBVIOUS
<1> QED
  BY <1>1, <1>2

(* Those are of no moment to Consistent. *)
LEMMA UrlStatesPlain == \A s \in UrlStates \cup {"s_dead"} : s \notin Guarded
BY DEF UrlStates, SchemaStates, ServerStates, QueryStates, FragmentStates, Guarded, ChunkStates

(* No pass over the first line breaks the invariant. *)
LEMMA FirstLineKeeps == IInv /\ FirstLine => IInv'
<1> SUFFICES ASSUME IInv, FirstLine PROVE IInv'
  OBVIOUS
<1> USE DEF Guarded, ChunkStates, Stays
<1>1. CASE s_dead
  BY <1>1, OtherState, ErrnoKeeps DEF s_dead, Looks
<1>2. CASE s_start_res
  <2> DEFINE c == [state |-> "s_res_http_end", version |-> ch, flags |-> {},
                   uses_transfer_encoding |-> FALSE, content_length |-> ULLONG_MAX]
  <2>1. Looks("s_start_res")
    BY <1>2 DEF s_start_res
  <2>2. TypedFields(c) /\ "state" \in DOMAIN c /\ c.state \notin Guarded
    BY SizesAssumption DEF TypedFields, Fields
  <2>3. Takes(c) => IInv'
    BY <2>1, <2>2, Passes
  <2> QED
    BY <1>2, <2>1, <2>3, OtherState, ErrnoKeeps DEF s_start_res, Looks
<1>3. CASE s_res_http_end
  BY <1>3, Expecting DEF s_res_http_end
<1>4. CASE s_res_first_status_code
  <2> DEFINE c == [state |-> "s_res_status_code", status_code |-> ch]
  <2>1. Looks("s_res_first_status_code")
    BY <1>4 DEF s_res_first_status_code
  <2>2. TypedFields(c) /\ "state" \in DOMAIN c /\ c.state \notin Guarded
    BY DEF TypedFields, Fields
  <2>3. Takes(c) => IInv'
    BY <2>1, <2>2, Passes
  <2> QED
    BY <1>4, <2>1, <2>3, OtherState, ErrnoKeeps DEF s_res_first_status_code, Looks
<1>5. CASE s_res_status_code
  <2>1. Looks("s_res_status_code") /\ calling
    BY <1>5 DEF s_res_status_code, Looks
  <2>2. \/ Takes([state |-> "s_res_status_start"]) \/ Reexecutes([state |-> "s_res_status_start"])
        \/ SET_ERRNO("HPE_INVALID_STATUS")
    BY <1>5 DEF s_res_status_code
  <2> QED
    BY <2>1, <2>2, OtherState, ErrnoKeeps
<1>6. CASE s_res_status_start
  BY <1>6, OtherState DEF s_res_status_start, Looks
<1>7. CASE s_res_status
  BY <1>7, OtherState DEF s_res_status, Looks
<1>8. CASE s_res_line_almost_done
  BY <1>8, Expecting DEF s_res_line_almost_done
<1>9. CASE s_start_req
  <2> DEFINE c == [state |-> "s_req_method", method |-> ch, flags |-> {},
                   uses_transfer_encoding |-> FALSE, content_length |-> ULLONG_MAX]
  <2>1. Looks("s_start_req")
    BY <1>9 DEF s_start_req
  <2>2. TypedFields(c) /\ "state" \in DOMAIN c /\ c.state \notin Guarded
    BY SizesAssumption DEF TypedFields, Fields
  <2>3. Takes(c) => IInv'
    BY <2>1, <2>2, Passes
  <2> QED
    BY <1>9, <2>1, <2>3, OtherState, ErrnoKeeps DEF s_start_req, Looks
<1>10. CASE s_req_method
  BY <1>10, Expecting DEF s_req_method
<1>11. CASE s_req_spaces_before_url
  <2> DEFINE from == IF parser.method = "CONNECT" THEN "s_req_server_start" ELSE parser.state
             next == parse_url_char(from, ch)
  <2>1. Looks("s_req_spaces_before_url")
    BY <1>11 DEF s_req_spaces_before_url
  <2>2. next \notin Guarded
    BY ParseResult, UrlStatesPlain
  <2>3. \/ Takes([state |-> "s_req_spaces_before_url"])
        \/ SET_ERRNO("HPE_INVALID_URL")
        \/ Marks([state |-> next])
    BY <1>11 DEF s_req_spaces_before_url, Looks
  <2> HIDE DEF next
  <2> QED
    BY <2>1, <2>2, <2>3, OtherState, ErrnoKeeps DEF Looks
<1>12. ASSUME NEW s \in UrlStates, s_req_url(s) PROVE IInv'
  <2> DEFINE next == parse_url_char(s, ch)
             after == IF ch = "CR" THEN "s_req_line_almost_done" ELSE "s_header_field_start"
             c == [state |-> after, version |-> "HTTP/0.9"]
  <2>1. Looks(s)
    BY <1>12 DEF s_req_url
  <2>2. next \notin Guarded
    BY ParseResult, UrlStatesPlain
  <2>3. TypedFields(c) /\ "state" \in DOMAIN c /\ c.state \notin Guarded
    BY DEF TypedFields, Fields
  <2>4. CALLBACK_DATA(c) => IInv'
    BY <2>1, <2>3, Passes
  <2>5. \/ CALLBACK_DATA([state |-> "s_req_http_start"])
        \/ CALLBACK_DATA(c)
        \/ SET_ERRNO("HPE_INVALID_URL")
        \/ Takes([state |-> next])
    BY <1>12 DEF s_req_url
  <2> HIDE DEF next, c
  <2> QED
    BY <2>1, <2>2, <2>4, <2>5, OtherState, ErrnoKeeps DEF Looks
<1>13. CASE s_req_http_start
  <2> DEFINE c == [state |-> "s_req_http_end", version |-> ch]
  <2>1. Looks("s_req_http_start")
    BY <1>13 DEF s_req_http_start
  <2>2. TypedFields(c) /\ "state" \in DOMAIN c /\ c.state \notin Guarded
    BY DEF TypedFields, Fields
  <2>3. Takes(c) => IInv'
    BY <2>1, <2>2, Passes
  <2> QED
    BY <1>13, <2>1, <2>3, OtherState, ErrnoKeeps DEF s_req_http_start, Looks
<1>14. CASE s_req_http_end
  BY <1>14, OtherState, ErrnoKeeps DEF s_req_http_end, Looks
<1>15. CASE s_req_line_almost_done
  BY <1>15, Expecting DEF s_req_line_almost_done
<1> QED
  BY <1>1, <1>2, <1>3, <1>4, <1>5, <1>6, <1>7, <1>8, <1>9, <1>10, <1>11, <1>12, <1>13,
     <1>14, <1>15 DEF FirstLine

-----------------------------------------------------------------------------
(* The header's other lines *)

(* What values set are flags, and no word of a list leads back to a name. *)
LEMMA FlagsOfValues ==
  /\ \A h : ConnectionFlag(h) \subseteq Flags
  /\ \A w : EncodingState(w) \notin NameStates /\ ConnectionState(w) \notin NameStates
BY DEF ConnectionFlag, Flags, EncodingState, ConnectionState, NameStates

(* A value is never read on in the state its name has left. *)
LEMMA ValueStates == \A h, w : ValueState(h, w) \notin NameStates
<1> SUFFICES ASSUME NEW h, NEW w PROVE ValueState(h, w) \notin NameStates
  OBVIOUS
<1>1. h \in NameStates => ConnectionFlag(h) = {}
  BY DEF ConnectionFlag, NameStates
<1> QED
  BY <1>1, FlagsOfValues DEF ValueState, NameStates

(* What a line leaves behind are flags. *)
LEMMA Finished == IInv /\ parser.http_errno = "HPE_OK" => FinishedFlags \subseteq Flags
BY FlagsOfValues DEF FinishedFlags, IInv, Typed, Flags

(* Into the value of a header, or on in it. *)
LEMMA InValue ==
  ASSUME IInv, NEW s, Looks(s), NEW c, TypedFields(c), "header_state" \in DOMAIN c,
         c.header_state \notin NameStates,
         Changed(c).state = "s_header_value",
         Takes(c) \/ Marks(c)
  PROVE  IInv'
<1>1. Typed(Changed(c)) /\ "http_errno" \notin DOMAIN c
  BY ChangedTyped
<1>2. Changed(c).header_state = c.header_state
  BY LooksFacts DEF Changed, With, Typed, Fields
<1>3. Consistent(Changed(c), FALSE)
  BY <1>2 DEF Consistent, ChunkStates
<1> QED
  BY <1>1, <1>3, TakesKeeps DEF Fits

(* The value's first symbol. *)
LEMMA ValueStarts ==
  ASSUME IInv, NEW s, Looks(s), NEW c, TypedFields(c), "header_state" \in DOMAIN c,
         "state" \in DOMAIN c, c.state = "s_header_value",
         c.header_state \notin NameStates, Marks(c)
  PROVE  IInv'
<1>1. Changed(c).state = "s_header_value"
  BY LooksFacts DEF Changed, With, Typed, Fields
<1> QED
  BY <1>1, InValue

(* h_content_length takes a digit or fails; the others leave the state of the name. *)
LEMMA HeaderValueStart == IInv /\ s_header_value_start => IInv'
<1> SUFFICES ASSUME IInv, s_header_value_start PROVE IInv'
  OBVIOUS
<1> DEFINE h == parser.header_state
           Value1(state) == [state |-> "s_header_value", header_state |-> state]
           up == [state |-> "s_header_value", header_state |-> "h_general",
                  flags |-> parser.flags \cup {"F_UPGRADE"}]
           length == [state |-> "s_header_value", header_state |-> "h_content_length_num",
                      flags |-> parser.flags \cup {"F_CONTENTLENGTH"},
                      content_length |-> Value[ch]]
<1>1. PICK s : Looks(s)
  BY DEF s_header_value_start
<1>2. calling /\ parser.flags \subseteq Flags
  BY <1>1, LooksFacts DEF Typed
<1>3. ASSUME NEW state, state \notin NameStates, Marks(Value1(state)) PROVE IInv'
  <2>1. /\ TypedFields(Value1(state)) /\ {"state", "header_state"} \subseteq DOMAIN Value1(state)
        /\ Value1(state).state = "s_header_value" /\ Value1(state).header_state = state
    BY DEF TypedFields, Fields
  <2> HIDE DEF Value1
  <2> QED
    BY <1>1, <1>3, <2>1, ValueStarts
<1>4. CASE Marks(up)
  <2>1. /\ TypedFields(up) /\ {"state", "header_state"} \subseteq DOMAIN up
        /\ up.state = "s_header_value" /\ up.header_state \notin NameStates
    BY <1>2 DEF TypedFields, Fields, Flags, NameStates
  <2> HIDE DEF up
  <2> QED
    BY <1>1, <1>4, <2>1, ValueStarts
<1>5. CASE IsDigit(ch) /\ Marks(length)
  <2>1. Value[ch] \in 0..ULLONG_MAX
    BY <1>5, Values, SizesAssumption
  <2>2. /\ TypedFields(length) /\ {"state", "header_state"} \subseteq DOMAIN length
        /\ length.state = "s_header_value" /\ length.header_state \notin NameStates
    BY <1>2, <2>1 DEF TypedFields, Fields, Flags, NameStates
  <2> HIDE DEF length
  <2> QED
    BY <1>1, <1>5, <2>2, ValueStarts
<1>6. CASE h = "h_upgrade"
  <2>1. Marks(up)
    BY <1>6 DEF s_header_value_start
  <2> QED
    BY <1>4, <2>1
<1>7. CASE h = "h_content_length"
  <2>1. \/ SET_ERRNO("HPE_INVALID_CONTENT_LENGTH") \/ SET_ERRNO("HPE_UNEXPECTED_CONTENT_LENGTH")
        \/ IsDigit(ch) /\ Marks(length)
    BY <1>7 DEF s_header_value_start
  <2> HIDE DEF length
  <2> QED
    BY <1>2, <1>5, <2>1, ErrnoKeeps
<1>8. CASE h # "h_upgrade" /\ h # "h_content_length"
  <2>1. PICK state : state \notin NameStates /\ Marks(Value1(state))
    <3>1. CASE h \in {"h_transfer_encoding", "h_connection"}
      BY <3>1, FlagsOfValues DEF s_header_value_start
    <3>2. CASE h \in {"h_matching_transfer_encoding_token_start", "h_content_length_ws",
                      "h_matching_connection_token_start"}
      BY <3>2 DEF s_header_value_start, NameStates
    <3>3. CASE h \notin NameStates \cup {"h_matching_transfer_encoding_token_start",
                      "h_content_length_ws", "h_matching_connection_token_start"}
      BY <3>3 DEF s_header_value_start, NameStates
    <3> QED
      BY <1>8, <3>1, <3>2, <3>3 DEF NameStates
  <2> QED
    BY <1>3, <2>1
<1> QED
  BY <1>6, <1>7, <1>8

(* The beginning of a name. *)
LEMMA HeaderFieldStart == IInv /\ s_header_field_start => IInv'
<1> SUFFICES ASSUME IInv, s_header_field_start PROVE IInv'
  OBVIOUS
<1> DEFINE c == [state |-> "s_header_field", header_state |-> NameState(ch),
                 uses_transfer_encoding |->
                   parser.uses_transfer_encoding \/ ch = "transfer-encoding"]
<1>1. Looks("s_header_field_start") /\ calling
  BY DEF s_header_field_start, Looks
<1>2. TypedFields(c) /\ "state" \in DOMAIN c /\ c.state \notin Guarded
  BY DEF TypedFields, Fields, Guarded, ChunkStates
<1>3. \/ Takes([state |-> "s_headers_almost_done"])
      \/ Reexecutes([state |-> "s_headers_almost_done"])
      \/ SET_ERRNO("HPE_INVALID_HEADER_TOKEN") \/ Marks(c)
  BY DEF s_header_field_start
<1>4. Marks(c) => IInv'
  BY <1>1, <1>2, Passes
<1> HIDE DEF c
<1> QED
  BY <1>1, <1>3, <1>4, OtherState, ErrnoKeeps DEF Guarded, ChunkStates

(* The rest of a name. *)
LEMMA HeaderField == IInv /\ s_header_field => IInv'
<1> SUFFICES ASSUME IInv, s_header_field PROVE IInv'
  OBVIOUS
<1> DEFINE c == [header_state |-> "h_general"]
<1>1. Looks("s_header_field") /\ calling
  BY DEF s_header_field, Looks
<1>2. TypedFields(c) /\ "state" \notin DOMAIN c
  BY DEF TypedFields, Fields
<1>3. Changed(c).state = "s_header_field"
  BY <1>1, <1>2, LooksFacts DEF Changed, With, Typed, Fields
<1>4. Consistent(Changed(c), FALSE)
  BY <1>3 DEF Consistent, ChunkStates
<1>5. Takes(c) => IInv'
  BY <1>1, <1>2, <1>4, ChangedTyped, TakesKeeps DEF Fits
<1>6. \/ Takes(c) \/ CALLBACK_DATA([state |-> "s_header_value_discard_ws"])
      \/ SET_ERRNO("HPE_INVALID_HEADER_TOKEN")
  BY DEF s_header_field
<1> HIDE DEF c
<1> QED
  BY <1>1, <1>5, <1>6, OtherState, ErrnoKeeps DEF Guarded, ChunkStates

(* The rest of a value: a length grows only when there is room for the digit. *)
LEMMA HeaderValue == IInv /\ s_header_value => IInv'
<1> SUFFICES ASSUME IInv, s_header_value PROVE IInv'
  OBVIOUS
<1> DEFINE h == parser.header_state
           ws == [header_state |-> "h_content_length_ws"]
           digit == [content_length |-> parser.content_length * 10 + Value[ch]]
           stay == [state |-> parser.state]
           on == [header_state |-> ValueState(h, ch),
                  flags |-> IF ch = "," THEN parser.flags \cup ConnectionFlag(h)
                            ELSE parser.flags]
<1>1. Looks("s_header_value") /\ calling
  BY DEF s_header_value, Looks
<1>2. /\ parser.state = "s_header_value" /\ parser.content_length \in 0..ULLONG_MAX
      /\ parser.flags \subseteq Flags /\ h \notin NameStates /\ DOMAIN parser = Fields
  BY <1>1, LooksFacts DEF Typed, Consistent
<1>3. Takes(ws) => IInv'
  <2>1. TypedFields(ws) /\ "header_state" \in DOMAIN ws /\ ws.header_state \notin NameStates
    BY DEF TypedFields, Fields, NameStates
  <2>2. Changed(ws).state = "s_header_value"
    BY <1>2 DEF Changed, With, Fields
  <2> HIDE DEF ws
  <2> QED
    BY <1>1, <2>1, <2>2, InValue
<1>4. Takes(on) => IInv'
  <2>1. TypedFields(on) /\ "header_state" \in DOMAIN on
    BY <1>2, FlagsOfValues DEF TypedFields, Fields
  <2>2. Changed(on).state = "s_header_value" /\ on.header_state = ValueState(h, ch)
    BY <1>2 DEF Changed, With, Fields
  <2>3. on.header_state \notin NameStates
    BY <2>2, ValueStates
  <2> HIDE DEF on
  <2> QED
    BY <1>1, <2>1, <2>2, <2>3, InValue
<1>5. ASSUME NEW c, TypedFields(c), "header_state" \notin DOMAIN c,
             Changed(c).state = "s_header_value", Takes(c)
      PROVE  IInv'
  <2>1. Changed(c).header_state = h
    BY <1>2, <1>5 DEF Changed, With, Fields
  <2>2. Consistent(Changed(c), FALSE)
    BY <1>2, <1>5, <2>1 DEF Consistent, ChunkStates
  <2>3. Typed(Changed(c)) /\ "http_errno" \notin DOMAIN c
    BY <1>1, <1>5, ChangedTyped
  <2> QED
    BY <1>1, <1>5, <2>2, <2>3, TakesKeeps DEF Fits
<1>6. Takes(stay) => IInv'
  <2>1. TypedFields(stay) /\ "header_state" \notin DOMAIN stay
    BY DEF TypedFields, Fields
  <2>2. Changed(stay).state = "s_header_value"
    BY <1>2 DEF Changed, With, Fields
  <2> HIDE DEF stay
  <2> QED
    BY <1>5, <2>1, <2>2
<1>7. ContentLength => IInv'
  <2>1. CASE SET_ERRNO("HPE_INVALID_CONTENT_LENGTH")
    BY <1>1, <2>1, ErrnoKeeps
  <2>2. CASE /\ Takes(digit) /\ IsDigit(ch)
             /\ ~((ULLONG_MAX - 10) \div 10 < parser.content_length)
    <3>1. Value[ch] \in 0..9
      BY <2>2, Values
    <3>2. parser.content_length * 10 + Value[ch] \in 0..ULLONG_MAX
      BY <1>2, <2>2, <3>1, TenMore
    <3>3. TypedFields(digit) /\ "header_state" \notin DOMAIN digit
      BY <3>2 DEF TypedFields, Fields
    <3>4. Changed(digit).state = "s_header_value"
      BY <1>2 DEF Changed, With, Fields
    <3> HIDE DEF digit
    <3> QED
      BY <1>5, <2>2, <3>3, <3>4
  <2> QED
    BY <2>1, <2>2 DEF ContentLength
<1>8. \/ CALLBACK_DATA([state |-> "s_header_almost_done"])
      \/ CALLBACK_DATA_NOADVANCE([state |-> "s_header_almost_done"])
      \/ SET_ERRNO("HPE_INVALID_HEADER_TOKEN") \/ SET_ERRNO("HPE_INVALID_CONTENT_LENGTH")
      \/ Takes(ws) \/ ContentLength \/ Takes(stay) \/ Takes(on)
  BY DEF s_header_value, Stays
<1> HIDE DEF ws, stay, on
<1> QED
  BY <1>1, <1>3, <1>4, <1>6, <1>7, <1>8, OtherState, ErrnoKeeps DEF Guarded, ChunkStates

(* The line after a value. *)
LEMMA HeaderValueLws == IInv /\ s_header_value_lws => IInv'
<1> SUFFICES ASSUME IInv, s_header_value_lws PROVE IInv'
  OBVIOUS
<1> DEFINE folded == [state |-> "s_header_value_start",
                      header_state |-> IF parser.header_state = "h_content_length_num"
                                       THEN "h_content_length_ws" ELSE parser.header_state]
           next == [state |-> "s_header_field_start", flags |-> FinishedFlags]
<1>1. Looks("s_header_value_lws")
  BY DEF s_header_value_lws
<1>2. TypedFields(folded) /\ "state" \in DOMAIN folded /\ folded.state \notin Guarded
  BY DEF TypedFields, Fields, Guarded, ChunkStates
<1>3. TypedFields(next) /\ "state" \in DOMAIN next /\ next.state \notin Guarded
  BY <1>1, LooksFacts, Finished DEF TypedFields, Fields, Guarded, ChunkStates
<1>4. Reexecutes(folded) \/ Reexecutes(next)
  BY DEF s_header_value_lws
<1> HIDE DEF folded, next
<1> QED
  BY <1>1, <1>2, <1>3, <1>4, Passes

(* The line after an empty value. *)
LEMMA HeaderValueDiscardLws == IInv /\ s_header_value_discard_lws => IInv'
<1> SUFFICES ASSUME IInv, s_header_value_discard_lws PROVE IInv'
  OBVIOUS
<1> DEFINE next == [state |-> "s_header_field_start", flags |-> FinishedFlags]
           d == Heard(parser.state, <<>>)
<1>1. Looks("s_header_value_discard_lws") /\ calling
  BY DEF s_header_value_discard_lws, Looks
<1>2. TypedFields(next) /\ "state" \in DOMAIN next /\ next.state \notin Guarded
  BY <1>1, LooksFacts, Finished DEF TypedFields, Fields, Guarded, ChunkStates
<1>3. at \in at..upTo /\ 0 \in 0..upTo /\ IsData(d)
  BY <1>1, LooksFacts, HeardData
<1>4. \/ Takes([state |-> "s_header_value_discard_ws"])
      \/ SET_ERRNO("HPE_INVALID_CONTENT_LENGTH") \/ Goes(next, at, d, 0)
  BY DEF s_header_value_discard_lws
<1> HIDE DEF next, d
<1> QED
  BY <1>1, <1>2, <1>3, <1>4, GoesOn, OtherState, ErrnoKeeps DEF Guarded, ChunkStates

(* The line end that ends the header. *)
LEMMA HeadersAlmostDone == IInv /\ s_headers_almost_done => IInv'
<1> SUFFICES ASSUME IInv, s_headers_almost_done PROVE IInv'
  OBVIOUS
<1> DEFINE up == IF {"F_UPGRADE", "F_CONNECTION_UPGRADE"} \subseteq parser.flags
                 THEN IsRequest \/ parser.status_code = "101"
                 ELSE parser.method = "CONNECT"
           c == [state |-> "s_headers_done", upgrade |-> up]
<1>1. Looks("s_headers_almost_done") /\ calling
  BY DEF s_headers_almost_done, Looks
<1>2. up \in BOOLEAN
  BY DEF IsRequest
<1>3. \/ SET_ERRNO("HPE_STRICT") \/ Reexecutes([state |-> "s_message_done"])
      \/ SET_ERRNO("HPE_UNEXPECTED_CONTENT_LENGTH") \/ Goes(c, at, on_headers_complete, 0)
  BY DEF s_headers_almost_done
<1> HIDE DEF up
<1>4. TypedFields(c) /\ "state" \in DOMAIN c /\ c.state \notin Guarded
  BY <1>2 DEF TypedFields, Fields, Guarded, ChunkStates
<1>5. at \in at..upTo /\ 0 \in 0..upTo /\ IsData(on_headers_complete)
  BY <1>1, LooksFacts, CompleteData
<1> HIDE DEF c
<1> QED
  BY <1>1, <1>3, <1>4, <1>5, GoesOn, OtherState, ErrnoKeeps DEF Guarded, ChunkStates

(* After a message there is another, or the connection is dead. *)
LEMMA NewMessage == NEW_MESSAGE \in {"s_start_req", "s_start_res", "s_dead"}
BY DEF NEW_MESSAGE, start_state

(* A body is read only with a length, or chunked with the flag, or until the end. *)
LEMMA HeadersDone == IInv /\ s_headers_done => IInv'
<1> SUFFICES ASSUME IInv, s_headers_done PROVE IInv'
  OBVIOUS
<1> DEFINE Ends == [state |-> NEW_MESSAGE, nread |-> 0]
           Starts(state) == [state |-> state, nread |-> 0]
<1>1. Looks("s_headers_done") /\ calling
  BY DEF s_headers_done, Looks
<1>2. /\ at + 1 \in at..upTo /\ 0 \in 0..upTo /\ IsData(on_message_complete)
      /\ Typed(parser) /\ DOMAIN parser = Fields
  BY <1>1, LooksFacts, CompleteData DEF Typed
<1>3. TypedFields(Ends) /\ "state" \in DOMAIN Ends /\ Ends.state \notin Guarded
  BY SizesAssumption, NewMessage DEF TypedFields, Fields, Guarded, ChunkStates
<1>4. Goes(Ends, at + 1, on_message_complete, 0) => IInv'
  <2> HIDE DEF Ends
  <2> QED
    BY <1>1, <1>2, <1>3, GoesOn
<1>5. Returns(Ends, on_message_complete) => IInv'
  <2>1. Typed(With(parser, Ends)) /\ "http_errno" \notin DOMAIN Ends
    BY <1>2, SizesAssumption DEF Typed, With, Fields
  <2>2. With(parser, Ends).state \notin Guarded
    BY <1>2, NewMessage DEF With, Fields, Guarded, ChunkStates
  <2>3. Consistent(With(parser, Ends), again)
    BY <2>2 DEF Consistent, Guarded, ChunkStates
  <2> HIDE DEF Ends
  <2> QED
    BY <1>1, <1>2, <2>1, <2>3, ReturnsKeeps
<1>6. ASSUME NEW state, Takes(Starts(state)),
             \/ state = "s_chunk_size_start" /\ "F_CHUNKED" \in parser.flags
             \/ state = "s_body_identity" /\ parser.content_length \notin {0, ULLONG_MAX}
             \/ state = "s_body_identity_eof"
      PROVE  IInv'
  <2>1. TypedFields(Starts(state))
    BY SizesAssumption DEF TypedFields, Fields
  <2>2. /\ Changed(Starts(state)).state = state /\ Changed(Starts(state)).nread = 0
        /\ Changed(Starts(state)).flags = parser.flags
        /\ Changed(Starts(state)).content_length = parser.content_length
    BY <1>2 DEF Changed, With, Fields
  <2> HIDE DEF Starts
  <2>3. Consistent(Changed(Starts(state)), FALSE)
    BY <1>6, <2>2 DEF Consistent, ChunkStates
  <2>4. Typed(Changed(Starts(state))) /\ "http_errno" \notin DOMAIN Starts(state)
    BY <1>1, <2>1, ChangedTyped
  <2> QED
    BY <1>1, <1>6, <2>3, <2>4, TakesKeeps DEF Fits
<1>7. \/ Returns(Ends, on_message_complete) \/ SET_ERRNO("HPE_INVALID_TRANSFER_ENCODING")
      \/ Goes(Ends, at + 1, on_message_complete, 0)
      \/ "F_CHUNKED" \in parser.flags /\ Takes(Starts("s_chunk_size_start"))
      \/ parser.content_length \notin {0, ULLONG_MAX} /\ Takes(Starts("s_body_identity"))
      \/ Takes(Starts("s_body_identity_eof"))
  BY DEF s_headers_done, Begins, hasBody
<1> HIDE DEF Ends, Starts
<1> QED
  BY <1>1, <1>4, <1>5, <1>6, <1>7, ErrnoKeeps

(* No pass over the other lines breaks the invariant. *)
LEMMA HeaderLinesKeep == IInv /\ HeaderLines => IInv'
<1> SUFFICES ASSUME IInv, HeaderLines PROVE IInv'
  OBVIOUS
<1>1. CASE s_header_value_discard_ws
  <2>1. Looks("s_header_value_discard_ws") /\ parser.state = "s_header_value_discard_ws"
    BY <1>1 DEF s_header_value_discard_ws, Looks
  <2>2. PICK next \in {"s_header_value_discard_ws", "s_header_value_discard_ws_almost_done",
                       "s_header_value_discard_lws"} : Takes([state |-> next])
    BY <1>1, <2>1 DEF s_header_value_discard_ws, Stays
  <2> QED
    BY <2>1, <2>2, OtherState DEF Guarded, ChunkStates
<1>2. CASE s_header_almost_done
  BY <1>2, Expecting DEF s_header_almost_done, Guarded, ChunkStates
<1>3. CASE s_header_value_discard_ws_almost_done
  BY <1>3, Expecting DEF s_header_value_discard_ws_almost_done, Guarded, ChunkStates
<1> QED
  BY <1>1, <1>2, <1>3, HeaderFieldStart, HeaderField, HeaderValueStart, HeaderValue,
     HeaderValueLws, HeaderValueDiscardLws, HeadersAlmostDone, HeadersDone DEF HeaderLines

-----------------------------------------------------------------------------
(* The body *)

(* A pass reads at least one byte of the body, and no more than there are. *)
LEMMA ToRead ==
  ASSUME IInv, NEW s \in {"s_body_identity", "s_chunk_data"}, Looks(s)
  PROVE  /\ to_read \in 1..(upTo - at) /\ BodyLeft \in 0..(ULLONG_MAX - 1)
         /\ at + to_read \in at..upTo /\ at + to_read - 1 \in at..upTo
<1>1. /\ parser.content_length \in 1..ULLONG_MAX
      /\ at \in Nat /\ upTo \in Nat /\ at < upTo
  BY LooksFacts DEF Consistent, Typed
<1>2. to_read \in 1..(upTo - at) /\ to_read <= parser.content_length
  BY <1>1 DEF to_read
<1> QED
  BY <1>1, <1>2, SizesAssumption DEF BodyLeft

(* From one state of a chunk to another. *)
LEMMA InChunk ==
  ASSUME IInv, NEW s \in ChunkStates, Looks(s), NEW c, TypedFields(c), "flags" \notin DOMAIN c,
         Changed(c).state \in ChunkStates \ {"s_chunk_size_start"},
         Changed(c).content_length # ULLONG_MAX,
         Changed(c).state = "s_chunk_data" => Changed(c).content_length # 0,
         Changed(c).state = "s_chunk_data_almost_done" => Changed(c).content_length = 0,
         \/ Takes(c)
         \/ \E to \in at..upTo : Goes(c, to, data, 0)
  PROVE  IInv'
<1>1. /\ Typed(parser) /\ "F_CHUNKED" \in parser.flags /\ IsData(data)
      /\ at + 1 \in at..upTo /\ 0 \in 0..upTo /\ mark \in 0..upTo
  BY LooksFacts DEF Consistent
<1>2. Changed(c).flags = parser.flags
  BY <1>1 DEF Changed, With, Typed, Fields
<1>3. \A looked : Consistent(Changed(c), looked)
  BY <1>1, <1>2 DEF Consistent, ChunkStates
<1>4. \A looked : Fits(c, looked)
  BY <1>3, ChangedTyped DEF Fits
<1>5. CASE Takes(c)
  BY <1>1, <1>4, <1>5, TakesKeeps
<1>6. ASSUME NEW to \in at..upTo, Goes(c, to, data, 0) PROVE IInv'
  BY <1>1, <1>4, <1>6, GoesKeeps
<1> QED
  BY <1>5, <1>6

(* A body of known length. *)
LEMMA BodyIdentity == IInv /\ s_body_identity => IInv'
<1> SUFFICES ASSUME IInv, s_body_identity PROVE IInv'
  OBVIOUS
<1> DEFINE last == [state |-> "s_message_done", content_length |-> 0]
           c == [content_length |-> BodyLeft]
<1>1. Looks("s_body_identity")
  BY DEF s_body_identity
<1>2. /\ BodyLeft \in 0..(ULLONG_MAX - 1) /\ at + to_read \in at..upTo
      /\ at + to_read - 1 \in at..upTo /\ 0 \in 0..upTo
      /\ Typed(parser) /\ IsData(data) /\ parser.state = "s_body_identity"
  BY <1>1, ToRead, LooksFacts
<1>3. CASE Goes(last, at + to_read - 1, data, 0)
  <2>1. TypedFields(last) /\ "state" \in DOMAIN last /\ last.state \notin Guarded
    BY SizesAssumption DEF TypedFields, Fields, Guarded, ChunkStates
  <2> HIDE DEF last
  <2> QED
    BY <1>1, <1>2, <1>3, <2>1, GoesOn
<1>4. CASE BodyLeft # 0 /\ Goes(c, at + to_read, data, 0)
  <2>1. TypedFields(c)
    BY <1>2, SizesAssumption DEF TypedFields, Fields
  <2>2. Changed(c).state = "s_body_identity" /\ Changed(c).content_length = BodyLeft
    BY <1>2 DEF Changed, With, Typed, Fields
  <2>3. \A looked : Consistent(Changed(c), looked)
    BY <1>2, <1>4, <2>2, SizesAssumption DEF Consistent, ChunkStates
  <2> HIDE DEF c
  <2>4. \A looked : Fits(c, looked)
    BY <1>1, <2>1, <2>3, ChangedTyped DEF Fits
  <2> QED
    BY <1>1, <1>2, <1>4, <2>4, GoesKeeps
<1> QED
  BY <1>3, <1>4 DEF s_body_identity

(* A body that ends with the connection. *)
LEMMA BodyIdentityEof == IInv /\ s_body_identity_eof => IInv'
<1> SUFFICES ASSUME IInv, s_body_identity_eof PROVE IInv'
  OBVIOUS
<1> DEFINE c == [state |-> "s_body_identity_eof"]
<1>1. Looks("s_body_identity_eof") /\ Goes(c, upTo, data, 0)
  BY DEF s_body_identity_eof
<1>2. upTo \in at..upTo /\ 0 \in 0..upTo /\ IsData(data)
  BY <1>1, LooksFacts
<1>3. TypedFields(c) /\ "state" \in DOMAIN c /\ c.state \notin Guarded
  BY DEF TypedFields, Fields, Guarded, ChunkStates
<1> HIDE DEF c
<1> QED
  BY <1>1, <1>2, <1>3, GoesOn

(* The end of the message. *)
LEMMA MessageDone == IInv /\ s_message_done => IInv'
<1> SUFFICES ASSUME IInv, s_message_done PROVE IInv'
  OBVIOUS
<1> DEFINE c == [state |-> NEW_MESSAGE]
<1>1. Looks("s_message_done")
  BY DEF s_message_done
<1>2. /\ at + 1 \in at..upTo /\ 0 \in 0..upTo /\ IsData(on_message_complete)
      /\ Typed(parser)
  BY <1>1, LooksFacts, CompleteData
<1>3. TypedFields(c) /\ "state" \in DOMAIN c /\ c.state \notin Guarded
  BY NewMessage DEF TypedFields, Fields, Guarded, ChunkStates
<1>4. Typed(With(parser, c)) /\ "http_errno" \notin DOMAIN c
  BY <1>2 DEF Typed, With, Fields
<1>5. With(parser, c).state \notin Guarded
  BY <1>2, NewMessage DEF Typed, With, Fields, Guarded, ChunkStates
<1>6. Consistent(With(parser, c), again)
  BY <1>5 DEF Consistent, Guarded, ChunkStates
<1>7. Returns(c, on_message_complete) \/ Goes(c, at + 1, on_message_complete, 0)
  BY DEF s_message_done
<1> HIDE DEF c
<1> QED
  BY <1>1, <1>2, <1>3, <1>4, <1>6, <1>7, GoesOn, ReturnsKeeps

(* The first digit of a chunk's size. *)
LEMMA ChunkSizeStart == IInv /\ s_chunk_size_start => IInv'
<1> SUFFICES ASSUME IInv, s_chunk_size_start PROVE IInv'
  OBVIOUS
<1> DEFINE c == [state |-> "s_chunk_size", content_length |-> Value[ch]]
<1>1. Looks("s_chunk_size_start") /\ calling
  BY DEF s_chunk_size_start, Looks
<1>2. CASE IsDigit(ch) /\ Takes(c)
  <2>1. Value[ch] \in 0..(ULLONG_MAX - 1) /\ Value[ch] # ULLONG_MAX
    BY <1>2, Values, SizesAssumption
  <2>2. TypedFields(c) /\ "flags" \notin DOMAIN c
    BY <2>1, SizesAssumption DEF TypedFields, Fields
  <2>3. Changed(c).state = "s_chunk_size" /\ Changed(c).content_length = Value[ch]
    BY <1>1, LooksFacts DEF Changed, With, Typed, Fields
  <2> HIDE DEF c
  <2> QED
    BY <1>1, <1>2, <2>1, <2>2, <2>3, InChunk DEF ChunkStates
<1>3. CASE SET_ERRNO("HPE_INVALID_CHUNK_SIZE")
  BY <1>1, <1>3, ErrnoKeeps
<1> QED
  BY <1>2, <1>3 DEF s_chunk_size_start

(* Past the size of a chunk, the length as it is. *)
LEMMA ToChunk ==
  ASSUME IInv, NEW s \in ChunkStates \ {"s_chunk_size_start"}, Looks(s),
         NEW next \in ChunkStates \ {"s_chunk_size_start", "s_chunk_data"},
         next = "s_chunk_data_almost_done" => parser.content_length = 0,
         Takes([state |-> next])
  PROVE  IInv'
<1> DEFINE c == [state |-> next]
<1>1. parser.content_length # ULLONG_MAX
  BY LooksFacts DEF Consistent
<1>2. TypedFields(c) /\ "flags" \notin DOMAIN c
  BY DEF TypedFields, Fields
<1>3. Changed(c).state = next /\ Changed(c).content_length = parser.content_length
  BY LooksFacts DEF Changed, With, Typed, Fields
<1>4. Takes(c)
  OBVIOUS
<1> HIDE DEF c
<1> QED
  BY <1>1, <1>2, <1>3, <1>4, InChunk

(* The others: each only when there is room for it. *)
LEMMA ChunkSize == IInv /\ s_chunk_size => IInv'
<1> SUFFICES ASSUME IInv, s_chunk_size PROVE IInv'
  OBVIOUS
<1> DEFINE c == [content_length |-> parser.content_length * 16 + Value[ch]]
<1>1. Looks("s_chunk_size") /\ calling
  BY DEF s_chunk_size, Looks
<1>2. CASE Takes([state |-> "s_chunk_size_almost_done"]) \/ Takes([state |-> "s_chunk_parameters"])
  BY <1>1, <1>2, ToChunk DEF ChunkStates
<1>3. CASE IsDigit(ch) /\ ~((ULLONG_MAX - 16) \div 16 < parser.content_length) /\ Takes(c)
  <2>1. Typed(parser) /\ parser.state = "s_chunk_size" /\ parser.content_length \in Nat
    BY <1>1, LooksFacts DEF Typed
  <2>2. Value[ch] \in 0..9
    BY <1>3, Values
  <2>3. parser.content_length * 16 + Value[ch] \in 0..(ULLONG_MAX - 1)
    BY <1>3, <2>1, <2>2, SixteenMore
  <2> DEFINE more == parser.content_length * 16 + Value[ch]
  <2>4. Changed(c).state = "s_chunk_size" /\ Changed(c).content_length = more
    BY <2>1 DEF Changed, With, Typed, Fields
  <2> HIDE DEF more
  <2>5. more \in 0..ULLONG_MAX /\ more # ULLONG_MAX
    BY <2>3, SizesAssumption DEF more
  <2>6. TypedFields(c) /\ "flags" \notin DOMAIN c
    BY <2>5 DEF TypedFields, Fields, more
  <2> HIDE DEF c
  <2> QED
    BY <1>1, <1>3, <2>4, <2>5, <2>6, InChunk DEF ChunkStates
<1>4. CASE SET_ERRNO("HPE_INVALID_CONTENT_LENGTH") \/ SET_ERRNO("HPE_INVALID_CHUNK_SIZE")
  BY <1>1, <1>4, ErrnoKeeps
<1> QED
  BY <1>2, <1>3, <1>4 DEF s_chunk_size

(* The last chunk has no data; any other has some. *)
LEMMA ChunkSizeAlmostDone == IInv /\ s_chunk_size_almost_done => IInv'
<1> SUFFICES ASSUME IInv, s_chunk_size_almost_done PROVE IInv'
  OBVIOUS
<1> DEFINE last == [state |-> "s_header_field_start", nread |-> 0,
                    flags |-> parser.flags \cup {"F_TRAILING"}]
           c == [state |-> "s_chunk_data", nread |-> 0]
<1>1. Looks("s_chunk_size_almost_done") /\ calling
  BY DEF s_chunk_size_almost_done, Looks
<1>2. /\ Typed(parser) /\ parser.content_length # ULLONG_MAX
      /\ parser.state = "s_chunk_size_almost_done"
  BY <1>1, LooksFacts DEF Consistent, ChunkStates
<1>3. CASE Takes(last)
  <2>1. TypedFields(last) /\ "state" \in DOMAIN last /\ last.state \notin Guarded
    BY <1>2, SizesAssumption DEF Typed, TypedFields, Fields, Flags, Guarded, ChunkStates
  <2> HIDE DEF last
  <2> QED
    BY <1>1, <1>3, <2>1, Passes
<1>4. CASE parser.content_length # 0 /\ Takes(c)
  <2>1. TypedFields(c) /\ "flags" \notin DOMAIN c
    BY SizesAssumption DEF TypedFields, Fields
  <2>2. Changed(c).state = "s_chunk_data" /\ Changed(c).content_length = parser.content_length
    BY <1>2 DEF Changed, With, Typed, Fields
  <2> HIDE DEF c
  <2> QED
    BY <1>1, <1>2, <1>4, <2>1, <2>2, InChunk DEF ChunkStates
<1>5. CASE SET_ERRNO("HPE_STRICT")
  BY <1>1, <1>5, ErrnoKeeps
<1> QED
  BY <1>3, <1>4, <1>5 DEF s_chunk_size_almost_done

(* A chunk's data. *)
LEMMA ChunkData == IInv /\ s_chunk_data => IInv'
<1> SUFFICES ASSUME IInv, s_chunk_data PROVE IInv'
  OBVIOUS
<1> DEFINE next == IF BodyLeft = 0 THEN "s_chunk_data_almost_done" ELSE "s_chunk_data"
           c == [content_length |-> BodyLeft, state |-> next]
<1>1. Looks("s_chunk_data") /\ Goes(c, at + to_read, data, 0)
  BY DEF s_chunk_data
<1>2. /\ BodyLeft \in 0..ULLONG_MAX /\ BodyLeft # ULLONG_MAX
      /\ at + to_read \in at..upTo
  BY <1>1, ToRead, SizesAssumption
<1>3. TypedFields(c) /\ "flags" \notin DOMAIN c
  BY <1>2 DEF TypedFields, Fields
<1>4. Changed(c).state = next /\ Changed(c).content_length = BodyLeft
  BY <1>1, LooksFacts DEF Changed, With, Typed, Fields
<1> HIDE DEF c
<1> QED
  BY <1>1, <1>2, <1>3, <1>4, InChunk DEF ChunkStates

(* The next chunk: the count of header bytes starts anew. *)
LEMMA ChunkDataDone == IInv /\ s_chunk_data_done => IInv'
<1> SUFFICES ASSUME IInv, s_chunk_data_done PROVE IInv'
  OBVIOUS
<1> DEFINE c == [state |-> "s_chunk_size_start", nread |-> 0]
<1>1. Looks("s_chunk_data_done") /\ calling
  BY DEF s_chunk_data_done, Looks
<1>2. CASE Takes(c)
  <2>1. Typed(parser) /\ "F_CHUNKED" \in parser.flags
    BY <1>1, LooksFacts DEF Consistent, ChunkStates
  <2>2. TypedFields(c)
    BY SizesAssumption DEF TypedFields, Fields
  <2>3. /\ Changed(c).state = "s_chunk_size_start" /\ Changed(c).nread = 0
        /\ Changed(c).flags = parser.flags
    BY <2>1 DEF Changed, With, Typed, Fields
  <2>4. Consistent(Changed(c), FALSE)
    BY <2>1, <2>3 DEF Consistent, ChunkStates
  <2> HIDE DEF c
  <2>5. Fits(c, FALSE)
    BY <1>1, <2>2, <2>4, ChangedTyped DEF Fits
  <2> QED
    BY <1>1, <1>2, <2>5, TakesKeeps
<1>3. CASE SET_ERRNO("HPE_STRICT")
  BY <1>1, <1>3, ErrnoKeeps
<1> QED
  BY <1>2, <1>3 DEF s_chunk_data_done

(* No pass over the body breaks the invariant. *)
LEMMA BodyKeeps == IInv /\ Body => IInv'
<1> SUFFICES ASSUME IInv, Body PROVE IInv'
  OBVIOUS
<1>1. CASE s_chunk_parameters
  <2>1. Looks("s_chunk_parameters") /\ parser.state = "s_chunk_parameters"
    BY <1>1 DEF s_chunk_parameters, Looks
  <2>2. PICK next \in {"s_chunk_size_almost_done", "s_chunk_parameters"} : Takes([state |-> next])
    BY <1>1, <2>1 DEF s_chunk_parameters, Stays
  <2> QED
    BY <2>1, <2>2, ToChunk DEF ChunkStates
<1>2. CASE s_chunk_data_almost_done
  <2>1. Looks("s_chunk_data_almost_done") /\ calling
    BY <1>2 DEF s_chunk_data_almost_done, Looks
  <2>2. Takes([state |-> "s_chunk_data_done"]) \/ SET_ERRNO("HPE_STRICT")
    BY <1>2 DEF s_chunk_data_almost_done, Expects
  <2> QED
    BY <2>1, <2>2, ToChunk, ErrnoKeeps DEF ChunkStates
<1> QED
  BY <1>1, <1>2, BodyIdentity, BodyIdentityEof, MessageDone, ChunkSizeStart, ChunkSize,
     ChunkSizeAlmostDone, ChunkData, ChunkDataDone DEF Body

-----------------------------------------------------------------------------
(* The reads, and the theorems *)

(* A read begins a call with something to look at. *)
LEMMA ReadKeeps == ASSUME IInv, NEW n \in Pieces, Read(n) PROVE IInv'
<1>1. n \in Nat \ {0}
  BY PiecesAssumption
<1>2. /\ ~calling /\ parser.http_errno = "HPE_OK" /\ ~(at < upTo)
  BY DEF Read, Outcome
<1>3. Len(text) \in Nat
  BY MessagesAssumption DEF IInv, TypeOK
<1>4. /\ UNCHANGED <<message, text, at, parser, data, torn, closed>>
      /\ calling' = TRUE /\ again' = FALSE /\ mark' \in {0, at + 1}
      /\ upTo < Len(text)
      /\ upTo' = IF upTo + n < Len(text) THEN upTo + n ELSE Len(text)
  BY DEF Read
<1>5. at \in 0..upTo /\ upTo \in 0..Len(text)
  BY DEF IInv, TypeOK
<1>6. /\ upTo' \in 0..Len(text') /\ at' \in 0..upTo' /\ at' < upTo' /\ mark' \in 0..upTo'
  BY <1>1, <1>2, <1>3, <1>4, <1>5
<1>7. TypeOK'
  BY <1>4, <1>6, Zenon DEF IInv, TypeOK
<1>8. Typed(parser)' /\ Consistent(parser, again)'
  BY <1>2, <1>4 DEF IInv, Typed, Consistent
<1> QED
  BY <1>2, <1>4, <1>6, <1>7, <1>8 DEF IInv, IsData

(* The end of the stream changes no more than an error and data.done. *)
LEMMA EofKeeps == ASSUME IInv, Eof PROVE IInv'
<1>1. /\ ~calling /\ UNCHANGED <<message, text, at, upTo, calling, again, mark, torn>>
      /\ closed' = TRUE
  BY DEF Eof, Outcome
<1>2. IsData(data')
  BY CompleteData DEF Eof, IInv
<1>3. CASE parser' = parser
  BY <1>1, <1>2, <1>3, Zenon DEF IInv, TypeOK, IsData, Typed, Consistent
<1>4. CASE parser' = [parser EXCEPT !.http_errno = "HPE_INVALID_EOF_STATE"]
  <2>1. /\ DOMAIN parser' = Fields /\ parser'.http_errno = "HPE_INVALID_EOF_STATE"
        /\ \A f \in Fields \ {"http_errno"} : parser'[f] = parser[f]
    BY <1>4 DEF IInv, Fields
  <2>2. /\ parser'.type = parser.type /\ parser'.content_length = parser.content_length
        /\ parser'.nread = parser.nread /\ parser'.flags = parser.flags
        /\ parser'.uses_transfer_encoding = parser.uses_transfer_encoding
        /\ parser'.upgrade = parser.upgrade
    BY <2>1 DEF Fields
  <2>3. TypeOK'
    BY <1>1, <1>2, <2>2, Zenon DEF IInv, TypeOK, IsData
  <2> QED
    BY <1>1, <1>2, <2>1, <2>3, Zenon DEF IInv
<1> QED
  BY <1>3, <1>4 DEF Eof

(* What http_parser_init sets. *)
LEMMA InitInvariant == Init => IInv
<1> SUFFICES ASSUME Init PROVE IInv
  OBVIOUS
<1>1. Len(text) \in Nat
  BY MessagesAssumption DEF Init
<1>2. Typed(parser) /\ parser.http_errno = "HPE_OK" /\ IsData(data)
  BY SizesAssumption DEF Init, http_parser_init, Typed, Fields, IsData, Flags
<1>3. parser.state \in StartStates
  BY DEF Init, http_parser_init, StartStates
<1>4. Consistent(parser, again)
  BY <1>3 DEF Consistent, StartStates, ChunkStates
<1>5. TypeOK
  <2>1. /\ message \in Messages /\ text = Bytes(message)
        /\ calling = FALSE /\ again = FALSE /\ torn = FALSE /\ closed = FALSE
    BY DEF Init
  <2>2. upTo \in 0..Len(text) /\ at \in 0..upTo /\ mark \in 0..upTo
    BY <1>1 DEF Init
  <2>3. parser.nread \in 0..(max_header_size + 1)
    BY <1>2, SizesAssumption DEF Typed
  <2> QED
    BY <1>2, <2>1, <2>2, <2>3, Zenon DEF TypeOK, Typed, Flags, IsData
<1> QED
  BY <1>2, <1>4, <1>5 DEF Init, IInv, Typed

(* Nor does a step of any other kind break it. *)
LEMMA ParserStep == IInv /\ [Next]_vars => IInv'
<1> SUFFICES ASSUME IInv, [Next]_vars PROVE IInv'
  OBVIOUS
<1>1. CASE HeaderOverflow
  BY <1>1, ErrnoKeeps DEF HeaderOverflow
<1>2. CASE UNCHANGED vars
  <2>1. /\ message' = message /\ text' = text /\ at' = at /\ upTo' = upTo
        /\ calling' = calling /\ again' = again /\ mark' = mark /\ parser' = parser
        /\ data' = data /\ torn' = torn /\ closed' = closed
    BY <1>2 DEF vars
  <2>2. TypeOK'
    BY <2>1, Zenon DEF IInv, TypeOK
  <2>3. Typed(parser) => Typed(parser)'
    BY <2>1 DEF Typed
  <2>4. Consistent(parser, again) => Consistent(parser, again)'
    BY <2>1 DEF Consistent
  <2> QED
    BY <2>1, <2>2, <2>3, <2>4, Zenon DEF IInv, IsData
<1> QED
  BY <1>1, <1>2, FirstLineKeeps, HeaderLinesKeep, BodyKeeps, ReadKeeps, EofKeeps
     DEF Next, http_parser_execute

(* The invariant: types, a call only while there is something to look at,  *)
(* and in each state of the body, of a chunk and of a value what the code  *)
(* of that state takes for granted.                                        *)
THEOREM ParserInvariance == Spec => []IInv
BY InitInvariant, ParserStep, PTL DEF Spec

(* The length of a body never leaves its 64 bits and the count of header   *)
(* bytes never passes the limit by more than one, whatever is sent: the    *)
(* tests before each digit are enough.                                     *)
THEOREM TypeCorrect == Spec => []TypeOK
BY ParserInvariance, PTL DEF IInv

(* No assert of http_parser_execute can fail, on any message, well-formed  *)
(* or not, split into reads in any way.                                    *)
THEOREM AssertsNeverFail == Spec => []AssertionsHold
<1>1. IInv => AssertionsHold
  <2> SUFFICES ASSUME IInv, calling PROVE AssertionsHold
    BY DEF AssertionsHold
  <2>1. Typed(parser) /\ Consistent(parser, again)
    BY DEF IInv
  <2>2. parser.state = "s_chunk_size_start" => COUNT_HEADER_SIZE = 1
    BY <2>1 DEF Consistent, Typed, COUNT_HEADER_SIZE, PARSING_HEADER, BodyStates
  <2> QED
    BY <2>1, <2>2 DEF Consistent, AssertionsHold, NameStates, ChunkStates
<1> QED
  BY <1>1, ParserInvariance, PTL

-----------------------------------------------------------------------------
(* No symbol is looked at for ever *)

(* What one pass must do for the call to come to an end. *)
Advances ==
  \/ ~calling'
  \/ at' > at
  \/ at' = at /\ LooksLeft(parser'.state) < LooksLeft(parser.state)

(* To consume the symbol is enough, and so is to fail or to return. *)
LEMMA Consuming ==
  ASSUME at \in Nat
  PROVE  /\ \A c : Takes(c) \/ Marks(c) \/ CALLBACK_DATA(c) => Advances
         /\ \A c, d, m : Goes(c, at + 1, d, m) => Advances
         /\ \A error : SET_ERRNO(error) => Advances
         /\ \A c, d : Returns(c, d) => Advances
<1>1. at + 1 > at
  OBVIOUS
<1>2. \A c, d, m : Goes(c, at + 1, d, m) => Advances
  BY <1>1 DEF Goes, Advances
<1>3. \A c : Takes(c) \/ Marks(c) \/ CALLBACK_DATA(c) => Advances
  BY <1>2 DEF Takes, Marks, CALLBACK_DATA
<1>4. \A error : SET_ERRNO(error) => Advances
  BY DEF SET_ERRNO, Advances
<1>5. \A c, d : Returns(c, d) => Advances
  BY DEF Returns, Advances
<1> QED
  BY <1>2, <1>3, <1>4, <1>5

(* To look again is, in a state from which there are fewer looks left. *)
LEMMA Rethinking ==
  ASSUME IInv, NEW s, Looks(s), NEW c, "state" \in DOMAIN c, LooksLeft(c.state) < LooksLeft(s),
         NEW d, NEW m, Goes(c, at, d, m)
  PROVE  Advances
<1>1. parser.state = s /\ DOMAIN parser = Fields
  BY LooksFacts DEF Typed
<1>2. parser' = With([parser EXCEPT !.nread = COUNT_HEADER_SIZE], c) /\ at' = at
  BY DEF Goes
<1>3. parser'.state = c.state
  BY <1>1, <1>2 DEF With, Fields
<1> QED
  BY <1>1, <1>2, <1>3 DEF Advances

(* The same, by the name of the macro, when only the state changes. *)
LEMMA Rethinks ==
  ASSUME IInv, NEW s, Looks(s), NEW next, LooksLeft(next) < LooksLeft(s),
         Reexecutes([state |-> next]) \/ CALLBACK_DATA_NOADVANCE([state |-> next])
  PROVE  Advances
<1> DEFINE c == [state |-> next]
<1>1. "state" \in DOMAIN c /\ c.state = next
  OBVIOUS
<1>2. Reexecutes(c) \/ CALLBACK_DATA_NOADVANCE(c)
  OBVIOUS
<1> HIDE DEF c
<1> QED
  BY <1>1, <1>2, Rethinking DEF Reexecutes, CALLBACK_DATA_NOADVANCE

LEMMA FirstLineAdvances == IInv /\ FirstLine => Advances
<1> SUFFICES ASSUME IInv, FirstLine PROVE Advances
  OBVIOUS
<1>0. at \in Nat
  BY MessagesAssumption DEF IInv, TypeOK
<1>a. /\ LooksLeft("s_res_status_start") < LooksLeft("s_res_status_code")
      /\ LooksLeft("s_res_status") < LooksLeft("s_res_status_start")
  BY DEF LooksLeft
<1>1. CASE s_dead \/ s_start_res \/ s_res_http_end \/ s_res_first_status_code
  BY <1>0, <1>1, Consuming
     DEF s_dead, s_start_res, s_res_http_end, s_res_first_status_code, Expects, Stays
<1>2. CASE s_res_status_code
  BY <1>0, <1>2, <1>a, Consuming, Rethinks DEF s_res_status_code
<1>3. CASE s_res_status_start
  BY <1>0, <1>3, <1>a, Consuming, Rethinks DEF s_res_status_start
<1>4. CASE s_res_status \/ s_res_line_almost_done \/ s_start_req \/ s_req_method
  BY <1>0, <1>4, Consuming
     DEF s_res_status, s_res_line_almost_done, s_start_req, s_req_method, Expects, Stays
<1>5. CASE s_req_spaces_before_url
  BY <1>0, <1>5, Consuming DEF s_req_spaces_before_url, Stays
<1>6. ASSUME NEW s \in UrlStates, s_req_url(s) PROVE Advances
  BY <1>0, <1>6, Consuming DEF s_req_url
<1>7. CASE s_req_http_start \/ s_req_http_end \/ s_req_line_almost_done
  BY <1>0, <1>7, Consuming
     DEF s_req_http_start, s_req_http_end, s_req_line_almost_done, Expects, Stays
<1> QED
  BY <1>1, <1>2, <1>3, <1>4, <1>5, <1>6, <1>7 DEF FirstLine

LEMMA HeaderLinesAdvance == IInv /\ HeaderLines => Advances
<1> SUFFICES ASSUME IInv, HeaderLines PROVE Advances
  OBVIOUS
<1>0. at \in Nat
  BY MessagesAssumption DEF IInv, TypeOK
<1>a. /\ LooksLeft("s_headers_almost_done") < LooksLeft("s_header_field_start")
      /\ LooksLeft("s_header_almost_done") < LooksLeft("s_header_value")
      /\ LooksLeft("s_message_done") < LooksLeft("s_headers_almost_done")
  BY DEF LooksLeft
<1>b. /\ LooksLeft("s_headers_done") < LooksLeft("s_headers_almost_done")
      /\ LooksLeft("s_header_value_start") < LooksLeft("s_header_value_lws")
      /\ LooksLeft("s_header_field_start") < LooksLeft("s_header_value_lws")
      /\ LooksLeft("s_header_field_start") < LooksLeft("s_header_value_discard_lws")
  BY DEF LooksLeft
<1>1. CASE s_header_field_start
  BY <1>0, <1>1, <1>a, Consuming, Rethinks DEF s_header_field_start
<1>2. CASE s_header_field \/ s_header_value_discard_ws \/ s_header_value_start
  BY <1>0, <1>2, Consuming
     DEF s_header_field, s_header_value_discard_ws, s_header_value_start, Stays
<1>3. CASE s_header_value
  BY <1>0, <1>3, <1>a, Consuming, Rethinks DEF s_header_value, ContentLength, Stays
<1>4. CASE s_header_almost_done \/ s_header_value_discard_ws_almost_done
  BY <1>0, <1>4, Consuming
     DEF s_header_almost_done, s_header_value_discard_ws_almost_done, Expects
<1>5. CASE s_header_value_lws
  <2> DEFINE folded == [state |-> "s_header_value_start",
                        header_state |-> IF parser.header_state = "h_content_length_num"
                                         THEN "h_content_length_ws" ELSE parser.header_state]
             next == [state |-> "s_header_field_start", flags |-> FinishedFlags]
  <2>1. /\ Looks("s_header_value_lws")
        /\ Goes(folded, at, data, mark) \/ Goes(next, at, data, mark)
    BY <1>5 DEF s_header_value_lws, Reexecutes
  <2>2. /\ "state" \in DOMAIN folded /\ folded.state = "s_header_value_start"
        /\ "state" \in DOMAIN next /\ next.state = "s_header_field_start"
    OBVIOUS
  <2> HIDE DEF folded, next
  <2> QED
    BY <1>b, <2>1, <2>2, Rethinking
<1>6. CASE s_header_value_discard_lws
  <2> DEFINE next == [state |-> "s_header_field_start", flags |-> FinishedFlags]
  <2>1. /\ Looks("s_header_value_discard_lws")
        /\ \/ Takes([state |-> "s_header_value_discard_ws"])
           \/ SET_ERRNO("HPE_INVALID_CONTENT_LENGTH")
           \/ Goes(next, at, Heard(parser.state, <<>>), 0)
    BY <1>6 DEF s_header_value_discard_lws
  <2>2. "state" \in DOMAIN next /\ next.state = "s_header_field_start"
    OBVIOUS
  <2> HIDE DEF next
  <2> QED
    BY <1>0, <1>b, <2>1, <2>2, Consuming, Rethinking
<1>7. CASE s_headers_almost_done
  <2>1. Looks("s_headers_almost_done")
    BY <1>7 DEF s_headers_almost_done
  <2>2. PICK up :
          \/ SET_ERRNO("HPE_STRICT") \/ Reexecutes([state |-> "s_message_done"])
          \/ SET_ERRNO("HPE_UNEXPECTED_CONTENT_LENGTH")
          \/ Goes([state |-> "s_headers_done", upgrade |-> up], at, on_headers_complete, 0)
    BY <1>7, Zenon DEF s_headers_almost_done
  <2> DEFINE c == [state |-> "s_headers_done", upgrade |-> up]
  <2>3. "state" \in DOMAIN c /\ c.state = "s_headers_done"
    OBVIOUS
  <2>4. Goes(c, at, on_headers_complete, 0) => Advances
    <3> HIDE DEF c
    <3> QED
      BY <1>b, <2>1, <2>3, Rethinking
  <2> QED
    BY <1>0, <1>a, <2>1, <2>2, <2>4, Consuming, Rethinks
<1>8. CASE s_headers_done
  BY <1>0, <1>8, Consuming DEF s_headers_done, Begins
<1> QED
  BY <1>1, <1>2, <1>3, <1>4, <1>5, <1>6, <1>7, <1>8 DEF HeaderLines

(* Of a body's last piece one byte is left, to be looked at again. *)
LEMMA BodyAdvances == IInv /\ Body => Advances
<1> SUFFICES ASSUME IInv, Body PROVE Advances
  OBVIOUS
<1>0. at \in Nat
  BY MessagesAssumption DEF IInv, TypeOK
<1>1. CASE s_body_identity
  <2> DEFINE last == [state |-> "s_message_done", content_length |-> 0]
             c == [content_length |-> BodyLeft]
  <2>1. /\ Looks("s_body_identity")
        /\ Goes(last, at + to_read - 1, data, 0) \/ Goes(c, at + to_read, data, 0)
    BY <1>1 DEF s_body_identity
  <2>2. to_read \in Nat \ {0}
    BY <2>1, LooksFacts DEF to_read, Consistent, Typed
  <2>3. "state" \in DOMAIN last /\ last.state = "s_message_done"
    OBVIOUS
  <2>4. LooksLeft("s_message_done") < LooksLeft("s_body_identity")
    BY DEF LooksLeft
  <2>5. at + to_read > at /\ (at + to_read - 1 > at \/ at + to_read - 1 = at)
    BY <1>0, <2>2
  <2> HIDE DEF last, c
  <2>6. \A k, n : Goes(k, n, data, 0) /\ n > at => Advances
    BY DEF Goes, Advances
  <2>7. Goes(last, at, data, 0) => Advances
    BY <2>1, <2>3, <2>4, Rethinking
  <2> QED
    BY <2>1, <2>5, <2>6, <2>7
<1>2. CASE s_body_identity_eof
  <2>1. at < upTo
    BY <1>2, LooksFacts DEF s_body_identity_eof
  <2> QED
    BY <1>0, <1>2, <2>1 DEF s_body_identity_eof, Goes, Advances
<1>3. CASE s_message_done
  BY <1>0, <1>3, Consuming DEF s_message_done
<1>4. CASE s_chunk_size_start \/ s_chunk_size \/ s_chunk_parameters
  BY <1>0, <1>4, Consuming DEF s_chunk_size_start, s_chunk_size, s_chunk_parameters, Stays
<1>5. CASE s_chunk_size_almost_done \/ s_chunk_data_almost_done \/ s_chunk_data_done
  BY <1>0, <1>5, Consuming
     DEF s_chunk_size_almost_done, s_chunk_data_almost_done, s_chunk_data_done, Expects
<1>6. CASE s_chunk_data
  <2>1. Looks("s_chunk_data")
    BY <1>6 DEF s_chunk_data
  <2>2. to_read \in Nat \ {0}
    BY <2>1, LooksFacts DEF to_read, Consistent, Typed
  <2>3. at' = at + to_read
    BY <1>6 DEF s_chunk_data, Goes
  <2> QED
    BY <1>0, <2>2, <2>3 DEF Advances
<1> QED
  BY <1>1, <1>2, <1>3, <1>4, <1>5, <1>6 DEF Body

(* Every call of http_parser_execute comes to an end by itself, on any     *)
(* symbols in any state: each pass consumes something, ends the call, or   *)
(* leaves fewer looks at the same symbol, of which there are five at most. *)
THEOREM NoPassInVain == Spec => PassesAdvance
<1>1. IInv /\ http_parser_execute => Advances
  BY FirstLineAdvances, HeaderLinesAdvance, BodyAdvances
     DEF http_parser_execute, HeaderOverflow, SET_ERRNO, Advances
<1>2. IInv => [http_parser_execute => Advances]_vars
  BY <1>1
<1> QED
  BY <1>2, ParserInvariance, PTL DEF PassesAdvance, Advances

-----------------------------------------------------------------------------
(* What a pass makes of a request *)

(* The states a request's parser is in until its header has ended. *)
RequestStates ==
  {"s_start_req", "s_req_method", "s_req_spaces_before_url"} \cup UrlStates \cup
  {"s_req_http_start", "s_req_http_end", "s_req_line_almost_done",
   "s_header_field_start", "s_header_field", "s_header_value_discard_ws",
   "s_header_value_start", "s_header_value", "s_header_almost_done", "s_header_value_lws",
   "s_header_value_discard_ws_almost_done", "s_header_value_discard_lws",
   "s_headers_almost_done"}

(* A request whose header is being read. *)
Request == IsRequest /\ ~data.done /\ parser.http_errno = "HPE_OK"

(* Each byte is counted once: the next one too, if it has been looked at. *)
InHeader ==
  Request =>
    /\ parser.state \in RequestStates
    /\ "F_TRAILING" \notin parser.flags
    /\ again => calling
    /\ parser.nread = at + (IF again THEN 1 ELSE 0)

(* A pass that leads to the state next and leaves off after the symbol at   *)
(* to, with d heard and the mark m.  A word is whole only if the piece has  *)
(* not ended in it.                                                         *)
Pass(next, to, d, m) ==
  /\ parser'.state = next /\ at' = to /\ text' = text
  /\ torn => torn'
  /\ ~torn' =>
       /\ data' = d /\ mark' = m /\ (m # 0 => calling')
       /\ parser.state # "s_header_value_start"

Moves(next) == Pass(next, at + 1, data, mark)

Word == SubSeq(text, mark, at)

(* The passes over the first line. *)
LinePass ==
  \/ parser.state = "s_start_req" /\ Eol(ch) /\ Moves("s_start_req")
  \/ parser.state = "s_start_req" /\ ~Eol(ch) /\ Moves("s_req_method")
  \/ /\ parser.state \in {"s_req_method", "s_req_spaces_before_url"} /\ Space(ch)
     /\ Moves("s_req_spaces_before_url")
  \/ /\ parser.state = "s_req_spaces_before_url" /\ ~Blank(ch)
     /\ \E s \in UrlStates : Pass(s, at + 1, data, at + 1)
  \/ /\ parser.state \in UrlStates /\ ~Blank(ch)
     /\ \E s \in UrlStates : Moves(s)
  \/ /\ parser.state \in UrlStates /\ Space(ch)
     /\ Pass("s_req_http_start", at + 1, on_url_callback(data, Word), 0)
  \/ /\ parser.state \in UrlStates /\ ch = "CR"
     /\ Pass("s_req_line_almost_done", at + 1, on_url_callback(data, Word), 0)
  \/ /\ parser.state \in UrlStates /\ ch = "LF"
     /\ Pass("s_header_field_start", at + 1, on_url_callback(data, Word), 0)
  \/ parser.state = "s_req_http_start" /\ Space(ch) /\ Moves("s_req_http_start")
  \/ parser.state = "s_req_http_start" /\ ~Blank(ch) /\ Moves("s_req_http_end")
  \/ parser.state = "s_req_http_end" /\ ch = "CR" /\ Moves("s_req_line_almost_done")
  \/ /\ parser.state \in {"s_req_http_end", "s_req_line_almost_done"} /\ ch = "LF"
     /\ Moves("s_header_field_start")

(* The passes over the other lines. *)
FieldPass ==
  \/ parser.state = "s_header_field_start" /\ ch = "CR" /\ Moves("s_headers_almost_done")
  \/ /\ parser.state = "s_header_field_start" /\ ch = "LF"
     /\ Pass("s_headers_almost_done", at, data, mark)
  \/ /\ parser.state = "s_header_field_start" /\ Token(ch)
     /\ Pass("s_header_field", at + 1, data, at + 1)
  \/ parser.state = "s_header_field" /\ Token(ch) /\ Moves("s_header_field")
  \/ /\ parser.state = "s_header_field" /\ ch = ":"
     /\ Pass("s_header_value_discard_ws", at + 1, on_header_field(data, Word), 0)

(* The passes over the values. *)
ValuePass ==
  \/ /\ parser.state \in {"s_header_value_discard_ws", "s_header_value_discard_lws"} /\ Space(ch)
     /\ Moves("s_header_value_discard_ws")
  \/ /\ parser.state = "s_header_value_discard_ws" /\ ch = "CR"
     /\ Moves("s_header_value_discard_ws_almost_done")
  \/ /\ parser.state \in {"s_header_value_discard_ws", "s_header_value_discard_ws_almost_done"}
     /\ ch = "LF"
     /\ Moves("s_header_value_discard_lws")
  \/ /\ parser.state = "s_header_value_discard_lws" /\ ~Space(ch)
     /\ Pass("s_header_field_start", at, on_header_value(data, <<>>), 0)
  \/ /\ parser.state = "s_header_value_discard_ws" /\ ~Blank(ch)
     /\ Pass("s_header_value", at + 1, data, at + 1)
  \/ parser.state = "s_header_value_start" /\ Pass("s_header_value", at + 1, data, at + 1)
  \/ parser.state = "s_header_value" /\ ~Eol(ch) /\ Moves("s_header_value")
  \/ /\ parser.state = "s_header_value" /\ ch = "CR"
     /\ Pass("s_header_almost_done", at + 1, on_header_value(data, Word), 0)
  \/ /\ parser.state = "s_header_value" /\ ch = "LF"
     /\ Pass("s_header_almost_done", at, on_header_value(data, Word), 0)
  \/ parser.state = "s_header_almost_done" /\ ch = "LF" /\ Moves("s_header_value_lws")
  \/ /\ parser.state = "s_header_value_lws" /\ Space(ch)
     /\ Pass("s_header_value_start", at, data, mark)
  \/ /\ parser.state = "s_header_value_lws" /\ ~Space(ch)
     /\ Pass("s_header_field_start", at, data, mark)

(* The pass that finds the header ended. *)
LastPass ==
  /\ parser.state = "s_headers_almost_done" /\ ch = "LF"
  /\ UNCHANGED <<text, at>> /\ (torn => torn') /\ calling'
  /\ parser'.state = "s_headers_done"
  /\ parser'.nread = at + 1 /\ at + 1 <= max_header_size
  /\ data'.url = data.url /\ data'.headers = data.headers

RequestPass ==
  /\ InHeader'
  /\ Request' => LinePass \/ FieldPass \/ ValuePass
  /\ data'.done => LastPass

(* What a pass may change before the header has ended. *)
HeaderChange(c) ==
  /\ DOMAIN c \subseteq {"state", "header_state", "flags", "uses_transfer_encoding",
                         "content_length", "method", "version"}
  /\ "flags" \in DOMAIN c => "F_TRAILING" \notin c.flags

NextState(c) == IF "state" \in DOMAIN c THEN c.state ELSE parser.state

(* The check of the header's size counts what has been looked at, once, and *)
(* fails a request or leaves room.                                          *)
LEMMA Counting ==
  ASSUME IInv, InHeader, Request, NEW s, Looks(s)
  PROVE  /\ COUNT_HEADER_SIZE = at + 1 /\ at + 1 <= max_header_size
         /\ at \in Nat /\ upTo \in Nat /\ at < upTo /\ calling /\ parser.state = s
         /\ s \in RequestStates /\ DOMAIN parser = Fields /\ IsData(data) /\ ~data.done
         /\ IsRequest /\ parser.http_errno = "HPE_OK" /\ "F_TRAILING" \notin parser.flags
<1>1. /\ parser.state = s /\ COUNT_HEADER_SIZE \in 0..max_header_size /\ again \in BOOLEAN
      /\ parser.nread = at + (IF again THEN 1 ELSE 0)
      /\ at \in Nat /\ upTo \in Nat /\ at < upTo /\ calling
  BY LooksFacts DEF InHeader, IInv, TypeOK
<1>2. s \in RequestStates /\ s \notin BodyStates
  BY <1>1 DEF InHeader, RequestStates, UrlStates, SchemaStates, ServerStates, QueryStates,
     FragmentStates, BodyStates
<1>3. COUNT_HEADER_SIZE = at + 1
  BY <1>1, <1>2 DEF COUNT_HEADER_SIZE, PARSING_HEADER
<1> QED
  BY <1>1, <1>2, <1>3, SizesAssumption DEF IInv, InHeader, Request

(* A pass that goes on to the next symbol, or to the same again, counts as *)
(* InHeader has it.                                                        *)
LEMMA Passing ==
  ASSUME IInv, InHeader, Request, NEW s, Looks(s), NEW c, HeaderChange(c),
         NextState(c) \in RequestStates, NEW to \in {at, at + 1}, NEW d, d.done = data.done,
         NEW m, Goes(c, to, d, m)
  PROVE  InHeader' /\ ~data'.done /\ Pass(NextState(c), to, d, m)
<1>0. /\ COUNT_HEADER_SIZE = at + 1 /\ at \in Nat /\ upTo \in Nat /\ at < upTo
      /\ parser.state = s /\ DOMAIN parser = Fields /\ IsData(data) /\ ~data.done
      /\ IsRequest /\ parser.http_errno = "HPE_OK" /\ "F_TRAILING" \notin parser.flags
  BY Counting
<1>1. parser' = With([parser EXCEPT !.nread = COUNT_HEADER_SIZE], c)
  BY DEF Goes
<1>2. /\ parser'.state = NextState(c) /\ parser'.nread = at + 1
      /\ parser'.type = parser.type /\ parser'.http_errno = parser.http_errno
      /\ parser'.flags = IF "flags" \in DOMAIN c THEN c.flags ELSE parser.flags
  BY <1>0, <1>1 DEF With, Fields, HeaderChange, NextState
<1>3. at' = to /\ again' = (to = at) /\ calling' = (to < upTo) /\ text' = text
  BY DEF Goes
<1>4. ~data'.done
  <2>1. \A x, w : ~Heard(x, w).done
    BY <1>0, HeardData DEF Heard, on_url_callback, on_header_field, on_header_value, IsData
  <2> QED
    BY <1>0, <2>1 DEF Goes
<1>5. InHeader'
  <2>1. again' => calling'
    BY <1>0, <1>3
  <2>2. parser'.nread = at' + (IF again' THEN 1 ELSE 0)
    <3>1. CASE to = at
      BY <1>0, <1>2, <1>3, <3>1
    <3>2. CASE to = at + 1
      <4>1. (to = at) = FALSE
        BY <1>0, <3>2
      <4>2. again' = FALSE
        BY <1>3, <4>1, Zenon
      <4> QED
        BY <1>2, <1>3, <3>2, <4>2
    <3> QED
      BY <3>1, <3>2
  <2> QED
    BY <1>0, <1>2, <2>1, <2>2 DEF InHeader, HeaderChange
<1>6. torn => torn'
  BY DEF Goes
<1>7. ~torn' => /\ data' = d /\ mark' = m /\ (m # 0 => calling')
                /\ parser.state # "s_header_value_start"
  <2> SUFFICES ASSUME ~torn'
               PROVE  /\ data' = d /\ mark' = m /\ (m # 0 => calling')
                      /\ parser.state # "s_header_value_start"
    OBVIOUS
  <2>1. ~(to = upTo /\ m # 0)
    BY Zenon DEF Goes
  <2>2. /\ data' = d /\ mark' = m
        /\ torn' = (torn \/ parser.state = "s_header_value_start")
    BY <2>1, Zenon DEF Goes
  <2>3. m # 0 => to < upTo
    BY <1>0, <2>1
  <2> QED
    BY <1>3, <2>2, <2>3, Zenon
<1> QED
  BY <1>2, <1>3, <1>4, <1>5, <1>6, <1>7 DEF Pass

(* Failing is no matter for a request that is being read. *)
LEMMA Failing ==
  ASSUME IInv, Request, NEW error, error # "HPE_OK", SET_ERRNO(error)
  PROVE  RequestPass
<1>1. parser'.http_errno = error /\ ~data'.done
  BY DEF SET_ERRNO, IInv, Request, Fields
<1> QED
  BY <1>1 DEF RequestPass, InHeader, Request

(* The macros, for passes that change no more than the state. *)
LEMMA StatePass ==
  ASSUME IInv, InHeader, Request, NEW s, Looks(s), NEW next \in RequestStates
  PROVE  /\ Takes([state |-> next]) => InHeader' /\ ~data'.done /\ Moves(next)
         /\ Marks([state |-> next]) =>
              InHeader' /\ ~data'.done /\ Pass(next, at + 1, data, at + 1)
         /\ Reexecutes([state |-> next]) =>
              InHeader' /\ ~data'.done /\ Pass(next, at, data, mark)
<1> DEFINE c == [state |-> next]
<1>1. HeaderChange(c) /\ NextState(c) = next
  BY DEF HeaderChange, NextState
<1> HIDE DEF c
<1>2. \A to \in {at, at + 1} : \A m :
        Goes(c, to, data, m) => InHeader' /\ ~data'.done /\ Pass(next, to, data, m)
  BY <1>1, Passing
<1>3. /\ Takes(c) => InHeader' /\ ~data'.done /\ Moves(next)
      /\ Marks(c) => InHeader' /\ ~data'.done /\ Pass(next, at + 1, data, at + 1)
      /\ Reexecutes(c) => InHeader' /\ ~data'.done /\ Pass(next, at, data, mark)
  BY <1>2 DEF Takes, Marks, Reexecutes, Moves
<1> QED
  BY <1>3 DEF c

(* The same, for all passes that end no word. *)
LEMMA ChangePass ==
  ASSUME IInv, InHeader, Request, NEW s, Looks(s), NEW c, HeaderChange(c),
         NextState(c) \in RequestStates
  PROVE  /\ Takes(c) => InHeader' /\ ~data'.done /\ Moves(NextState(c))
         /\ Marks(c) => InHeader' /\ ~data'.done /\ Pass(NextState(c), at + 1, data, at + 1)
         /\ Reexecutes(c) => InHeader' /\ ~data'.done /\ Pass(NextState(c), at, data, mark)
  BY Passing DEF Takes, Marks, Reexecutes, Moves

(* What the callbacks for a request's words leave alone. *)
LEMMA HeardRequest ==
  ASSUME IInv, Request
  PROVE  /\ \A s, w : Heard(s, w).done = data.done
         /\ \A s \in UrlStates : \A w : Heard(s, w) = on_url_callback(data, w)
         /\ \A w : Heard("s_header_field", w) = on_header_field(data, w)
         /\ \A s, w : s \notin UrlStates \cup {"s_header_field"} =>
              Heard(s, w) = on_header_value(data, w)
<1>1. IsData(data) /\ IsRequest
  BY DEF IInv, Request
<1> QED
  BY <1>1 DEF Heard, on_url_callback, on_header_field, on_header_value, IsData,
     UrlStates, SchemaStates, ServerStates, QueryStates, FragmentStates

(* The macros that end a word. *)
LEMMA WordPass ==
  ASSUME IInv, InHeader, Request, NEW s, Looks(s), NEW c, HeaderChange(c),
         NextState(c) \in RequestStates
  PROVE  /\ CALLBACK_DATA(c) =>
              InHeader' /\ ~data'.done /\ Pass(NextState(c), at + 1, Heard(s, Word), 0)
         /\ CALLBACK_DATA_NOADVANCE(c) =>
              InHeader' /\ ~data'.done /\ Pass(NextState(c), at, Heard(s, Word), 0)
<1>1. parser.state = s /\ Heard(s, Word).done = data.done
  BY HeardRequest, Counting
<1> QED
  BY <1>1, Passing DEF CALLBACK_DATA, CALLBACK_DATA_NOADVANCE, Word

-----------------------------------------------------------------------------
(* The address ends at a blank. *)
LEMMA BlankIsDead == \A s, c : Blank(c) => parse_url_char(s, c) = "s_dead"
<1> SUFFICES ASSUME NEW s, NEW c, Blank(c) PROVE parse_url_char(s, c) = "s_dead"
  OBVIOUS
<1>1. \A next \in UrlStates : ~UrlRule(s, c, next)
  BY DEF UrlRule, Blank, Alpha, UrlChar, UserInfo, Token, Eol
<1>2. {next \in UrlStates : UrlRule(s, c, next)} = {}
  BY <1>1
<1> QED
  BY <1>2, Zenon DEF parse_url_char

(* The states of the first line, each with the pass it makes. *)
LEMMA FirstLinePass ==
  ASSUME IInv, InHeader, Request, FirstLine
  PROVE  RequestPass
<1> DEFINE Fine == InHeader' /\ ~data'.done
<1> USE DEF RequestStates, Blank, Eol, Space
<1>0. Fine /\ LinePass => RequestPass
  BY DEF RequestPass
<1>1. CASE s_dead \/ s_start_res \/ s_res_http_end \/ s_res_first_status_code
           \/ s_res_status_code \/ s_res_status_start \/ s_res_status \/ s_res_line_almost_done
  <2>1. parser.state \in {"s_dead", "s_start_res", "s_res_http_end", "s_res_first_status_code",
                          "s_res_status_code", "s_res_status_start", "s_res_status",
                          "s_res_line_almost_done"}
    BY <1>1 DEF s_dead, s_start_res, s_res_http_end, s_res_first_status_code,
       s_res_status_code, s_res_status_start, s_res_status, s_res_line_almost_done, Looks
  <2> QED
    BY <2>1 DEF InHeader, UrlStates, SchemaStates, ServerStates, QueryStates, FragmentStates
<1>2. CASE s_start_req
  <2> DEFINE c == [state |-> "s_req_method", method |-> ch, flags |-> {},
                   uses_transfer_encoding |-> FALSE, content_length |-> ULLONG_MAX]
  <2>1. Looks("s_start_req") /\ parser.state = "s_start_req"
    BY <1>2 DEF s_start_req, Looks
  <2>2. HeaderChange(c) /\ NextState(c) = "s_req_method"
    BY DEF HeaderChange, NextState
  <2>3. \/ Eol(ch) /\ Takes([state |-> "s_start_req"])
        \/ ~Eol(ch) /\ Takes(c)
        \/ SET_ERRNO("HPE_INVALID_METHOD")
    BY <1>2, <2>1 DEF s_start_req, Stays, Methods
  <2> HIDE DEF c
  <2>4. CASE Eol(ch) /\ Takes([state |-> "s_start_req"])
    BY <1>0, <2>1, <2>4, StatePass DEF LinePass
  <2>5. CASE ~Eol(ch) /\ Takes(c)
    BY <1>0, <2>1, <2>2, <2>5, ChangePass DEF LinePass
  <2> QED
    BY <2>3, <2>4, <2>5, Failing
<1>3. CASE s_req_method
  <2>1. Looks("s_req_method") /\ parser.state = "s_req_method"
    BY <1>3 DEF s_req_method, Looks
  <2> QED
    BY <1>0, <1>3, <2>1, StatePass, Failing DEF s_req_method, Expects, LinePass
<1>4. CASE s_req_spaces_before_url
  <2> DEFINE from == IF parser.method = "CONNECT" THEN "s_req_server_start" ELSE parser.state
             next == parse_url_char(from, ch)
  <2>1. Looks("s_req_spaces_before_url") /\ parser.state = "s_req_spaces_before_url"
    BY <1>4 DEF s_req_spaces_before_url, Looks
  <2>2. next \in UrlStates \/ next = "s_dead"
    BY ParseResult
  <2>3. Blank(ch) => next = "s_dead"
    BY BlankIsDead
  <2>4. IF ch = " " THEN Takes([state |-> "s_req_spaces_before_url"])
        ELSE IF next = "s_dead" THEN SET_ERRNO("HPE_INVALID_URL")
        ELSE Marks([state |-> next])
    BY <1>4, <2>1 DEF s_req_spaces_before_url, Stays
  <2> HIDE DEF next
  <2>5. CASE ch = " "
    BY <1>0, <2>1, <2>4, <2>5, StatePass DEF LinePass
  <2>6. CASE ch # " " /\ next # "s_dead"
    <3>1. next \in UrlStates /\ next \in RequestStates /\ ~Blank(ch)
      BY <2>2, <2>3, <2>6
    <3>2. Fine /\ Pass(next, at + 1, data, at + 1)
      BY <2>1, <2>4, <2>6, <3>1, StatePass
    <3> QED
      BY <1>0, <2>1, <3>1, <3>2 DEF LinePass
  <2> QED
    BY <2>4, <2>5, <2>6, Failing
<1>5. ASSUME NEW s \in UrlStates, s_req_url(s) PROVE RequestPass
  <2> DEFINE next == parse_url_char(s, ch)
             after == IF ch = "CR" THEN "s_req_line_almost_done" ELSE "s_header_field_start"
             c == [state |-> after, version |-> "HTTP/0.9"]
             b == [state |-> "s_req_http_start"]
  <2>1. Looks(s) /\ parser.state = s
    BY <1>5 DEF s_req_url, Looks
  <2>2. next \in UrlStates \/ next = "s_dead"
    BY ParseResult
  <2>3. Blank(ch) => next = "s_dead"
    BY BlankIsDead
  <2>4. \/ ch = " " /\ CALLBACK_DATA(b)
        \/ Eol(ch) /\ CALLBACK_DATA(c)
        \/ SET_ERRNO("HPE_INVALID_URL")
        \/ next # "s_dead" /\ Takes([state |-> next])
    BY <1>5 DEF s_req_url
  <2>5. /\ HeaderChange(c) /\ NextState(c) = after
        /\ HeaderChange(b) /\ NextState(b) = "s_req_http_start"
    BY DEF HeaderChange, NextState
  <2>6. after \in RequestStates /\ "s_req_http_start" \in RequestStates
    OBVIOUS
  <2> HIDE DEF next, c, b
  <2>7. CASE ch = " " /\ CALLBACK_DATA(b)
    <3>1. Fine /\ Pass("s_req_http_start", at + 1, on_url_callback(data, Word), 0)
      BY <2>1, <2>5, <2>6, <2>7, WordPass, HeardRequest
    <3> QED
      BY <1>0, <2>1, <2>7, <3>1 DEF LinePass
  <2>8. CASE Eol(ch) /\ CALLBACK_DATA(c)
    <3>1. Fine /\ Pass(after, at + 1, on_url_callback(data, Word), 0)
      BY <2>1, <2>5, <2>6, <2>8, WordPass, HeardRequest
    <3> QED
      BY <1>0, <2>1, <2>8, <3>1 DEF LinePass
  <2>9. CASE next # "s_dead" /\ Takes([state |-> next])
    <3>1. next \in UrlStates /\ next \in RequestStates /\ ~Blank(ch)
      BY <2>2, <2>3, <2>9
    <3>2. Fine /\ Moves(next)
      BY <2>1, <2>9, <3>1, StatePass
    <3> QED
      BY <1>0, <2>1, <3>1, <3>2 DEF LinePass
  <2> QED
    BY <2>4, <2>7, <2>8, <2>9, Failing
<1>6. CASE s_req_http_start
  <2> DEFINE c == [state |-> "s_req_http_end", version |-> ch]
  <2>1. Looks("s_req_http_start") /\ parser.state = "s_req_http_start"
    BY <1>6 DEF s_req_http_start, Looks
  <2>2. HeaderChange(c) /\ NextState(c) = "s_req_http_end"
    BY DEF HeaderChange, NextState
  <2>3. \/ ch = " " /\ Takes([state |-> "s_req_http_start"])
        \/ ~Blank(ch) /\ Takes(c)
        \/ SET_ERRNO("HPE_INVALID_CONSTANT")
    BY <1>6, <2>1 DEF s_req_http_start, Stays, Versions
  <2> HIDE DEF c
  <2>4. CASE ch = " " /\ Takes([state |-> "s_req_http_start"])
    BY <1>0, <2>1, <2>4, StatePass DEF LinePass
  <2>5. CASE ~Blank(ch) /\ Takes(c)
    BY <1>0, <2>1, <2>2, <2>5, ChangePass DEF LinePass
  <2> QED
    BY <2>3, <2>4, <2>5, Failing
<1>7. CASE s_req_http_end
  <2>1. Looks("s_req_http_end") /\ parser.state = "s_req_http_end"
    BY <1>7 DEF s_req_http_end, Looks
  <2> QED
    BY <1>0, <1>7, <2>1, StatePass, Failing DEF s_req_http_end, LinePass
<1>8. CASE s_req_line_almost_done
  <2>1. Looks("s_req_line_almost_done") /\ parser.state = "s_req_line_almost_done"
    BY <1>8 DEF s_req_line_almost_done, Looks
  <2> QED
    BY <1>0, <1>8, <2>1, StatePass, Failing DEF s_req_line_almost_done, Expects, LinePass
<1> QED
  BY <1>1, <1>2, <1>3, <1>4, <1>5, <1>6, <1>7, <1>8 DEF FirstLine
(* A value's first symbol leads into the value, whatever its name has been. *)
LEMMA ValueStartPass ==
  ASSUME IInv, InHeader, Request, s_header_value_start
  PROVE  RequestPass
<1> DEFINE h == parser.header_state
           Value1(state) == [state |-> "s_header_value", header_state |-> state]
           up == [state |-> "s_header_value", header_state |-> "h_general",
                  flags |-> parser.flags \cup {"F_UPGRADE"}]
           length == [state |-> "s_header_value", header_state |-> "h_content_length_num",
                      flags |-> parser.flags \cup {"F_CONTENTLENGTH"},
                      content_length |-> Value[ch]]
           Fine == InHeader' /\ ~data'.done /\ Pass("s_header_value", at + 1, data, at + 1)
<1>1. PICK s : /\ Looks(s) /\ parser.state = s
               /\ \/ s = "s_header_value_discard_ws" /\ ~Blank(ch)
                  \/ s = "s_header_value_start"
  BY DEF s_header_value_start, Looks
<1>2. Fine => RequestPass
  <2>1. Fine => ValuePass
    BY <1>1 DEF ValuePass
  <2> QED
    BY <2>1 DEF RequestPass
<1>3. "F_TRAILING" \notin parser.flags /\ "s_header_value" \in RequestStates
  BY <1>1, Counting DEF RequestStates
<1>4. ASSUME NEW c, HeaderChange(c), "state" \in DOMAIN c, c.state = "s_header_value", Marks(c)
      PROVE  RequestPass
  <2>1. NextState(c) = "s_header_value"
    BY <1>4 DEF NextState
  <2> QED
    BY <1>1, <1>2, <1>3, <1>4, <2>1, ChangePass
<1>5. ASSUME NEW state, Marks(Value1(state)) PROVE RequestPass
  <2>1. /\ HeaderChange(Value1(state)) /\ "state" \in DOMAIN Value1(state)
        /\ Value1(state).state = "s_header_value"
    BY DEF HeaderChange
  <2> HIDE DEF Value1
  <2> QED
    BY <1>4, <1>5, <2>1
<1>6. CASE Marks(up)
  <2>1. HeaderChange(up) /\ "state" \in DOMAIN up /\ up.state = "s_header_value"
    BY <1>3 DEF HeaderChange
  <2> HIDE DEF up
  <2> QED
    BY <1>4, <1>6, <2>1
<1>7. CASE Marks(length)
  <2>1. HeaderChange(length) /\ "state" \in DOMAIN length /\ length.state = "s_header_value"
    BY <1>3 DEF HeaderChange
  <2> HIDE DEF length
  <2> QED
    BY <1>4, <1>7, <2>1
<1>8. \/ SET_ERRNO("HPE_INVALID_CONTENT_LENGTH") \/ SET_ERRNO("HPE_UNEXPECTED_CONTENT_LENGTH")
      \/ Marks(up) \/ Marks(length) \/ \E state : Marks(Value1(state))
  <2>1. CASE h = "h_upgrade" \/ h = "h_content_length"
    BY <2>1 DEF s_header_value_start
  <2>2. CASE h # "h_upgrade" /\ h # "h_content_length"
    <3> HIDE DEF up, length
    <3> QED
      BY <2>2 DEF s_header_value_start
  <2> QED
    BY <2>1, <2>2
<1> HIDE DEF up, length, Value1
<1> QED
  BY <1>5, <1>6, <1>7, <1>8, Failing

(* What a line leaves behind is not the flag of a trailer. *)
LEMMA FinishedRequest ==
  ASSUME IInv, InHeader, Request PROVE "F_TRAILING" \notin FinishedFlags
BY DEF FinishedFlags, ConnectionFlag, InHeader

(* The rest of a value, and what follows its line. *)
LEMMA ValueRestPass ==
  ASSUME IInv, InHeader, Request, s_header_value
  PROVE  RequestPass
<1> DEFINE h == parser.header_state
           ws == [header_state |-> "h_content_length_ws"]
           digit == [content_length |-> parser.content_length * 10 + Value[ch]]
           stay == [state |-> parser.state]
           on == [header_state |-> ValueState(h, ch),
                  flags |-> IF ch = "," THEN parser.flags \cup ConnectionFlag(h)
                            ELSE parser.flags]
           after == [state |-> "s_header_almost_done"]
           Fine == InHeader' /\ ~data'.done
<1>1. Looks("s_header_value") /\ parser.state = "s_header_value"
  BY DEF s_header_value, Looks
<1>2. "F_TRAILING" \notin parser.flags
  BY <1>1, Counting
<1>3. Fine /\ ValuePass => RequestPass
  BY DEF RequestPass
<1>4. /\ HeaderChange(ws) /\ NextState(ws) = parser.state
      /\ HeaderChange(digit) /\ NextState(digit) = parser.state
      /\ HeaderChange(stay) /\ NextState(stay) = parser.state
      /\ HeaderChange(after) /\ NextState(after) = "s_header_almost_done"
  BY DEF HeaderChange, NextState
<1>5. HeaderChange(on) /\ NextState(on) = parser.state
  BY <1>2 DEF HeaderChange, NextState, ConnectionFlag
<1>6. \/ ch = "CR" /\ CALLBACK_DATA(after)
      \/ ch = "LF" /\ CALLBACK_DATA_NOADVANCE(after)
      \/ SET_ERRNO("HPE_INVALID_HEADER_TOKEN") \/ SET_ERRNO("HPE_INVALID_CONTENT_LENGTH")
      \/ ~Eol(ch) /\ (Takes(ws) \/ Takes(digit) \/ Takes(stay) \/ Takes(on))
  BY <1>1 DEF s_header_value, Stays, ContentLength
<1>7. {"s_header_value", "s_header_almost_done"} \subseteq RequestStates
  BY DEF RequestStates
<1> HIDE DEF ws, digit, stay, on, after
<1>8. \A w : Heard("s_header_value", w) = on_header_value(data, w)
  BY HeardRequest DEF UrlStates, SchemaStates, ServerStates, QueryStates, FragmentStates
<1>9. CASE ~Eol(ch) /\ (Takes(ws) \/ Takes(digit) \/ Takes(stay) \/ Takes(on))
  <2>1. Fine /\ Moves("s_header_value")
    BY <1>1, <1>4, <1>5, <1>7, <1>9, ChangePass
  <2> QED
    BY <1>1, <1>3, <1>9, <2>1 DEF ValuePass
<1>10. CASE ch = "CR" /\ CALLBACK_DATA(after)
  <2>1. Fine /\ Pass("s_header_almost_done", at + 1, on_header_value(data, Word), 0)
    BY <1>1, <1>4, <1>7, <1>8, <1>10, WordPass
  <2> QED
    BY <1>1, <1>3, <1>10, <2>1 DEF ValuePass
<1>11. CASE ch = "LF" /\ CALLBACK_DATA_NOADVANCE(after)
  <2>1. Fine /\ Pass("s_header_almost_done", at, on_header_value(data, Word), 0)
    BY <1>1, <1>4, <1>7, <1>8, <1>11, WordPass
  <2> QED
    BY <1>1, <1>3, <1>11, <2>1 DEF ValuePass
<1> QED
  BY <1>6, <1>9, <1>10, <1>11, Failing

(* The end of the header is the one pass after which a request is done. *)
LEMMA HeadersAlmostDonePass ==
  ASSUME IInv, InHeader, Request, s_headers_almost_done
  PROVE  RequestPass
<1> DEFINE up == IF {"F_UPGRADE", "F_CONNECTION_UPGRADE"} \subseteq parser.flags
                 THEN IsRequest \/ parser.status_code = "101"
                 ELSE parser.method = "CONNECT"
           c == [state |-> "s_headers_done", upgrade |-> up]
<1>1. Looks("s_headers_almost_done") /\ parser.state = "s_headers_almost_done"
  BY DEF s_headers_almost_done, Looks
<1>2. /\ "F_TRAILING" \notin parser.flags /\ COUNT_HEADER_SIZE = at + 1
      /\ at + 1 <= max_header_size /\ DOMAIN parser = Fields /\ IsData(data) /\ IsRequest
  BY <1>1, Counting
<1>3. \/ SET_ERRNO("HPE_STRICT") \/ SET_ERRNO("HPE_UNEXPECTED_CONTENT_LENGTH")
      \/ ch = "LF" /\ Goes(c, at, on_headers_complete, 0)
  BY <1>2 DEF s_headers_almost_done
<1>4. CASE ch = "LF" /\ Goes(c, at, on_headers_complete, 0)
  <2>1. "nread" \notin DOMAIN c
    OBVIOUS
  <2> HIDE DEF c
  <2>2. parser' = With([parser EXCEPT !.nread = COUNT_HEADER_SIZE], c)
    BY <1>4 DEF Goes
  <2>3. parser'.nread = at + 1 /\ parser'.state = "s_headers_done"
    BY <1>2, <2>1, <2>2 DEF With, Fields, c
  <2>4. /\ data' = on_headers_complete /\ at' = at /\ text' = text
        /\ torn' = (torn \/ parser.state = "s_header_value_start")
    BY <1>4, Zenon DEF Goes
  <2>7. calling'
    BY <1>1, <1>4, Counting DEF Goes
  <2>5. data'.done /\ data'.url = data.url /\ data'.headers = data.headers
    BY <1>2, <2>4 DEF on_headers_complete, IsData
  <2>6. LastPass
    BY <1>1, <1>2, <1>4, <2>3, <2>4, <2>5, <2>7 DEF LastPass
  <2> QED
    BY <2>5, <2>6 DEF RequestPass, InHeader, Request
<1> HIDE DEF c
<1> QED
  BY <1>3, <1>4, Failing

(* The states of the other lines. *)
LEMMA HeaderLinesPass ==
  ASSUME IInv, InHeader, Request, HeaderLines
  PROVE  RequestPass
<1> DEFINE Fine == InHeader' /\ ~data'.done
<1> USE DEF RequestStates, Eol, Space
<1>0. Fine /\ (FieldPass \/ ValuePass) => RequestPass
  BY DEF RequestPass
<1>1. CASE s_header_field_start
  <2> DEFINE c == [state |-> "s_header_field", header_state |-> NameState(ch),
                   uses_transfer_encoding |->
                     parser.uses_transfer_encoding \/ ch = "transfer-encoding"]
  <2>1. Looks("s_header_field_start") /\ parser.state = "s_header_field_start"
    BY <1>1 DEF s_header_field_start, Looks
  <2>2. HeaderChange(c) /\ NextState(c) = "s_header_field"
    BY DEF HeaderChange, NextState
  <2>3. \/ ch = "CR" /\ Takes([state |-> "s_headers_almost_done"])
        \/ ch = "LF" /\ Reexecutes([state |-> "s_headers_almost_done"])
        \/ SET_ERRNO("HPE_INVALID_HEADER_TOKEN")
        \/ Token(ch) /\ Marks(c)
    BY <1>1 DEF s_header_field_start
  <2> HIDE DEF c
  <2>4. CASE ch = "CR" /\ Takes([state |-> "s_headers_almost_done"])
    BY <1>0, <2>1, <2>4, StatePass DEF FieldPass
  <2>5. CASE ch = "LF" /\ Reexecutes([state |-> "s_headers_almost_done"])
    BY <1>0, <2>1, <2>5, StatePass DEF FieldPass
  <2>6. CASE Token(ch) /\ Marks(c)
    BY <1>0, <2>1, <2>2, <2>6, ChangePass DEF FieldPass
  <2> QED
    BY <2>3, <2>4, <2>5, <2>6, Failing
<1>2. CASE s_header_field
  <2> DEFINE c == [header_state |-> "h_general"]
             b == [state |-> "s_header_value_discard_ws"]
  <2>1. Looks("s_header_field") /\ parser.state = "s_header_field"
    BY <1>2 DEF s_header_field, Looks
  <2>2. /\ HeaderChange(c) /\ NextState(c) = "s_header_field"
        /\ HeaderChange(b) /\ NextState(b) = "s_header_value_discard_ws"
    BY <2>1 DEF HeaderChange, NextState
  <2>3. \/ Token(ch) /\ Takes(c)
        \/ ch = ":" /\ CALLBACK_DATA(b)
        \/ SET_ERRNO("HPE_INVALID_HEADER_TOKEN")
    BY <1>2 DEF s_header_field
  <2> HIDE DEF c, b
  <2>4. CASE Token(ch) /\ Takes(c)
    BY <1>0, <2>1, <2>2, <2>4, ChangePass DEF FieldPass
  <2>5. CASE ch = ":" /\ CALLBACK_DATA(b)
    <3>1. Fine /\ Pass("s_header_value_discard_ws", at + 1, on_header_field(data, Word), 0)
      BY <2>1, <2>2, <2>5, WordPass, HeardRequest
    <3> QED
      BY <1>0, <2>1, <2>5, <3>1 DEF FieldPass
  <2> QED
    BY <2>3, <2>4, <2>5, Failing
<1>3. CASE s_header_value_discard_ws
  <2>1. Looks("s_header_value_discard_ws") /\ parser.state = "s_header_value_discard_ws"
    BY <1>3 DEF s_header_value_discard_ws, Looks
  <2> QED
    BY <1>0, <1>3, <2>1, StatePass DEF s_header_value_discard_ws, Stays, ValuePass
<1>4. CASE s_header_almost_done \/ s_header_value_discard_ws_almost_done
  <2>1. PICK s, next :
          /\ Looks(s) /\ parser.state = s
          /\ \/ s = "s_header_almost_done" /\ next = "s_header_value_lws"
             \/ /\ s = "s_header_value_discard_ws_almost_done"
                /\ next = "s_header_value_discard_lws"
          /\ \/ ch = "LF" /\ Takes([state |-> next])
             \/ SET_ERRNO("HPE_LF_EXPECTED") \/ SET_ERRNO("HPE_STRICT")
    BY <1>4 DEF s_header_almost_done, s_header_value_discard_ws_almost_done, Expects, Looks
  <2> QED
    BY <1>0, <2>1, StatePass, Failing DEF ValuePass
<1>5. CASE s_header_value_lws
  <2> DEFINE folded == [state |-> "s_header_value_start",
                        header_state |-> IF parser.header_state = "h_content_length_num"
                                         THEN "h_content_length_ws" ELSE parser.header_state]
             next == [state |-> "s_header_field_start", flags |-> FinishedFlags]
  <2>1. Looks("s_header_value_lws") /\ parser.state = "s_header_value_lws"
    BY <1>5 DEF s_header_value_lws, Looks
  <2>2. /\ HeaderChange(folded) /\ NextState(folded) = "s_header_value_start"
        /\ HeaderChange(next) /\ NextState(next) = "s_header_field_start"
    BY FinishedRequest DEF HeaderChange, NextState
  <2>3. \/ ch = " " /\ Reexecutes(folded)
        \/ ch # " " /\ Reexecutes(next)
    BY <1>5 DEF s_header_value_lws
  <2> HIDE DEF folded, next
  <2>4. \/ ch = " " /\ Fine /\ Pass("s_header_value_start", at, data, mark)
        \/ ch # " " /\ Fine /\ Pass("s_header_field_start", at, data, mark)
    BY <2>1, <2>2, <2>3, ChangePass
  <2> QED
    BY <1>0, <2>1, <2>4 DEF ValuePass
<1>6. CASE s_header_value_discard_lws
  <2> DEFINE next == [state |-> "s_header_field_start", flags |-> FinishedFlags]
  <2>1. Looks("s_header_value_discard_lws") /\ parser.state = "s_header_value_discard_lws"
    BY <1>6 DEF s_header_value_discard_lws, Looks
  <2>2. HeaderChange(next) /\ NextState(next) = "s_header_field_start"
    BY FinishedRequest DEF HeaderChange, NextState
  <2>3. \/ ch = " " /\ Takes([state |-> "s_header_value_discard_ws"])
        \/ SET_ERRNO("HPE_INVALID_CONTENT_LENGTH")
        \/ ch # " " /\ Goes(next, at, Heard("s_header_value_discard_lws", <<>>), 0)
    BY <1>6, <2>1 DEF s_header_value_discard_lws
  <2>4. \A w : /\ Heard("s_header_value_discard_lws", w) = on_header_value(data, w)
               /\ Heard("s_header_value_discard_lws", w).done = data.done
    BY HeardRequest DEF UrlStates, SchemaStates, ServerStates, QueryStates, FragmentStates
  <2> HIDE DEF next
  <2>5. CASE ch = " " /\ Takes([state |-> "s_header_value_discard_ws"])
    BY <1>0, <2>1, <2>5, StatePass DEF ValuePass
  <2>6. CASE ch # " " /\ Goes(next, at, Heard("s_header_value_discard_lws", <<>>), 0)
    <3>1. Fine /\ Pass("s_header_field_start", at, on_header_value(data, <<>>), 0)
      BY <2>1, <2>2, <2>4, <2>6, Passing
    <3> QED
      BY <1>0, <2>1, <2>6, <3>1 DEF ValuePass
  <2> QED
    BY <2>3, <2>5, <2>6, Failing
<1>7. CASE s_headers_done
  <2>1. Looks("s_headers_done")
    BY <1>7 DEF s_headers_done
  <2> QED
    BY <2>1, Counting DEF UrlStates, SchemaStates, ServerStates, QueryStates, FragmentStates
<1> QED
  BY <1>1, <1>2, <1>3, <1>4, <1>5, <1>6, <1>7, ValueStartPass, ValueRestPass,
     HeadersAlmostDonePass DEF HeaderLines

(* No pass over a body is one over a request's header. *)
LEMMA BodyNoPass == ASSUME IInv, InHeader, Request PROVE ~Body
<1>1. parser.state \in RequestStates
  BY DEF InHeader
<1>2. Body => parser.state \in {"s_body_identity", "s_body_identity_eof", "s_message_done",
        "s_chunk_size_start", "s_chunk_size", "s_chunk_parameters", "s_chunk_size_almost_done",
        "s_chunk_data", "s_chunk_data_almost_done", "s_chunk_data_done"}
  BY DEF Body, s_body_identity, s_body_identity_eof, s_message_done, s_chunk_size_start,
     s_chunk_size, s_chunk_parameters, s_chunk_size_almost_done, s_chunk_data,
     s_chunk_data_almost_done, s_chunk_data_done, Looks
<1> QED
  BY <1>1, <1>2 DEF RequestStates, UrlStates, SchemaStates, ServerStates, QueryStates,
     FragmentStates

(* What a pass makes of a request whose header is being read. *)
LEMMA ExecutePass ==
  ASSUME IInv, InHeader, Request, http_parser_execute PROVE RequestPass
BY FirstLinePass, HeaderLinesPass, BodyNoPass, Failing DEF http_parser_execute, HeaderOverflow

-----------------------------------------------------------------------------
(* What a pass keeps: the message, that it is done with or torn, and what   *)
(* has been consumed of it.                                                 *)
Keeps ==
  /\ message' = message /\ text' = text /\ (data.done => data'.done)
  /\ (torn => torn') /\ at' >= at

(* The forms in which a pass may end keep it. *)
LEMMA Keeping ==
  ASSUME IInv
  PROVE  /\ \A c, to, d, m : to >= at /\ (data.done => d.done) /\ Goes(c, to, d, m) => Keeps
         /\ \A c : Takes(c) \/ Marks(c) \/ Reexecutes(c) => Keeps
         /\ \A c : CALLBACK_DATA(c) \/ CALLBACK_DATA_NOADVANCE(c) => Keeps
         /\ \A error : SET_ERRNO(error) => Keeps
         /\ \A c, d : (data.done => d.done) /\ Returns(c, d) => Keeps
         /\ \A s, w : data.done => Heard(s, w).done
         /\ data.done => on_headers_complete.done /\ on_message_complete.done
         /\ at >= at /\ at + 1 >= at
<1>1. IsData(data) /\ at \in Nat /\ at >= at /\ at + 1 >= at
  BY MessagesAssumption DEF IInv, TypeOK
<1>2. \A s, w : Heard(s, w).done = data.done
  BY <1>1 DEF Heard, on_url_callback, on_header_field, on_header_value, IsData
<1>3. data.done => on_headers_complete.done /\ on_message_complete.done
  BY <1>1 DEF on_headers_complete, on_message_complete, IsData
<1>4. ASSUME NEW c, NEW to, NEW d, NEW m, to >= at, data.done => d.done, Goes(c, to, d, m)
      PROVE  Keeps
  <2>1. /\ message' = message /\ text' = text /\ (torn => torn') /\ at' = to
        /\ data' = d \/ data' = Heard(parser'.state, SubSeq(text, m, to))
    BY <1>4, Zenon DEF Goes
  <2> QED
    BY <1>2, <1>4, <2>1 DEF Keeps
<1>5. /\ \A c : Takes(c) \/ Marks(c) \/ Reexecutes(c) => Keeps
      /\ \A c : CALLBACK_DATA(c) \/ CALLBACK_DATA_NOADVANCE(c) => Keeps
  BY <1>1, <1>2, <1>4 DEF Takes, Marks, Reexecutes, CALLBACK_DATA, CALLBACK_DATA_NOADVANCE
<1>6. \A error : SET_ERRNO(error) => Keeps
  BY <1>1 DEF SET_ERRNO, Keeps
<1>7. \A c, d : (data.done => d.done) /\ Returns(c, d) => Keeps
  BY <1>1 DEF Returns, Keeps
<1> QED
  BY <1>1, <1>2, <1>3, <1>4, <1>5, <1>6, <1>7

(* Every pass keeps it. *)
LEMMA ExecuteKeeps == IInv /\ http_parser_execute => Keeps
<1> SUFFICES ASSUME IInv, http_parser_execute PROVE Keeps
  OBVIOUS
<1>1. CASE HeaderOverflow
  BY <1>1, Keeping DEF HeaderOverflow
<1>2. CASE FirstLine
  <2>1. CASE s_dead \/ s_start_res \/ s_res_http_end \/ s_res_first_status_code
             \/ s_res_status_code \/ s_res_status_start \/ s_res_status \/ s_res_line_almost_done
    BY <2>1, Keeping DEF s_dead, s_start_res, s_res_http_end, s_res_first_status_code,
       s_res_status_code, s_res_status_start, s_res_status, s_res_line_almost_done,
       Expects, Stays
  <2>2. CASE s_start_req \/ s_req_method \/ s_req_spaces_before_url \/ s_req_http_start
             \/ s_req_http_end \/ s_req_line_almost_done
    BY <2>2, Keeping DEF s_start_req, s_req_method, s_req_spaces_before_url, s_req_http_start,
       s_req_http_end, s_req_line_almost_done, Expects, Stays
  <2>3. ASSUME NEW s \in UrlStates, s_req_url(s) PROVE Keeps
    BY <2>3, Keeping DEF s_req_url
  <2> QED
    BY <1>2, <2>1, <2>2, <2>3 DEF FirstLine
<1>3. CASE HeaderLines
  <2>1. CASE s_header_field_start \/ s_header_field \/ s_header_value_discard_ws
             \/ s_header_almost_done \/ s_header_value_lws
             \/ s_header_value_discard_ws_almost_done
    BY <2>1, Keeping DEF s_header_field_start, s_header_field, s_header_value_discard_ws,
       s_header_almost_done, s_header_value_lws, s_header_value_discard_ws_almost_done,
       Expects, Stays
  <2>2. CASE s_header_value_start
    BY <2>2, Keeping DEF s_header_value_start
  <2>3. CASE s_header_value
    BY <2>3, Keeping DEF s_header_value, ContentLength, Stays
  <2>4. CASE s_header_value_discard_lws
    BY <2>4, Keeping DEF s_header_value_discard_lws
  <2>5. CASE s_headers_almost_done
    BY <2>5, Keeping DEF s_headers_almost_done
  <2>6. CASE s_headers_done
    BY <2>6, Keeping DEF s_headers_done, Begins
  <2> QED
    BY <1>3, <2>1, <2>2, <2>3, <2>4, <2>5, <2>6 DEF HeaderLines
<1>4. CASE Body
  <2>1. CASE s_body_identity
    <3>1. /\ to_read \in 1..(upTo - at) /\ at + to_read \in at..upTo
          /\ at + to_read - 1 \in at..upTo
      BY <2>1, ToRead DEF s_body_identity
    <3>2. at + to_read >= at /\ at + to_read - 1 >= at
      BY <3>1
    <3> QED
      BY <2>1, <3>2, Keeping DEF s_body_identity
  <2>2. CASE s_chunk_data
    <3>1. at + to_read \in at..upTo
      BY <2>2, ToRead DEF s_chunk_data
    <3> QED
      BY <2>2, <3>1, Keeping DEF s_chunk_data
  <2>3. CASE s_body_identity_eof
    <3>1. upTo >= at
      BY <2>3, LooksFacts DEF s_body_identity_eof
    <3> QED
      BY <2>3, <3>1, Keeping DEF s_body_identity_eof
  <2>4. CASE s_message_done
    BY <2>4, Keeping DEF s_message_done
  <2>5. CASE s_chunk_size_start \/ s_chunk_size \/ s_chunk_parameters \/ s_chunk_size_almost_done
             \/ s_chunk_data_almost_done \/ s_chunk_data_done
    BY <2>5, Keeping DEF s_chunk_size_start, s_chunk_size, s_chunk_parameters,
       s_chunk_size_almost_done, s_chunk_data_almost_done, s_chunk_data_done, Stays, Expects
  <2> QED
    BY <1>4, <2>1, <2>2, <2>3, <2>4, <2>5 DEF Body
<1> QED
  BY <1>1, <1>2, <1>3, <1>4 DEF http_parser_execute

(* A pass is one of a call. *)
LEMMA ExecuteCalls == http_parser_execute => calling
<1>1. FirstLine => calling
  BY DEF FirstLine, s_dead, s_start_res, s_res_http_end, s_res_first_status_code,
     s_res_status_code, s_res_status_start, s_res_status, s_res_line_almost_done, s_start_req,
     s_req_method, s_req_spaces_before_url, s_req_url, s_req_http_start, s_req_http_end,
     s_req_line_almost_done, Looks
<1>2. HeaderLines => calling
  BY DEF HeaderLines, s_header_field_start, s_header_field, s_header_value_discard_ws,
     s_header_value_start, s_header_value, s_header_almost_done, s_header_value_lws,
     s_header_value_discard_ws_almost_done, s_header_value_discard_lws,
     s_headers_almost_done, s_headers_done, Looks
<1>3. Body => calling
  BY DEF Body, s_body_identity, s_body_identity_eof, s_message_done, s_chunk_size_start,
     s_chunk_size, s_chunk_parameters, s_chunk_size_almost_done, s_chunk_data,
     s_chunk_data_almost_done, s_chunk_data_done, Looks
<1> QED
  BY <1>1, <1>2, <1>3 DEF http_parser_execute, HeaderOverflow

(* A step that is no pass: a read, a close, or none. *)
Pause ==
  /\ parser'.state = parser.state /\ at' = at /\ text' = text /\ data' = data /\ torn' = torn
  /\ \/ mark' = mark /\ (calling => calling')
     \/ ~calling

(* How a request comes to be one step further. *)
LEMMA RequestStep ==
  ASSUME IInv, InHeader, [Next]_vars
  PROVE  /\ InHeader'
         /\ Request' => /\ Request
                        /\ Pause \/ (calling /\ (LinePass \/ FieldPass \/ ValuePass))
         /\ IsRequest /\ ~data.done /\ data'.done => Request /\ LastPass
<1>1. CASE http_parser_execute
  <2>1. calling /\ parser.http_errno = "HPE_OK"
    BY <1>1, ExecuteCalls DEF IInv
  <2>2. CASE Request
    BY <1>1, <2>1, <2>2, ExecutePass DEF RequestPass
  <2>3. CASE ~Request
    <3>1. Keeps /\ IInv'
      BY <1>1, ExecuteKeeps, ParserStep
    <3>2. IsRequest' = IsRequest
      BY <3>1 DEF Keeps, IInv, TypeOK, IsRequest
    <3>3. ~Request'
      BY <2>1, <2>3, <3>1, <3>2 DEF Keeps, Request
    <3> QED
      BY <2>1, <2>3, <3>3 DEF InHeader, Request
  <2> QED
    BY <2>2, <2>3
<1>2. CASE \E n \in Pieces : Read(n)
  <2>1. /\ UNCHANGED <<text, at, parser, data, torn>> /\ ~calling /\ calling' /\ again' = FALSE
    BY <1>2 DEF Read, Outcome
  <2>2. Request' = Request /\ ("F_TRAILING" \in parser.flags)' = ("F_TRAILING" \in parser.flags)
    BY <2>1 DEF Request, IsRequest
  <2>3. InHeader /\ Request => parser'.nread = at' + (IF again' THEN 1 ELSE 0)
    BY <2>1 DEF InHeader
  <2>4. InHeader'
    BY <2>1, <2>2, <2>3 DEF InHeader
  <2> QED
    BY <2>1, <2>2, <2>4 DEF Pause, Request
<1>3. CASE Eof
  <2>1. /\ UNCHANGED <<text, at, torn, mark, calling, again>>
        /\ parser' = parser \/ parser' = [parser EXCEPT !.http_errno = "HPE_INVALID_EOF_STATE"]
        /\ IsRequest => data' = data
    BY <1>3 DEF Eof, on_message_complete
  <2>2. Request' => Request /\ parser' = parser
    <3>1. parser'.type = parser.type /\ DOMAIN parser = Fields
      BY <2>1 DEF IInv, Fields
    <3>2. parser' # parser => parser'.http_errno # "HPE_OK"
      BY <2>1, <3>1 DEF Fields
    <3> QED
      BY <2>1, <3>1, <3>2 DEF Request, IsRequest
  <2>3. InHeader'
    BY <2>1, <2>2 DEF InHeader
  <2>4. Request => data' = data
    BY <2>1 DEF Request
  <2> QED
    BY <2>1, <2>2, <2>3, <2>4 DEF Pause, Request
<1>4. CASE UNCHANGED vars
  <2>1. UNCHANGED <<text, at, torn, mark, calling, again, parser, data>>
    BY <1>4 DEF vars
  <2>2. InHeader' = InHeader /\ Request' = Request
    BY <2>1 DEF InHeader, Request, IsRequest
  <2> QED
    BY <2>1, <2>2 DEF Pause, Request
<1> QED
  BY <1>1, <1>2, <1>3, <1>4 DEF Next

-----------------------------------------------------------------------------
(* Where a request ends *)

(* What the symbols up to n are in a state. *)
LastSymbols(t, s, n) ==
  /\ s \in {"s_req_method", "s_req_spaces_before_url", "s_req_http_start", "s_req_http_end",
            "s_header_field", "s_header_value_discard_ws", "s_header_value"} \cup UrlStates =>
       ~Eol(t[n])
  /\ s \in {"s_req_line_almost_done", "s_header_value_discard_ws_almost_done"} =>
       t[n] = "CR" /\ ~Eol(t[n - 1])
  /\ s = "s_header_almost_done" => ~Eol(t[n]) \/ (t[n] = "CR" /\ ~Eol(t[n - 1]))
  /\ s \in {"s_header_field_start", "s_header_value_lws", "s_header_value_discard_lws",
            "s_header_value_start"} => t[n] = "LF"
  /\ s = "s_header_value_start" => Space(t[n + 1])
  /\ s = "s_headers_almost_done" => t[n] = "LF" \/ (t[n] = "CR" /\ t[n - 1] = "LF")

(* The request has begun, and no empty line has been seen since. *)
Begun(t, s, n) ==
  IF s = "s_start_req" THEN \A k \in 1..n : Eol(t[k])
  ELSE \E b \in 1..n :
         /\ RequestAt(t, b) /\ \A k \in (b + 2)..n : ~EmptyLine(t, k)
         /\ IF s = "s_req_method" THEN b = n ELSE b < n


(* The end of a request is where its text has the end of its header. *)
InText ==
  Request => LastSymbols(text, parser.state, at) /\ Begun(text, parser.state, at)

(* The classes of symbols, as far as the ends of words and lines go. *)
LEMMA Classes ==
  /\ \A c : Eol(c) <=> c = "CR" \/ c = "LF"
  /\ \A c : Blank(c) <=> Space(c) \/ Eol(c)
  /\ \A c : Space(c) \/ Token(c) => ~Eol(c)
  /\ \A c : Token(c) => c # ":" /\ ~Space(c)
  /\ \A c : Space(c) => c # ":"
BY Zenon DEF Eol, Blank, Space, Token

(* No pass of the first lines goes back. *)
LEMMA PassMoves ==
  \A next, to, d, m : Pass(next, to, d, m) => parser'.state = next /\ at' = to /\ text' = text
BY DEF Pass

(* What a pass over the first line has as its last symbols. *)
LEMMA LineSymbols ==
  ASSUME LinePass, LastSymbols(text, parser.state, at), at \in Nat
  PROVE  LastSymbols(text', parser'.state, at')
<1> DEFINE s == parser.state
           next == parser'.state
<1> USE PassMoves, Classes DEF Moves, ch, LastSymbols, UrlStates, SchemaStates, ServerStates,
            QueryStates, FragmentStates
<1>1. text' = text /\ at' = at + 1 /\ at' - 1 = at
  BY DEF LinePass
<1>2. \/ next = "s_start_req"
      \/ /\ next \in {"s_req_method", "s_req_spaces_before_url", "s_req_http_start",
                      "s_req_http_end"} \cup UrlStates
         /\ ~Eol(text[at + 1])
      \/ next = "s_req_line_almost_done" /\ text[at + 1] = "CR" /\ ~Eol(text[at])
      \/ next = "s_header_field_start" /\ text[at + 1] = "LF"
  BY DEF LinePass
<1> QED
  BY <1>1, <1>2

(* The same over the names, and what is behind a line. *)
LEMMA FieldSymbols ==
  ASSUME FieldPass, LastSymbols(text, parser.state, at), at \in Nat
  PROVE  LastSymbols(text', parser'.state, at')
<1> USE PassMoves, Classes DEF Moves, ch, LastSymbols, UrlStates, SchemaStates, ServerStates, QueryStates,
            FragmentStates
<1>1. text' = text /\ (at' = at \/ (at' = at + 1 /\ at' - 1 = at))
  BY DEF FieldPass
<1>2. \/ parser'.state = "s_headers_almost_done" /\ at' = at + 1 /\ text[at + 1] = "CR"
           /\ text[at] = "LF"
      \/ parser'.state = "s_headers_almost_done" /\ at' = at /\ text[at] = "LF"
      \/ parser'.state \in {"s_header_field", "s_header_value_discard_ws"}
           /\ at' = at + 1 /\ ~Eol(text[at + 1])
  BY DEF FieldPass
<1> QED
  BY <1>1, <1>2

(* The same over the values. *)
LEMMA ValueSymbols ==
  ASSUME ValuePass, LastSymbols(text, parser.state, at), at \in Nat
  PROVE  LastSymbols(text', parser'.state, at')
<1> DEFINE next == parser'.state
<1> USE PassMoves, Classes DEF Moves, ch, LastSymbols, UrlStates, SchemaStates, ServerStates,
            QueryStates, FragmentStates
<1>1. text' = text /\ (at' = at \/ (at' = at + 1 /\ at' - 1 = at))
  BY DEF ValuePass
<1>2. \/ next \in {"s_header_value_discard_ws", "s_header_value"} /\ at' = at + 1
           /\ ~Eol(text[at + 1])
      \/ next \in {"s_header_value_discard_ws_almost_done", "s_header_almost_done"}
           /\ at' = at + 1 /\ text[at + 1] = "CR" /\ ~Eol(text[at])
      \/ next = "s_header_almost_done" /\ at' = at /\ ~Eol(text[at])
      \/ next \in {"s_header_value_lws", "s_header_value_discard_lws"} /\ at' = at + 1
           /\ text[at + 1] = "LF"
      \/ next = "s_header_field_start" /\ at' = at /\ text[at] = "LF"
      \/ next = "s_header_value_start" /\ at' = at /\ text[at] = "LF" /\ Space(text[at + 1])
  BY DEF ValuePass
<1> QED
  BY <1>1, <1>2

(* No pass but the last takes an empty line. *)
LEMMA NoEmptyLine ==
  ASSUME LinePass \/ FieldPass \/ ValuePass, LastSymbols(text, parser.state, at), at \in Nat,
         at' # at, parser.state # "s_start_req"
  PROVE  ~EmptyLine(text, at + 1)
<1> USE PassMoves, Classes DEF Moves, ch, LastSymbols, UrlStates, SchemaStates, ServerStates,
            QueryStates, FragmentStates
<1>0. (at + 1) - 1 = at /\ (at + 1) - 2 = at - 1
  OBVIOUS
<1> SUFFICES ASSUME text[at + 1] = "LF"
             PROVE  ~Eol(text[at]) \/ (text[at] = "CR" /\ ~Eol(text[at - 1]))
  BY <1>0 DEF EmptyLine
<1>1. CASE LinePass
  BY <1>1 DEF LinePass
<1>2. CASE FieldPass
  BY <1>2 DEF FieldPass
<1>3. CASE ValuePass
  BY <1>3 DEF ValuePass
<1> QED
  BY <1>1, <1>2, <1>3

(* A pass that takes no empty line leaves the request begun. *)
LEMMA StillBegun ==
  ASSUME LinePass \/ FieldPass \/ ValuePass, LastSymbols(text, parser.state, at), at \in Nat,
         Begun(text, parser.state, at)
  PROVE  Begun(text', parser'.state, at')
<1> DEFINE s == parser.state
           next == parser'.state
<1>1. /\ text' = text
      /\ \/ s = "s_start_req" /\ at' = at + 1 /\ Eol(text[at + 1]) /\ next = s
         \/ s = "s_start_req" /\ at' = at + 1 /\ ~Eol(text[at + 1]) /\ next = "s_req_method"
         \/ /\ s = "s_req_method" /\ at' = at + 1
            /\ next \notin {"s_start_req", "s_req_method"}
         \/ /\ s \notin {"s_start_req", "s_req_method"} /\ at' \in {at, at + 1}
            /\ next \notin {"s_start_req", "s_req_method"}
  <2> USE PassMoves DEF Moves, ch, UrlStates, SchemaStates, ServerStates, QueryStates, FragmentStates
  <2>1. CASE LinePass
    BY <2>1 DEF LinePass
  <2>2. CASE FieldPass
    BY <2>2 DEF FieldPass
  <2>3. CASE ValuePass
    BY <2>3 DEF ValuePass
  <2> QED
    BY <2>1, <2>2, <2>3
<1>2. s # "s_start_req" /\ at' # at => ~EmptyLine(text, at + 1)
  BY NoEmptyLine
<1>3. CASE s = "s_start_req" /\ at' = at + 1 /\ Eol(text[at + 1]) /\ next = s
  BY <1>1, <1>3 DEF Begun
<1>4. CASE s = "s_start_req" /\ at' = at + 1 /\ ~Eol(text[at + 1]) /\ next = "s_req_method"
  <2>1. RequestAt(text, at + 1) /\ at + 1 \in 1..(at + 1) /\ (at + 1 + 2)..(at + 1) = {}
    BY <1>4 DEF Begun, RequestAt
  <2> QED
    BY <1>1, <1>4, <2>1 DEF Begun
<1>5. CASE s # "s_start_req" /\ next \notin {"s_start_req", "s_req_method"}
  <2>1. PICK b \in 1..at : /\ RequestAt(text, b) /\ \A k \in (b + 2)..at : ~EmptyLine(text, k)
                           /\ IF s = "s_req_method" THEN b = at ELSE b < at
    BY <1>5 DEF Begun
  <2>2. \A k \in (b + 2)..at' : ~EmptyLine(text, k)
    <3> SUFFICES ASSUME NEW k \in (b + 2)..at' PROVE ~EmptyLine(text, k)
      OBVIOUS
    <3>1. k \in (b + 2)..at \/ (at' # at /\ k = at + 1)
      BY <1>1
    <3> QED
      BY <1>2, <1>5, <2>1, <3>1
  <2>3. b \in 1..at' /\ b < at'
    BY <1>1, <1>5, <2>1
  <2> QED
    BY <1>1, <1>5, <2>1, <2>2, <2>3 DEF Begun
<1> QED
  BY <1>1, <1>3, <1>4, <1>5

(* The place in the text is the parser's at every step. *)
LEMMA InTextKept ==
  ASSUME IInv, InHeader, InText, [Next]_vars PROVE InText'
<1> SUFFICES ASSUME Request' PROVE (LastSymbols(text, parser.state, at) /\ Begun(text, parser.state, at))'
  BY DEF InText
<1>1. Request /\ (LinePass \/ FieldPass \/ ValuePass \/ Pause)
  BY RequestStep
<1>2. LastSymbols(text, parser.state, at) /\ Begun(text, parser.state, at) /\ at \in Nat
  BY <1>1, MessagesAssumption DEF InText, IInv, TypeOK
<1>3. CASE Pause
  BY <1>2, <1>3 DEF Pause
<1> QED
  BY <1>1, <1>2, <1>3, LineSymbols, FieldSymbols, ValueSymbols, StillBegun

(* Before the first symbol nothing has begun. *)
LEMMA InitText == Init => InHeader /\ InText
<1> SUFFICES ASSUME Init PROVE InHeader /\ InText
  OBVIOUS
<1>1. Request => /\ parser.state = "s_start_req" /\ parser.flags = {} /\ parser.nread = 0
                 /\ at = 0 /\ again = FALSE
  BY DEF Init, http_parser_init, Request, IsRequest
<1>2. InHeader
  BY <1>1 DEF InHeader, RequestStates
<1>3. Request => LastSymbols(text, "s_start_req", 0) /\ Begun(text, "s_start_req", 0)
  BY DEF LastSymbols, Begun, UrlStates, SchemaStates, ServerStates, QueryStates, FragmentStates
<1> QED
  BY <1>1, <1>2, <1>3 DEF InText

(* The last pass is over the end of the first empty line. *)
LEMMA HeaderEnds ==
  ASSUME IInv, InHeader, InText, [Next]_vars, IsRequest, ~data.done, data'.done
  PROVE  \E b \in 1..at : HeaderAt(text, b, at + 1)
<1>1. Request
  BY RequestStep
<1>2. LastPass /\ LastSymbols(text, parser.state, at) /\ Begun(text, parser.state, at)
  BY <1>1, RequestStep DEF InText
<1>3. at \in Nat /\ (at + 1) - 1 = at /\ (at + 1) - 2 = at - 1
  BY MessagesAssumption DEF IInv, TypeOK
<1>4. EmptyLine(text, at + 1)
  BY <1>2, <1>3 DEF EmptyLine, LastPass, LastSymbols, ch
<1> QED
  BY <1>2, <1>3, <1>4 DEF LastPass, Begun, HeaderAt

(* A request is done at the first empty line. *)
THEOREM EndsAtEmptyLine == Spec => [][EndSeen]_vars
<1>1. IInv /\ InHeader /\ InText /\ [Next]_vars => InHeader' /\ InText'
  BY RequestStep, InTextKept
<1>2. Spec => [](IInv /\ InHeader /\ InText)
  BY <1>1, InitText, ParserInvariance, PTL DEF Spec
<1>3. IInv /\ InHeader /\ InText /\ [Next]_vars => [EndSeen]_vars
  BY HeaderEnds, RequestStep DEF EndSeen, LastPass
<1> QED
  BY <1>2, <1>3, PTL DEF Spec

-----------------------------------------------------------------------------
(* What the address is *)

(* The address, as far as it has been seen: still to come, being read from the *)
(* mark on, or kept.                                                           *)
Addressed(t, s, n, m, url) ==
  /\ s = "s_req_method" => n >= 1 /\ RequestAt(t, n)
  /\ s = "s_req_spaces_before_url" =>
       \E b \in 1..(n - 1) : RequestAt(t, b) /\ \A k \in (b + 1)..n : Space(t[k])
  /\ s \in UrlStates =>
       \E b \in 1..n :
         /\ RequestAt(t, b) /\ m \in (b + 2)..n
         /\ \A k \in (b + 1)..(m - 1) : Space(t[k])
         /\ \A k \in m..n : ~Blank(t[k])
  /\ s \notin {"s_start_req", "s_req_method", "s_req_spaces_before_url"} \cup UrlStates =>
       \E b \in 1..n, i \in 1..n, j \in 1..n :
         RequestAt(t, b) /\ AddressAt(t, b, i, j) /\ url = SubSeq(t, i, j)

(* The states whose pass hears a word. *)
Hearing == UrlStates \cup {"s_header_field", "s_header_value"}

(* A word that no read has torn is being read in the call it has begun in. *)
HearsInCall ==
  Request /\ ~torn /\ parser.state \in Hearing => calling /\ mark # 0

InAddress == Request /\ ~torn => Addressed(text, parser.state, at, mark, data.url)

(* A pass that ends no word leaves what has been heard alone, and a torn word *)
(* stays torn.                                                                *)
LEMMA PassData ==
  \A next, to, d, m :
    Pass(next, to, d, m) /\ ~torn' =>
      /\ ~torn /\ data' = d /\ mark' = m /\ (m # 0 => calling')
      /\ parser.state # "s_header_value_start"
BY Zenon DEF Pass

(* The callbacks for the header's lines leave the address alone. *)
LEMMA UrlLeftAlone ==
  ASSUME IsData(data)
  PROVE  /\ \A w : on_url_callback(data, w).url = w
         /\ \A w : on_header_field(data, w).url = data.url
         /\ \A w : on_header_value(data, w).url = data.url
BY DEF IsData, on_url_callback, on_header_field, on_header_value

(* The first line's passes: the mark is set at the word's first symbol, and *)
(* the word ends at a blank.                                                *)
LEMMA LineAddressed ==
  ASSUME IInv, InHeader, InText, Request, LinePass, ~torn',
         Addressed(text, parser.state, at, mark, data.url)
  PROVE  Addressed(text', parser'.state, at', mark', data'.url)
<1> DEFINE s == parser.state
           next == parser'.state
           url == data.url
<1> USE PassMoves, PassData, Classes DEF Moves
<1>0. /\ at \in Nat /\ IsData(data) /\ text' = text /\ at' = at + 1
      /\ LastSymbols(text, s, at) /\ Begun(text, s, at)
  BY MessagesAssumption DEF IInv, TypeOK, InText, LinePass
<1>1. CASE next = "s_start_req"
  BY <1>1 DEF Addressed, UrlStates, SchemaStates, ServerStates, QueryStates, FragmentStates
<1>2. CASE s = "s_start_req" /\ next = "s_req_method"
  <2>1. ~Eol(text[at + 1])
    BY <1>2 DEF LinePass, ch, UrlStates, SchemaStates, ServerStates, QueryStates, FragmentStates
  <2>2. RequestAt(text, at + 1)
    BY <1>0, <1>2, <2>1 DEF Begun, RequestAt
  <2> QED
    BY <1>0, <1>2, <2>2 DEF Addressed, UrlStates, SchemaStates, ServerStates, QueryStates,
       FragmentStates
<1>3. CASE next = "s_req_spaces_before_url"
  <2>1. /\ Space(text[at + 1]) /\ s \in {"s_req_method", "s_req_spaces_before_url"}
    BY <1>3 DEF LinePass, ch, UrlStates, SchemaStates, ServerStates, QueryStates, FragmentStates
  <2>2. PICK b \in 1..at : RequestAt(text, b) /\ \A k \in (b + 1)..at : Space(text[k])
    <3>1. CASE s = "s_req_method"
      BY <1>0, <3>1 DEF Addressed
    <3>2. CASE s = "s_req_spaces_before_url"
      BY <1>0, <3>2 DEF Addressed
    <3> QED
      BY <2>1, <3>1, <3>2
  <2>3. \A k \in (b + 1)..(at + 1) : Space(text[k])
    BY <1>0, <2>1, <2>2
  <2> QED
    BY <1>0, <1>3, <2>2, <2>3 DEF Addressed, UrlStates, SchemaStates, ServerStates, QueryStates,
       FragmentStates
<1>4. CASE s = "s_req_spaces_before_url" /\ next \in UrlStates
  <2>1. ~Blank(text[at + 1]) /\ mark' = at + 1
    BY <1>4 DEF LinePass, ch, UrlStates, SchemaStates, ServerStates, QueryStates, FragmentStates
  <2>2. PICK b \in 1..(at - 1) : RequestAt(text, b) /\ \A k \in (b + 1)..at : Space(text[k])
    BY <1>4 DEF Addressed
  <2>3. /\ (at + 1) - 1 = at /\ at + 1 \in (b + 2)..(at + 1) /\ b \in 1..(at + 1)
        /\ \A k \in (at + 1)..(at + 1) : ~Blank(text[k])
    BY <1>0, <2>1, <2>2
  <2> QED
    BY <1>0, <1>4, <2>1, <2>2, <2>3 DEF Addressed, UrlStates, SchemaStates, ServerStates,
       QueryStates, FragmentStates
<1>5. CASE s \in UrlStates /\ next \in UrlStates
  <2>1. ~Blank(text[at + 1]) /\ mark' = mark
    BY <1>5 DEF LinePass, ch, UrlStates, SchemaStates, ServerStates, QueryStates, FragmentStates
  <2>2. PICK b \in 1..at :
          /\ RequestAt(text, b) /\ mark \in (b + 2)..at
          /\ \A k \in (b + 1)..(mark - 1) : Space(text[k])
          /\ \A k \in mark..at : ~Blank(text[k])
    BY <1>5 DEF Addressed
  <2>3. \A k \in mark..(at + 1) : ~Blank(text[k])
    BY <1>0, <2>1, <2>2
  <2>4. b \in 1..(at + 1) /\ mark \in (b + 2)..(at + 1)
    BY <1>0, <2>2
  <2> QED
    BY <1>0, <1>5, <2>1, <2>2, <2>3, <2>4 DEF Addressed, UrlStates, SchemaStates, ServerStates,
       QueryStates, FragmentStates
<1>6. CASE /\ s \in UrlStates
           /\ next \in {"s_req_http_start", "s_req_line_almost_done", "s_header_field_start"}
  <2>1. Blank(text[at + 1]) /\ data' = on_url_callback(data, Word)
    BY <1>6 DEF LinePass, ch, UrlStates, SchemaStates, ServerStates, QueryStates, FragmentStates
  <2>2. PICK b \in 1..at :
          /\ RequestAt(text, b) /\ mark \in (b + 2)..at
          /\ \A k \in (b + 1)..(mark - 1) : Space(text[k])
          /\ \A k \in mark..at : ~Blank(text[k])
    BY <1>6 DEF Addressed
  <2>3. AddressAt(text, b, mark, at)
    BY <1>0, <2>1, <2>2 DEF AddressAt
  <2>4. data'.url = SubSeq(text, mark, at)
    BY <1>0, <2>1, UrlLeftAlone DEF Word
  <2>5. {b, mark, at} \subseteq 1..(at + 1)
    BY <1>0, <2>2
  <2> QED
    BY <1>0, <1>6, <2>2, <2>3, <2>4, <2>5 DEF Addressed, UrlStates, SchemaStates, ServerStates,
       QueryStates, FragmentStates
<1>7. CASE s \in {"s_req_http_start", "s_req_http_end", "s_req_line_almost_done"}
  <2>1. /\ next \in {"s_req_http_start", "s_req_http_end", "s_req_line_almost_done",
                     "s_header_field_start"}
        /\ data' = data
    BY <1>7 DEF LinePass, UrlStates, SchemaStates, ServerStates, QueryStates, FragmentStates
  <2>2. PICK b \in 1..at, i \in 1..at, j \in 1..at :
          RequestAt(text, b) /\ AddressAt(text, b, i, j) /\ url = SubSeq(text, i, j)
    BY <1>7 DEF Addressed, UrlStates, SchemaStates, ServerStates, QueryStates, FragmentStates
  <2>3. {b, i, j} \subseteq 1..(at + 1)
    BY <1>0, <2>2
  <2> QED
    BY <1>0, <2>1, <2>2, <2>3 DEF Addressed, UrlStates, SchemaStates, ServerStates,
       QueryStates, FragmentStates
<1>8. \/ next = "s_start_req" \/ (s = "s_start_req" /\ next = "s_req_method")
      \/ next = "s_req_spaces_before_url"
      \/ s = "s_req_spaces_before_url" /\ next \in UrlStates
      \/ s \in UrlStates /\ next \in UrlStates
      \/ /\ s \in UrlStates
         /\ next \in {"s_req_http_start", "s_req_line_almost_done", "s_header_field_start"}
      \/ s \in {"s_req_http_start", "s_req_http_end", "s_req_line_almost_done"}
  BY DEF LinePass
<1> QED
  BY <1>1, <1>2, <1>3, <1>4, <1>5, <1>6, <1>7, <1>8

(* The other passes leave the address alone. *)
LEMMA LaterAddressed ==
  ASSUME IInv, InHeader, Request, FieldPass \/ ValuePass, ~torn',
         Addressed(text, parser.state, at, mark, data.url)
  PROVE  Addressed(text', parser'.state, at', mark', data'.url)
<1> DEFINE Later == {"s_header_field_start", "s_header_field", "s_header_value_discard_ws",
                     "s_header_value_start", "s_header_value", "s_header_almost_done",
                     "s_header_value_lws", "s_header_value_discard_ws_almost_done",
                     "s_header_value_discard_lws", "s_headers_almost_done"}
<1> USE PassMoves, PassData DEF Moves
<1>1. at \in Nat /\ IsData(data)
  BY MessagesAssumption DEF IInv, TypeOK
<1>2. /\ parser.state \in Later /\ parser'.state \in Later
      /\ text' = text /\ at' \in {at, at + 1} /\ data'.url = data.url
  <2> USE <1>1, UrlLeftAlone
  <2>1. CASE FieldPass
    BY <2>1 DEF FieldPass
  <2>2. CASE ValuePass
    BY <2>2 DEF ValuePass
  <2> QED
    BY <2>1, <2>2
<1>3. \A s \in Later :
        s \notin {"s_start_req", "s_req_method", "s_req_spaces_before_url"} \cup UrlStates
  BY DEF UrlStates, SchemaStates, ServerStates, QueryStates, FragmentStates
<1> HIDE DEF Later
<1>4. PICK b \in 1..at, i \in 1..at, j \in 1..at :
        RequestAt(text, b) /\ AddressAt(text, b, i, j) /\ data.url = SubSeq(text, i, j)
  BY <1>2, <1>3 DEF Addressed
<1>5. {b, i, j} \subseteq 1..at'
  BY <1>1, <1>2, <1>4
<1> QED
  BY <1>2, <1>3, <1>4, <1>5 DEF Addressed

(* Only a call's end can take a word out of its call, and that tears it. *)
LEMMA HearingKept ==
  ASSUME IInv, InHeader, HearsInCall, [Next]_vars PROVE HearsInCall'
<1> SUFFICES ASSUME Request', ~torn', parser'.state \in Hearing PROVE calling' /\ mark' # 0
  BY DEF HearsInCall, Hearing
<1>1. Request /\ (LinePass \/ FieldPass \/ ValuePass \/ Pause)
  BY RequestStep
<1>2. at \in Nat /\ at + 1 # 0
  BY MessagesAssumption DEF IInv, TypeOK
<1>3. CASE Pause
  BY <1>1, <1>3, Zenon DEF Pause, HearsInCall
<1> USE PassMoves, PassData DEF Moves, Hearing, UrlStates, SchemaStates, ServerStates,
        QueryStates, FragmentStates
<1>4. CASE LinePass
  BY <1>1, <1>2, <1>4 DEF LinePass, HearsInCall
<1>5. CASE FieldPass
  BY <1>1, <1>2, <1>5 DEF FieldPass, HearsInCall
<1>6. CASE ValuePass
  BY <1>1, <1>2, <1>6 DEF ValuePass, HearsInCall
<1> QED
  BY <1>1, <1>3, <1>4, <1>5, <1>6

(* The address is kept at every step. *)
LEMMA InAddressKept ==
  ASSUME IInv, InHeader, InText, HearsInCall, InAddress, [Next]_vars PROVE InAddress'
<1> SUFFICES ASSUME Request', ~torn'
             PROVE  Addressed(text, parser.state, at, mark, data.url)'
  BY DEF InAddress
<1>1. Request /\ (LinePass \/ FieldPass \/ ValuePass \/ Pause)
  BY RequestStep
<1>2. ~torn
  BY <1>1, PassData, Zenon DEF LinePass, FieldPass, ValuePass, Moves, Pause
<1>3. Addressed(text, parser.state, at, mark, data.url)
  BY <1>1, <1>2 DEF InAddress
<1>4. CASE Pause
  <2>1. parser'.state = parser.state /\ at' = at /\ text' = text /\ data' = data
    BY <1>4 DEF Pause
  <2>2. parser.state \in UrlStates => mark' = mark
    BY <1>1, <1>2, <1>4, Zenon DEF Pause, HearsInCall, Hearing
  <2> QED
    BY <1>3, <2>1, <2>2 DEF Addressed
<1> QED
  BY <1>1, <1>3, <1>4, LineAddressed, LaterAddressed

(* Before the first symbol there is no address. *)
LEMMA InitAddress == Init => HearsInCall /\ InAddress
<1> SUFFICES ASSUME Init PROVE HearsInCall /\ InAddress
  OBVIOUS
<1>1. Request => parser.state = "s_start_req"
  BY DEF Init, http_parser_init, Request, IsRequest
<1> QED
  BY <1>1 DEF HearsInCall, InAddress, Addressed, Hearing, UrlStates, SchemaStates, ServerStates,
     QueryStates, FragmentStates

(* What a request's words are is found between the steps of its text. *)
ReadSoFar == IInv /\ InHeader /\ InText /\ HearsInCall /\ InAddress

(* All of it is invariant. *)
LEMMA ReadInvariance == Spec => []ReadSoFar
<1>1. ReadSoFar /\ [Next]_vars => ReadSoFar'
  BY ParserStep, RequestStep, InTextKept, HearingKept, InAddressKept DEF ReadSoFar
<1>2. Init => ReadSoFar
  BY InitInvariant, InitText, InitAddress DEF ReadSoFar
<1> QED
  BY <1>1, <1>2, PTL DEF Spec

(* When a request is done its address is its second word. *)
LEMMA AddressTaken ==
  ASSUME ReadSoFar, [Next]_vars, IsRequest, ~data.done, data'.done, ~torn'
  PROVE  \E b \in 1..at, i \in 1..at, j \in 1..at :
           /\ RequestAt(text, b) /\ AddressAt(text, b, i, j)
           /\ data'.url = SubSeq(text, i, j)
<1>1. Request /\ LastPass
  BY RequestStep DEF ReadSoFar
<1>2. ~torn /\ parser.state = "s_headers_almost_done" /\ data'.url = data.url
  BY <1>1, Zenon DEF LastPass
<1>3. Addressed(text, "s_headers_almost_done", at, mark, data.url)
  BY <1>1, <1>2 DEF ReadSoFar, InAddress
<1>4. "s_headers_almost_done" \notin
        {"s_start_req", "s_req_method", "s_req_spaces_before_url"} \cup UrlStates
  BY DEF UrlStates, SchemaStates, ServerStates, QueryStates, FragmentStates
<1> QED
  BY <1>2, <1>3, <1>4 DEF Addressed

-----------------------------------------------------------------------------
(* What the map of the header's lines is *)

(* A name has one colon behind it. *)
LEMMA OneColon ==
  ASSUME NEW t, NEW l \in Nat, NEW c \in Nat, NEW c2 \in Nat, NameAt(t, l, c), NameAt(t, l, c2)
  PROVE  c = c2
<1>1. ~(c < c2) /\ ~(c2 < c)
  BY Classes DEF NameAt
<1> QED
  BY <1>1

(* A line begins where the one before it has ended, and with a name at once. *)
LEMMA NameBegins ==
  ASSUME NEW t, NEW l \in Nat, NEW c \in Nat, NameAt(t, l, c)
  PROVE  /\ t[l - 1] = "LF" /\ Token(t[l])
         /\ Token(t[l + 1]) \/ t[l + 1] = ":"
<1>1. l \in l..(c - 1) /\ (l + 1 \in l..(c - 1) \/ l + 1 = c)
  BY DEF NameAt
<1> QED
  BY <1>1 DEF NameAt

(* What is kept of the lines up to n is kept up to the next symbol, if none begins there. *)
LEMMA KeptGrows ==
  ASSUME NEW t \in Seq(STRING), NEW h, NEW n \in Nat, KeptUpTo(t, h, n),
         \A c \in DOMAIN t : ~NameAt(t, n + 1, c)
  PROVE  KeptUpTo(t, h, n + 1)
<1>1. \A name \in DOMAIN h :
        \E l \in 2..(n + 1), c \in DOMAIN t : NameAt(t, l, c) /\ name = NameOf(t, l, c)
  BY DEF KeptUpTo
<1>2. ASSUME NEW l \in 2..(n + 1), NEW c \in DOMAIN t, LastNamed(t, l, c, n + 1)
      PROVE  NameOf(t, l, c) \in DOMAIN h /\ ValueAt(t, c, h[NameOf(t, l, c)])
  <2>1. l \in 2..n
    BY <1>2 DEF LastNamed
  <2>2. LastNamed(t, l, c, n)
    BY <1>2 DEF LastNamed
  <2> QED
    BY <2>1, <2>2 DEF KeptUpTo
<1> QED
  BY <1>1, <1>2 DEF KeptUpTo

(* Between the colon of a line and the end of its value no other line begins. *)
LEMMA NoneInside ==
  ASSUME NEW t, NEW l \in Nat, NEW c \in Nat, NameAt(t, l, c), NEW v \in Nat,
         FoldsAt(t, c + 1, v - 1), NEW q \in Nat, \A k \in v..(q - 1) : t[k] # "LF"
  PROVE  \A l2 \in (l + 1)..q, c2 \in Nat : ~NameAt(t, l2, c2)
<1> SUFFICES ASSUME NEW l2 \in (l + 1)..q, NEW c2 \in Nat, NameAt(t, l2, c2) PROVE FALSE
  OBVIOUS
<1>1. l2 \in Nat /\ l2 - 1 \in l..(q - 1) /\ (l2 - 1) + 1 = l2
  OBVIOUS
<1>2. t[l2 - 1] = "LF" /\ Token(t[l2])
  BY <1>1, NameBegins
<1>3. CASE l2 - 1 \in l..(c - 1)
  BY <1>2, <1>3, Classes DEF NameAt
<1>4. CASE l2 - 1 = c
  BY <1>2, <1>4 DEF NameAt
<1>5. CASE l2 - 1 \in (c + 1)..(v - 1)
  BY <1>1, <1>2, <1>5, Classes DEF FoldsAt
<1>6. CASE l2 - 1 \in v..(q - 1)
  BY <1>2, <1>6
<1> QED
  BY <1>1, <1>3, <1>4, <1>5, <1>6

(* One more line is kept, over one of the same name if there is one. *)
LEMMA KeptAdds ==
  ASSUME NEW t \in Seq(STRING), NEW h, NEW g, NEW l \in Nat, NEW c \in DOMAIN t, NEW q \in Nat,
         2 <= l, l <= q, NameAt(t, l, c), KeptUpTo(t, h, l - 1),
         \A l2 \in (l + 1)..q, c2 \in Nat : ~NameAt(t, l2, c2),
         NEW w, ValueAt(t, c, w),
         DOMAIN g = DOMAIN h \cup {NameOf(t, l, c)}, g[NameOf(t, l, c)] = w,
         \A name \in DOMAIN h : name # NameOf(t, l, c) => g[name] = h[name]
  PROVE  KeptUpTo(t, g, q)
<1>0. DOMAIN t \subseteq Nat
  OBVIOUS
<1>1. \A name \in DOMAIN g :
        \E l2 \in 2..q, c2 \in DOMAIN t : NameAt(t, l2, c2) /\ name = NameOf(t, l2, c2)
  <2> SUFFICES ASSUME NEW name \in DOMAIN g
               PROVE  \E l2 \in 2..q, c2 \in DOMAIN t :
                        NameAt(t, l2, c2) /\ name = NameOf(t, l2, c2)
    OBVIOUS
  <2>1. CASE name = NameOf(t, l, c)
    <3>1. l \in 2..q
      OBVIOUS
    <3> QED
      BY <2>1, <3>1
  <2>2. CASE name \in DOMAIN h
    <3>1. PICK l2 \in 2..(l - 1), c2 \in DOMAIN t :
            NameAt(t, l2, c2) /\ name = NameOf(t, l2, c2)
      BY <2>2 DEF KeptUpTo
    <3>2. l2 \in 2..q
      BY <3>1
    <3> QED
      BY <3>1, <3>2
  <2> QED
    BY <2>1, <2>2
<1>2. ASSUME NEW l2 \in 2..q, NEW c2 \in DOMAIN t, LastNamed(t, l2, c2, q)
      PROVE  NameOf(t, l2, c2) \in DOMAIN g /\ ValueAt(t, c2, g[NameOf(t, l2, c2)])
  <2>1. NameAt(t, l2, c2)
    BY <1>2 DEF LastNamed
  <2>2. l2 <= l
    BY <1>0, <2>1
  <2>3. CASE l2 = l
    <3>1. c2 = c
      BY <1>0, <2>1, <2>3, OneColon
    <3> QED
      BY <2>3, <3>1
  <2>4. CASE l2 < l
    <3>1. l2 \in 2..(l - 1) /\ l \in (l2 + 1)..q
      BY <2>4
    <3>2. NameOf(t, l, c) # NameOf(t, l2, c2)
      BY <1>2, <3>1 DEF LastNamed
    <3>3. LastNamed(t, l2, c2, l - 1)
      BY <1>2, <3>1 DEF LastNamed
    <3>4. NameOf(t, l2, c2) \in DOMAIN h /\ ValueAt(t, c2, h[NameOf(t, l2, c2)])
      BY <3>1, <3>3 DEF KeptUpTo
    <3> QED
      BY <3>2, <3>4
  <2> QED
    BY <2>2, <2>3, <2>4
<1> QED
  BY <1>1, <1>2 DEF KeptUpTo

(* The line at l, with its colon at c, is the one whose value comes next. *)
InLine(t, l, c, d) ==
  /\ 2 <= l /\ NameAt(t, l, c) /\ d.next_header_value = NameOf(t, l, c)
  /\ KeptUpTo(t, d.headers, l - 1)

BetweenLines ==
  {"s_start_req", "s_req_spaces_before_url", "s_req_http_start", "s_req_http_end",
   "s_req_line_almost_done", "s_header_field_start", "s_header_almost_done",
   "s_header_value_lws", "s_headers_almost_done"} \cup UrlStates

(* The lines, as far as they have been seen: all kept, or all but the one   *)
(* that is being read.                                                      *)
Fielded(t, s, n, m, d) ==
  /\ s \in BetweenLines => KeptUpTo(t, d.headers, n)
  /\ s = "s_req_method" => KeptUpTo(t, d.headers, n - 1)
  /\ s = "s_header_field" =>
       /\ m \in 2..n /\ t[m - 1] = "LF" /\ KeptUpTo(t, d.headers, m - 1)
       /\ \A k \in m..n : Token(t[k])
  /\ s \in {"s_header_value_discard_ws", "s_header_value_discard_ws_almost_done"} =>
       \E l \in 1..n, c \in 1..n : InLine(t, l, c, d) /\ FoldsAt(t, c + 1, n)
  /\ s = "s_header_value_discard_lws" =>
       \E l \in 1..n, c \in 1..(n - 1) : InLine(t, l, c, d) /\ FoldsAt(t, c + 1, n - 1)
  /\ s = "s_header_value" =>
       \E l \in 1..n, c \in 1..n :
         /\ InLine(t, l, c, d) /\ m \in (c + 1)..n /\ FoldsAt(t, c + 1, m - 1)
         /\ ~Blank(t[m]) /\ \A k \in m..n : ~Eol(t[k])

InFields == Request /\ ~torn => Fielded(text, parser.state, at, mark, data)

(* What the callbacks make of the map and of the name. *)
LEMMA HeardFields ==
  ASSUME IsData(data)
  PROVE  /\ \A w : /\ on_url_callback(data, w).headers = data.headers
                   /\ on_header_field(data, w).headers = data.headers
                   /\ on_header_field(data, w).next_header_value = w
         /\ \A w : LET g == on_header_value(data, w).headers
                   IN /\ DOMAIN g = DOMAIN data.headers \cup {data.next_header_value}
                      /\ g[data.next_header_value] = w
                      /\ \A name \in DOMAIN data.headers :
                           name # data.next_header_value => g[name] = data.headers[name]
BY DEF IsData, on_url_callback, on_header_field, on_header_value

(* No line begins behind a symbol that ends none, or with one that no name has. *)
LEMMA NoLineBegins ==
  ASSUME NEW t \in Seq(STRING), NEW h, NEW n \in Nat, KeptUpTo(t, h, n),
         t[n] # "LF" \/ ~Token(t[n + 1])
  PROVE  KeptUpTo(t, h, n + 1)
<1>1. (n + 1) - 1 = n /\ n + 1 \in Nat /\ DOMAIN t \subseteq Nat
  OBVIOUS
<1>2. \A c \in DOMAIN t : ~NameAt(t, n + 1, c)
  BY <1>1, NameBegins
<1> QED
  BY <1>2, KeptGrows

(* No line begins before the first has ended. *)
LEMMA LineFielded ==
  ASSUME IInv, InText, Request, LinePass, ~torn',
         Fielded(text, parser.state, at, mark, data)
  PROVE  Fielded(text', parser'.state, at', mark', data')
<1> DEFINE s == parser.state
           next == parser'.state
           h == data.headers
<1> USE DEF UrlStates, SchemaStates, ServerStates, QueryStates, FragmentStates
<1>1. /\ at \in Nat /\ IsData(data) /\ text \in Seq(STRING)
      /\ LastSymbols(text, s, at) /\ Begun(text, s, at)
  BY MessagesAssumption DEF IInv, TypeOK, InText
<1>2. text' = text /\ at' = at + 1 /\ data'.headers = h
  BY <1>1, PassMoves, PassData, HeardFields DEF LinePass, Moves
<1>3. \/ s = "s_start_req" /\ next = "s_start_req" /\ Eol(text[at + 1])
      \/ s = "s_start_req" /\ next = "s_req_method"
      \/ s = "s_req_method" /\ next = "s_req_spaces_before_url" /\ Space(text[at + 1])
      \/ /\ s \in {"s_req_spaces_before_url", "s_req_http_start", "s_req_http_end",
                   "s_req_line_almost_done"} \cup UrlStates
         /\ next \in BetweenLines
  BY PassMoves DEF LinePass, Moves, ch, BetweenLines
<1>4. CASE s = "s_start_req" /\ next = "s_start_req" /\ Eol(text[at + 1])
  <2>1. KeptUpTo(text, h, at) /\ ~Token(text[at + 1])
    BY <1>4, Classes DEF Fielded, BetweenLines
  <2>2. KeptUpTo(text, h, at + 1)
    BY <1>1, <2>1, NoLineBegins
  <2> QED
    BY <1>2, <1>4, <2>2 DEF Fielded
<1>5. CASE s = "s_start_req" /\ next = "s_req_method"
  <2>0. KeptUpTo(text, h, at) /\ (at + 1) - 1 = at
    BY <1>1, <1>5 DEF Fielded, BetweenLines
  <2>1. KeptUpTo(text, h, (at + 1) - 1)
    BY <2>0
  <2> QED
    BY <1>1, <1>2, <1>5, <2>1 DEF Fielded, BetweenLines
<1>6. CASE s = "s_req_method" /\ next = "s_req_spaces_before_url" /\ Space(text[at + 1])
  <2>1. KeptUpTo(text, h, at - 1) /\ at - 1 \in Nat /\ at - 1 + 1 = at
    BY <1>1, <1>6 DEF Fielded, Begun
  <2>2. ~Token(text[at + 1]) /\ text[at + 1] # ":"
    BY <1>6, Classes
  <2>3. \A c \in DOMAIN text : ~NameAt(text, at, c)
    BY <1>1, <2>2, NameBegins
  <2>4. KeptUpTo(text, h, at)
    BY <1>1, <2>1, <2>3, KeptGrows
  <2>5. KeptUpTo(text, h, at + 1)
    BY <1>1, <2>2, <2>4, NoLineBegins
  <2> QED
    BY <1>2, <1>6, <2>5 DEF Fielded
<1>7. CASE /\ s \in {"s_req_spaces_before_url", "s_req_http_start", "s_req_http_end",
                     "s_req_line_almost_done"} \cup UrlStates
           /\ next \in BetweenLines
  <2>1. KeptUpTo(text, h, at)
    BY <1>7 DEF Fielded, BetweenLines
  <2>2. text[at] # "LF"
    BY <1>1, <1>7, Classes DEF LastSymbols
  <2>3. KeptUpTo(text, h, at + 1)
    BY <1>1, <2>1, <2>2, NoLineBegins
  <2> QED
    BY <1>2, <1>7, <2>3 DEF Fielded, BetweenLines
<1> QED
  BY <1>3, <1>4, <1>5, <1>6, <1>7

(* A name begins behind the end of a line, and its colon ends it. *)
LEMMA FieldFielded ==
  ASSUME IInv, InText, Request, FieldPass, ~torn',
         Fielded(text, parser.state, at, mark, data)
  PROVE  Fielded(text', parser'.state, at', mark', data')
<1> DEFINE s == parser.state
           next == parser'.state
           h == data.headers
<1> USE DEF UrlStates, SchemaStates, ServerStates, QueryStates, FragmentStates
<1>1. /\ at \in Nat /\ IsData(data) /\ text \in Seq(STRING) /\ text' = text
      /\ LastSymbols(text, s, at) /\ Begun(text, s, at)
  BY MessagesAssumption, PassMoves DEF IInv, TypeOK, InText, FieldPass, Moves
<1>2. \/ /\ s = "s_header_field_start" /\ next = "s_headers_almost_done"
         /\ text[at + 1] = "CR" /\ at' = at + 1 /\ data' = data
      \/ /\ s = "s_header_field_start" /\ next = "s_headers_almost_done"
         /\ at' = at /\ data' = data
      \/ /\ s = "s_header_field_start" /\ next = "s_header_field" /\ Token(text[at + 1])
         /\ at' = at + 1 /\ data' = data /\ mark' = at + 1
      \/ /\ s = "s_header_field" /\ next = "s_header_field" /\ Token(text[at + 1])
         /\ at' = at + 1 /\ data' = data /\ mark' = mark
      \/ /\ s = "s_header_field" /\ next = "s_header_value_discard_ws" /\ text[at + 1] = ":"
         /\ at' = at + 1 /\ data' = on_header_field(data, Word)
  BY PassMoves, PassData DEF FieldPass, Moves, ch
<1>3. s = "s_header_field_start" => KeptUpTo(text, h, at) /\ text[at] = "LF" /\ at >= 1
  BY <1>1 DEF Fielded, BetweenLines, LastSymbols, Begun
<1>4. s = "s_header_field" =>
        /\ mark \in 2..at /\ text[mark - 1] = "LF" /\ KeptUpTo(text, h, mark - 1)
        /\ \A k \in mark..at : Token(text[k])
  BY DEF Fielded
<1>5. CASE /\ s = "s_header_field_start" /\ next = "s_headers_almost_done"
           /\ text[at + 1] = "CR" /\ at' = at + 1 /\ data' = data
  <2>1. KeptUpTo(text, h, at + 1)
    BY <1>1, <1>3, <1>5, Classes, NoLineBegins
  <2> QED
    BY <1>1, <1>5, <2>1 DEF Fielded
<1>6. CASE /\ s = "s_header_field_start" /\ next = "s_headers_almost_done"
           /\ at' = at /\ data' = data
  BY <1>1, <1>3, <1>6 DEF Fielded
<1>7. CASE /\ s = "s_header_field_start" /\ next = "s_header_field" /\ Token(text[at + 1])
           /\ at' = at + 1 /\ data' = data /\ mark' = at + 1
  <2>1. at + 1 \in 2..(at + 1) /\ (at + 1) - 1 = at /\ \A k \in (at + 1)..(at + 1) : k = at + 1
    BY <1>1, <1>3, <1>7
  <2> QED
    BY <1>1, <1>3, <1>7, <2>1 DEF Fielded, BetweenLines
<1>8. CASE /\ s = "s_header_field" /\ next = "s_header_field" /\ Token(text[at + 1])
           /\ at' = at + 1 /\ data' = data /\ mark' = mark
  <2>1. mark \in 2..(at + 1) /\ \A k \in mark..(at + 1) : k \in mark..at \/ k = at + 1
    BY <1>1, <1>4, <1>8
  <2> QED
    BY <1>1, <1>4, <1>8, <2>1 DEF Fielded, BetweenLines
<1>9. CASE /\ s = "s_header_field" /\ next = "s_header_value_discard_ws" /\ text[at + 1] = ":"
           /\ at' = at + 1 /\ data' = on_header_field(data, Word)
  <2>1. NameAt(text, mark, at + 1)
    <3>1. mark < at + 1 /\ \A k \in mark..((at + 1) - 1) : Token(text[k])
      BY <1>1, <1>4, <1>9
    <3> QED
      BY <1>1, <1>4, <1>9, <3>1 DEF NameAt
  <2>2. data'.next_header_value = NameOf(text, mark, at + 1) /\ data'.headers = h
    <3>1. NameOf(text, mark, at + 1) = Word
      <4>1. (at + 1) - 1 = at
        BY <1>1
      <4> QED
        BY <4>1, Zenon DEF NameOf, Word
    <3> QED
      BY <1>1, <1>9, <3>1, HeardFields
  <2>3. InLine(text, mark, at + 1, data')
    BY <1>4, <1>9, <2>1, <2>2 DEF InLine
  <2>4. FoldsAt(text, at + 1 + 1, at + 1)
    BY <1>1 DEF FoldsAt
  <2>5. mark \in 1..(at + 1) /\ at + 1 \in 1..(at + 1)
    BY <1>1, <1>4, <1>9
  <2> QED
    BY <1>1, <1>9, <2>3, <2>4, <2>5 DEF Fielded, BetweenLines
<1> QED
  BY <1>2, <1>5, <1>6, <1>7, <1>8, <1>9

(* A line is kept when its value has been heard: it has begun at l, its     *)
(* colon is at c, and no line ends from v to before q.                      *)
LEMMA LineKept ==
  ASSUME IsData(data), text \in Seq(STRING), NEW l \in Nat, NEW c \in DOMAIN text,
         InLine(text, l, c, data), NEW v \in Nat, FoldsAt(text, c + 1, v - 1),
         NEW q \in Nat, l <= q, \A k \in v..(q - 1) : text[k] # "LF",
         NEW w, ValueAt(text, c, w)
  PROVE  KeptUpTo(text, on_header_value(data, w).headers, q)
<1> DEFINE g == on_header_value(data, w).headers
<1>1. /\ 2 <= l /\ NameAt(text, l, c) /\ data.next_header_value = NameOf(text, l, c)
      /\ KeptUpTo(text, data.headers, l - 1) /\ c \in Nat
  BY DEF InLine
<1>2. \A l2 \in (l + 1)..q, c2 \in Nat : ~NameAt(text, l2, c2)
  BY <1>1, NoneInside
<1>3. /\ DOMAIN g = DOMAIN data.headers \cup {NameOf(text, l, c)}
      /\ g[NameOf(text, l, c)] = w
      /\ \A name \in DOMAIN data.headers : name # NameOf(text, l, c) => g[name] = data.headers[name]
  BY <1>1, HeardFields
<1> HIDE DEF g
<1>4. KeptUpTo(text, g, q)
  BY <1>1, <1>2, <1>3, KeptAdds
<1> QED
  BY <1>4 DEF g

(* A value is kept where its line ends, under the name before its colon. *)
LEMMA ValueFielded ==
  ASSUME IInv, InText, Request, ValuePass, calling, ~torn',
         Fielded(text, parser.state, at, mark, data)
  PROVE  Fielded(text', parser'.state, at', mark', data')
<1> DEFINE s == parser.state
           next == parser'.state
           h == data.headers
<1> USE DEF UrlStates, SchemaStates, ServerStates, QueryStates, FragmentStates
<1>1. /\ at \in Nat /\ IsData(data) /\ text \in Seq(STRING) /\ text' = text
      /\ LastSymbols(text, s, at) /\ at + 1 <= Len(text)
  BY MessagesAssumption, PassMoves DEF IInv, TypeOK, InText, ValuePass, Moves
<1>a. 1..at \subseteq DOMAIN text /\ 1..at \subseteq Nat /\ (at + 1) - 1 = at
  BY <1>1
<1>2. \/ /\ s \in {"s_header_value_discard_ws", "s_header_value_discard_lws"}
         /\ next = "s_header_value_discard_ws" /\ Space(text[at + 1])
         /\ at' = at + 1 /\ data' = data
      \/ /\ s = "s_header_value_discard_ws" /\ text[at + 1] = "CR"
         /\ next = "s_header_value_discard_ws_almost_done" /\ at' = at + 1 /\ data' = data
      \/ /\ s \in {"s_header_value_discard_ws", "s_header_value_discard_ws_almost_done"}
         /\ next = "s_header_value_discard_lws" /\ text[at + 1] = "LF"
         /\ at' = at + 1 /\ data' = data
      \/ /\ s = "s_header_value_discard_lws" /\ next = "s_header_field_start"
         /\ ~Space(text[at + 1]) /\ at' = at /\ data' = on_header_value(data, <<>>)
      \/ /\ s = "s_header_value_discard_ws" /\ next = "s_header_value" /\ ~Blank(text[at + 1])
         /\ at' = at + 1 /\ data' = data /\ mark' = at + 1
      \/ /\ s = "s_header_value" /\ next = "s_header_value" /\ ~Eol(text[at + 1])
         /\ at' = at + 1 /\ data' = data /\ mark' = mark
      \/ /\ s = "s_header_value" /\ next = "s_header_almost_done" /\ Eol(text[at + 1])
         /\ at' \in {at, at + 1} /\ data' = on_header_value(data, Word)
      \/ /\ s = "s_header_almost_done" /\ next = "s_header_value_lws"
         /\ at' = at + 1 /\ data' = data
      \/ /\ s = "s_header_value_lws" /\ next \in {"s_header_value_start", "s_header_field_start"}
         /\ at' = at /\ data' = data
  BY PassMoves, PassData, Classes DEF ValuePass, Moves, ch
<1>3. CASE /\ s \in {"s_header_value_discard_ws", "s_header_value_discard_lws"}
           /\ next = "s_header_value_discard_ws" /\ Space(text[at + 1])
           /\ at' = at + 1 /\ data' = data
  <2>1. PICK l \in 1..at, c \in 1..at : InLine(text, l, c, data) /\ FoldsAt(text, c + 1, at)
    <3>1. CASE s = "s_header_value_discard_ws"
      BY <3>1 DEF Fielded
    <3>2. CASE s = "s_header_value_discard_lws"
      <4>1. PICK l \in 1..at, c \in 1..(at - 1) :
              InLine(text, l, c, data) /\ FoldsAt(text, c + 1, at - 1)
        BY <3>2 DEF Fielded
      <4>2. text[at] = "LF" /\ Blank(text[at])
        BY <1>1, <3>2, Classes DEF LastSymbols
      <4>3. FoldsAt(text, c + 1, at)
        BY <1>1, <1>3, <4>1, <4>2 DEF FoldsAt
      <4> QED
        BY <1>1, <4>1, <4>3
    <3> QED
      BY <1>3, <3>1, <3>2
  <2>2. FoldsAt(text, c + 1, at + 1)
    BY <1>1, <1>3, <2>1, Classes DEF FoldsAt
  <2>3. l \in 1..(at + 1) /\ c \in 1..(at + 1)
    BY <1>1, <2>1
  <2> QED
    BY <1>1, <1>3, <2>1, <2>2, <2>3 DEF Fielded, BetweenLines
<1>4. CASE /\ s = "s_header_value_discard_ws" /\ text[at + 1] = "CR"
           /\ next = "s_header_value_discard_ws_almost_done" /\ at' = at + 1 /\ data' = data
  <2>1. PICK l \in 1..at, c \in 1..at : InLine(text, l, c, data) /\ FoldsAt(text, c + 1, at)
    BY <1>4 DEF Fielded
  <2>2. FoldsAt(text, c + 1, at + 1)
    BY <1>1, <1>4, <2>1, Classes DEF FoldsAt
  <2>3. l \in 1..(at + 1) /\ c \in 1..(at + 1)
    BY <1>1, <2>1
  <2> QED
    BY <1>1, <1>4, <2>1, <2>2, <2>3 DEF Fielded, BetweenLines
<1>5. CASE /\ s \in {"s_header_value_discard_ws", "s_header_value_discard_ws_almost_done"}
           /\ next = "s_header_value_discard_lws" /\ text[at + 1] = "LF"
           /\ at' = at + 1 /\ data' = data
  <2>1. PICK l \in 1..at, c \in 1..at : InLine(text, l, c, data) /\ FoldsAt(text, c + 1, at)
    BY <1>5 DEF Fielded
  <2>2. l \in 1..(at + 1) /\ c \in 1..((at + 1) - 1) /\ FoldsAt(text, c + 1, (at + 1) - 1)
    BY <1>1, <2>1
  <2> QED
    BY <1>1, <1>5, <2>1, <2>2 DEF Fielded, BetweenLines
<1>6. CASE /\ s = "s_header_value_discard_lws" /\ next = "s_header_field_start"
           /\ ~Space(text[at + 1]) /\ at' = at /\ data' = on_header_value(data, <<>>)
  <2>1. PICK l \in 1..at, c \in 1..(at - 1) :
          InLine(text, l, c, data) /\ FoldsAt(text, c + 1, at - 1)
    BY <1>6 DEF Fielded
  <2>2. text[at] = "LF"
    BY <1>1, <1>6 DEF LastSymbols
  <2>3. at \in (c + 1)..(Len(text) - 1) /\ c \in DOMAIN text /\ at \in Nat
    BY <1>1, <2>1
  <2>4. ValueAt(text, c, <<>>)
    BY <1>6, <2>1, <2>2, <2>3 DEF ValueAt
  <2>5. KeptUpTo(text, on_header_value(data, <<>>).headers, at)
    BY <1>1, <2>1, <2>3, <2>4, LineKept
  <2> QED
    BY <1>1, <1>6, <2>5 DEF Fielded
<1>7. CASE /\ s = "s_header_value_discard_ws" /\ next = "s_header_value"
           /\ ~Blank(text[at + 1]) /\ at' = at + 1 /\ data' = data /\ mark' = at + 1
  <2>1. PICK l \in 1..at, c \in 1..at : InLine(text, l, c, data) /\ FoldsAt(text, c + 1, at)
    BY <1>7 DEF Fielded
  <2>2. /\ l \in 1..(at + 1) /\ c \in 1..(at + 1) /\ at + 1 \in (c + 1)..(at + 1)
        /\ FoldsAt(text, c + 1, (at + 1) - 1)
        /\ \A k \in (at + 1)..(at + 1) : ~Eol(text[k])
    BY <1>1, <1>7, <2>1, Classes
  <2> QED
    BY <1>1, <1>7, <2>1, <2>2 DEF Fielded, BetweenLines
<1>8. CASE s = "s_header_value"
  <2>1. PICK l \in 1..at, c \in 1..at :
          /\ InLine(text, l, c, data) /\ mark \in (c + 1)..at
          /\ FoldsAt(text, c + 1, mark - 1)
          /\ ~Blank(text[mark]) /\ \A k \in mark..at : ~Eol(text[k])
    BY <1>8 DEF Fielded
  <2>2. CASE /\ next = "s_header_value" /\ ~Eol(text[at + 1])
             /\ at' = at + 1 /\ data' = data /\ mark' = mark
    <3>1. /\ l \in 1..(at + 1) /\ c \in 1..(at + 1) /\ mark \in (c + 1)..(at + 1)
          /\ \A k \in mark..(at + 1) : ~Eol(text[k])
      BY <1>1, <2>1, <2>2
    <3> QED
      BY <1>1, <2>1, <2>2, <3>1 DEF Fielded, BetweenLines
  <2>3. CASE /\ next = "s_header_almost_done" /\ Eol(text[at + 1])
             /\ at' \in {at, at + 1} /\ data' = on_header_value(data, Word)
    <3>1. /\ mark \in (c + 1)..(Len(text) - 1) /\ at \in mark..(Len(text) - 1)
          /\ c \in DOMAIN text /\ mark \in Nat
      BY <1>1, <2>1
    <3>2. ValueAt(text, c, Word)
      BY <2>1, <2>3, <3>1 DEF ValueAt, Word
    <3>3. ASSUME NEW q \in {at, at + 1}
          PROVE  KeptUpTo(text, on_header_value(data, Word).headers, q)
      <4>1. q \in Nat /\ l <= q /\ mark..(q - 1) \subseteq mark..at
        BY <1>1, <2>1, <3>3
      <4>2. \A k \in mark..(q - 1) : text[k] # "LF"
        BY <2>1, <4>1, Classes
      <4> QED
        BY <1>1, <2>1, <3>1, <3>2, <4>1, <4>2, LineKept
    <3>4. KeptUpTo(text, on_header_value(data, Word).headers, at')
      BY <2>3, <3>3
    <3> QED
      BY <1>1, <2>3, <3>4 DEF Fielded
  <2> QED
    BY <1>2, <1>8, <2>2, <2>3
<1>9. CASE /\ s = "s_header_almost_done" /\ next = "s_header_value_lws"
           /\ at' = at + 1 /\ data' = data
  <2>1. KeptUpTo(text, h, at) /\ text[at] # "LF"
    BY <1>1, <1>9, Classes DEF Fielded, BetweenLines, LastSymbols
  <2>2. KeptUpTo(text, h, at + 1)
    BY <1>1, <2>1, NoLineBegins
  <2> QED
    BY <1>1, <1>9, <2>2 DEF Fielded
<1>10. CASE /\ s = "s_header_value_lws" /\ at' = at /\ data' = data
            /\ next \in {"s_header_value_start", "s_header_field_start"}
  BY <1>1, <1>10 DEF Fielded, BetweenLines
<1> QED
  BY <1>2, <1>3, <1>4, <1>5, <1>6, <1>7, <1>8, <1>9, <1>10

(* The map is that of the lines so far at every step. *)
LEMMA InFieldsKept ==
  ASSUME ReadSoFar, InFields, [Next]_vars PROVE InFields'
<1> SUFFICES ASSUME Request', ~torn'
             PROVE  Fielded(text, parser.state, at, mark, data)'
  BY DEF InFields
<1>0. IInv /\ InText /\ HearsInCall
  BY DEF ReadSoFar
<1>1. Request /\ (Pause \/ (calling /\ (LinePass \/ FieldPass \/ ValuePass)))
  BY RequestStep DEF ReadSoFar
<1>2. ~torn
  BY <1>1, PassData, Zenon DEF LinePass, FieldPass, ValuePass, Moves, Pause
<1>3. Fielded(text, parser.state, at, mark, data)
  BY <1>1, <1>2 DEF InFields
<1>4. CASE Pause
  <2>1. parser'.state = parser.state /\ at' = at /\ text' = text /\ data' = data
    BY <1>4 DEF Pause
  <2>2. parser.state \in {"s_header_field", "s_header_value"} => mark' = mark
    BY <1>0, <1>1, <1>2, <1>4, Zenon DEF Pause, HearsInCall, Hearing
  <2> QED
    BY <1>3, <2>1, <2>2 DEF Fielded
<1> QED
  BY <1>0, <1>1, <1>3, <1>4, LineFielded, FieldFielded, ValueFielded

(* Before the first symbol the map is empty. *)
LEMMA InitFields == Init => InFields
<1> SUFFICES ASSUME Init, Request PROVE Fielded(text, parser.state, at, mark, data)
  BY DEF InFields
<1>1. parser.state = "s_start_req" /\ at = 0 /\ DOMAIN data.headers = {}
  BY DEF Init, http_parser_init, Request, IsRequest
<1>2. KeptUpTo(text, data.headers, 0)
  BY <1>1 DEF KeptUpTo
<1> QED
  BY <1>1, <1>2 DEF Fielded

(* When a request is done the map has the lines' names and no others, each *)
(* with the value of the last line of that name.                           *)
LEMMA FieldsTaken ==
  ASSUME ReadSoFar, InFields, [Next]_vars, IsRequest, ~data.done, data'.done, ~torn'
  PROVE  KeptUpTo(text, data'.headers, at)
<1>1. Request /\ LastPass
  BY RequestStep DEF ReadSoFar
<1>2. ~torn /\ parser.state = "s_headers_almost_done" /\ data'.headers = data.headers
  BY <1>1, Zenon DEF LastPass
<1> QED
  BY <1>1, <1>2 DEF InFields, Fielded, BetweenLines

-----------------------------------------------------------------------------
(* What is left of it when the call returns *)

(* The states of a parser that has heard no word since the end of the header. *)
Quiet == {"s_start_req", "s_dead", "s_body_identity", "s_message_done", "s_chunk_size_start"}

(* A header ends at e, behind what has been consumed only while the last    *)
(* symbol is looked at again; and as long as nothing but ends of lines has  *)
(* come behind it, the key is that of the request.                          *)
Taken(e) ==
  /\ \E b \in 1..(e - 1) : HeaderAt(text, b, e)
  /\ e = at + 1 => calling /\ parser.state = "s_headers_done"
  /\ ~torn /\ (\A k \in (e + 1)..at : Eol(text[k])) =>
       /\ KeyOf(text, e, data)
       /\ e # at + 1 => parser.state \in Quiet

(* Once a request is done, its key is taken. *)
InKey ==
  IsRequest /\ data.done /\ parser.http_errno = "HPE_OK" => \E e \in 1..(at + 1) : Taken(e)

(* A request begins at one place. *)
LEMMA OneBegin ==
  ASSUME NEW t, NEW b \in Nat \ {0}, NEW c \in Nat \ {0}, RequestAt(t, b), RequestAt(t, c)
  PROVE  b = c
BY DEF RequestAt

(* The last pass takes it all. *)
LEMMA KeyTaken ==
  ASSUME ReadSoFar, InFields, [Next]_vars, IsRequest, ~data.done, data'.done
  PROVE  InKey'
<1>1. LastPass /\ at \in Nat /\ (at + 1) - 1 = at
  BY RequestStep, MessagesAssumption DEF ReadSoFar, IInv, TypeOK
<1>2. PICK b \in 1..at : HeaderAt(text, b, at + 1)
  BY HeaderEnds DEF ReadSoFar
<1>3. ASSUME ~torn' PROVE KeyOf(text, at + 1, data')
  <2>1. PICK c \in 1..at, i \in 1..at, j \in 1..at :
          /\ RequestAt(text, c) /\ AddressAt(text, c, i, j)
          /\ data'.url = SubSeq(text, i, j)
    BY <1>3, AddressTaken
  <2>2. b = c
    BY <1>1, <1>2, <2>1, OneBegin DEF HeaderAt
  <2>3. KeptUpTo(text, data'.headers, at)
    BY <1>3, FieldsTaken
  <2> QED
    BY <1>1, <1>2, <2>1, <2>2, <2>3 DEF KeyOf
<1>4. text' = text /\ at' = at /\ calling' /\ parser'.state = "s_headers_done"
  BY <1>1 DEF LastPass
<1>5. Taken(at + 1)'
  BY <1>1, <1>2, <1>3, <1>4 DEF Taken
<1> QED
  BY <1>1, <1>4, <1>5 DEF InKey

(* A pass that gives no callback a part of a word leaves what was heard. *)
LEMMA QuietGoes ==
  ASSUME IInv, NEW c, NextState(c) \in Quiet, NEW to, NEW m, Goes(c, to, data, m), ~torn'
  PROVE  data' = data /\ parser'.state \in Quiet /\ at' = to
<1>1. data' = data /\ at' = to
  BY Zenon DEF Goes
<1>2. parser' = With([parser EXCEPT !.nread = COUNT_HEADER_SIZE], c) /\ DOMAIN parser = Fields
  BY DEF Goes, IInv
<1>3. parser'.state = NextState(c)
  BY <1>2 DEF With, Fields, NextState
<1> QED
  BY <1>1, <1>3

(* From the header's last symbol on a parser that looks at an end of a line *)
(* or goes on without a look hears nothing.                                 *)
LEMMA QuietPass ==
  ASSUME IInv, IsRequest, parser.state \in Quiet \cup {"s_headers_done"}, http_parser_execute,
         ~torn', parser'.http_errno = "HPE_OK",
         at' # at => Eol(ch) \/ parser.state = "s_headers_done"
  PROVE  data' = data /\ parser'.state \in Quiet
<1>1. \A error : error # "HPE_OK" => ~SET_ERRNO(error)
  BY DEF SET_ERRNO, IInv, Fields
<1>2. /\ on_message_complete = data
      /\ NEW_MESSAGE \in {"s_start_req", "s_dead"} /\ NEW_MESSAGE \in Quiet
  BY DEF on_message_complete, NEW_MESSAGE, start_state, Quiet
<1>3. /\ at \in Nat /\ at + 1 # at /\ DOMAIN parser = Fields
  BY MessagesAssumption DEF IInv, TypeOK
<1>4. ASSUME NEW next \in Quiet, Takes([state |-> next])
      PROVE  data' = data /\ parser'.state \in Quiet /\ at' = at + 1
  <2> DEFINE c == [state |-> next]
  <2>1. NextState(c) \in Quiet
    BY DEF NextState
  <2> HIDE DEF c
  <2>2. Goes(c, at + 1, data, mark)
    BY <1>4 DEF Takes, c
  <2> QED
    BY <2>1, <2>2, QuietGoes
<1>5. CASE s_dead \/ s_start_req
  <2>1. parser.state \in Quiet /\ parser.state # "s_headers_done"
    BY <1>5 DEF s_dead, s_start_req, Looks, Quiet
  <2>2. CASE Stays
    BY <1>4, <2>1, <2>2 DEF Stays
  <2>3. CASE s_start_req /\ ~Stays
    <3>1. ch \in Methods /\ at' = at + 1
      BY <1>1, <2>3 DEF s_start_req, Takes, Goes
    <3>2. ~Eol(ch)
      BY <3>1 DEF Methods, Eol
    <3> QED
      BY <1>3, <2>1, <3>1, <3>2
  <2> QED
    BY <1>1, <1>5, <2>2, <2>3 DEF s_dead
<1>6. CASE s_headers_done
  <2>1. parser.state = "s_headers_done" /\ ~http_message_needs_eof
    BY <1>6 DEF s_headers_done, Looks, http_message_needs_eof
  <2> DEFINE c == [state |-> NEW_MESSAGE, nread |-> 0]
  <2>2. NextState(c) \in Quiet /\ "state" \in DOMAIN c /\ c.state = NEW_MESSAGE
    BY <1>2 DEF NextState
  <2>3. CASE Returns(c, data)
    <3>1. data' = data /\ at' = at + 1 /\ parser' = With(parser, c)
      BY <2>3 DEF Returns
    <3> HIDE DEF c
    <3>2. parser'.state = NEW_MESSAGE
      BY <1>3, <2>2, <3>1 DEF With, Fields
    <3> QED
      BY <1>2, <3>1, <3>2
  <2>4. CASE Goes(c, at + 1, data, 0)
    <3> HIDE DEF c
    <3> QED
      BY <2>2, <2>4, QuietGoes
  <2>5. ASSUME NEW next \in {"s_chunk_size_start", "s_body_identity"}, Begins(next)
        PROVE  data' = data /\ parser'.state \in Quiet /\ at' = at + 1
    <3> DEFINE b == [state |-> next, nread |-> 0]
    <3>1. NextState(b) \in Quiet
      BY DEF NextState, Quiet
    <3> HIDE DEF b
    <3>2. Goes(b, at + 1, data, mark)
      BY <2>5 DEF Begins, Takes, b
    <3> QED
      BY <3>1, <3>2, QuietGoes
  <2> QED
    BY <1>1, <1>2, <1>6, <2>1, <2>3, <2>4, <2>5 DEF s_headers_done
<1>7. CASE s_body_identity
  <2>1. parser.state = "s_body_identity"
    BY <1>7 DEF s_body_identity, Looks
  <2> DEFINE last == [state |-> "s_message_done", content_length |-> 0]
             rest == [content_length |-> BodyLeft]
  <2>2. NextState(last) \in Quiet /\ NextState(rest) \in Quiet
    BY <2>1 DEF NextState, Quiet
  <2> HIDE DEF last, rest
  <2>3. Goes(last, at + to_read - 1, data, 0) \/ Goes(rest, at + to_read, data, 0)
    BY <1>7 DEF s_body_identity, last, rest
  <2> QED
    BY <2>1, <2>2, <2>3, QuietGoes
<1>8. CASE s_message_done
  <2>1. parser.state = "s_message_done"
    BY <1>8 DEF s_message_done, Looks
  <2> DEFINE c == [state |-> NEW_MESSAGE]
  <2>2. NextState(c) \in Quiet /\ "state" \in DOMAIN c /\ c.state = NEW_MESSAGE
    BY <1>2 DEF NextState
  <2>3. Returns(c, data) \/ Goes(c, at + 1, data, 0)
    BY <1>2, <1>8 DEF s_message_done
  <2> HIDE DEF c
  <2>4. CASE Returns(c, data)
    <3>1. data' = data /\ parser' = With(parser, c)
      BY <2>4 DEF Returns
    <3>2. parser'.state = NEW_MESSAGE
      BY <1>3, <2>2, <3>1 DEF With, Fields
    <3> QED
      BY <1>2, <2>1, <3>1, <3>2
  <2> QED
    BY <2>1, <2>2, <2>3, <2>4, QuietGoes
<1>9. CASE s_chunk_size_start
  <2>1. parser.state = "s_chunk_size_start" /\ IsDigit(ch) /\ at' = at + 1
    BY <1>1, <1>9 DEF s_chunk_size_start, Looks, Takes, Goes
  <2>2. ~Eol(ch)
    BY <2>1 DEF IsDigit, Value, Eol
  <2> QED
    BY <1>3, <2>1, <2>2
<1>10. ~HeaderOverflow
  BY <1>1 DEF HeaderOverflow
<1>11. FirstLine => s_dead \/ s_start_req
  BY DEF FirstLine, s_start_res, s_res_http_end, s_res_first_status_code, s_res_status_code,
     s_res_status_start, s_res_status, s_res_line_almost_done, s_req_method,
     s_req_spaces_before_url, s_req_url, s_req_http_start, s_req_http_end,
     s_req_line_almost_done, Looks, Quiet, UrlStates, SchemaStates, ServerStates, QueryStates,
     FragmentStates
<1>12. HeaderLines => s_headers_done
  BY DEF HeaderLines, s_header_field_start, s_header_field, s_header_value_discard_ws,
     s_header_value_start, s_header_value, s_header_almost_done, s_header_value_lws,
     s_header_value_discard_ws_almost_done, s_header_value_discard_lws,
     s_headers_almost_done, Looks, Quiet
<1>13. Body => s_body_identity \/ s_message_done \/ s_chunk_size_start
  BY DEF Body, s_body_identity_eof, s_chunk_size, s_chunk_parameters, s_chunk_size_almost_done,
     s_chunk_data, s_chunk_data_almost_done, s_chunk_data_done, Looks, Quiet
<1> QED
  BY <1>5, <1>6, <1>7, <1>8, <1>9, <1>10, <1>11, <1>12, <1>13 DEF http_parser_execute

(* The header's last symbol is consumed by the pass that looks at it again. *)
LEMMA LastSymbol ==
  ASSUME IInv, parser.state = "s_headers_done", http_parser_execute, parser'.http_errno = "HPE_OK"
  PROVE  at' = at + 1
<1>1. \A error : error # "HPE_OK" => ~SET_ERRNO(error)
  BY DEF SET_ERRNO, IInv, Fields
<1>2. ~HeaderOverflow
  BY <1>1 DEF HeaderOverflow
<1>3. ~FirstLine
  BY DEF FirstLine, s_dead, s_start_res, s_res_http_end, s_res_first_status_code,
     s_res_status_code, s_res_status_start, s_res_status, s_res_line_almost_done, s_start_req,
     s_req_method, s_req_spaces_before_url, s_req_url, s_req_http_start, s_req_http_end,
     s_req_line_almost_done, Looks, UrlStates, SchemaStates, ServerStates, QueryStates,
     FragmentStates
<1>4. HeaderLines => s_headers_done
  BY DEF HeaderLines, s_header_field_start, s_header_field, s_header_value_discard_ws,
     s_header_value_start, s_header_value, s_header_almost_done, s_header_value_lws,
     s_header_value_discard_ws_almost_done, s_header_value_discard_lws,
     s_headers_almost_done, Looks
<1>5. ~Body
  BY DEF Body, s_body_identity, s_body_identity_eof, s_message_done, s_chunk_size_start,
     s_chunk_size, s_chunk_parameters, s_chunk_size_almost_done, s_chunk_data,
     s_chunk_data_almost_done, s_chunk_data_done, Looks
<1>6. \A c, d, m : Goes(c, at + 1, d, m) \/ Returns(c, d) => at' = at + 1
  BY DEF Goes, Returns
<1>7. s_headers_done => at' = at + 1
  BY <1>1, <1>6 DEF s_headers_done, Begins, Takes
<1> QED
  BY <1>2, <1>3, <1>4, <1>5, <1>7 DEF http_parser_execute

(* What was taken stays, whatever pass follows. *)
LEMMA TakenKept ==
  ASSUME IInv, IsRequest, http_parser_execute, NEW e \in 1..(at + 1), Taken(e),
         parser'.http_errno = "HPE_OK"
  PROVE  e \in 1..(at' + 1) /\ Taken(e)'
<1>0. at' >= at /\ text' = text
  BY ExecuteKeeps DEF Keeps
<1>1. torn => torn'
  BY ExecuteKeeps DEF Keeps
<1>2. e = at + 1 => parser.state = "s_headers_done" /\ at' = at + 1
  BY LastSymbol DEF Taken
<1>3. at \in Nat /\ at' \in Nat /\ e \in 1..(at' + 1) /\ e # at' + 1
  <2>1. IInv' /\ Len(text) \in Nat /\ at \in Nat
    BY ParserStep, MessagesAssumption DEF Next, IInv, TypeOK
  <2>2. at' \in Nat
    BY <1>0, <2>1 DEF IInv, TypeOK
  <2>3. CASE e = at + 1
    BY <1>2, <2>1, <2>2, <2>3
  <2>4. CASE e # at + 1
    <3>1. e \in Nat \ {0} /\ e <= at
      BY <2>1, <2>4
    <3>2. \A next \in Nat : next >= at => e \in 1..(next + 1) /\ e # next + 1
      BY <2>1, <3>1
    <3> QED
      BY <1>0, <2>1, <2>2, <3>2, Zenon
  <2> QED
    BY <2>3, <2>4
<1>4. ASSUME ~torn', \A k \in (e + 1)..at' : Eol(text[k])
      PROVE  KeyOf(text, e, data') /\ parser'.state \in Quiet
  <2>1. ~torn /\ \A k \in (e + 1)..at : Eol(text[k])
    <3>1. \A k \in (e + 1)..at : k \in (e + 1)..at'
      BY <1>0, <1>3
    <3> QED
      BY <1>1, <1>4, <3>1
  <2>2. KeyOf(text, e, data) /\ parser.state \in Quiet \cup {"s_headers_done"}
    BY <1>2, <2>1 DEF Taken
  <2>3. at' # at => Eol(ch) \/ parser.state = "s_headers_done"
    <3>1. CASE e = at + 1
      BY <1>2, <3>1
    <3>2. CASE e # at + 1
      <4>1. at' # at => at + 1 \in (e + 1)..at'
        BY <1>0, <1>3, <3>2
      <4> QED
        BY <1>4, <4>1 DEF ch
    <3> QED
      BY <3>1, <3>2
  <2>4. data' = data /\ parser'.state \in Quiet
    BY <1>4, <2>2, <2>3, QuietPass
  <2> QED
    BY <2>2, <2>4
<1>5. \E b \in 1..(e - 1) : HeaderAt(text, b, e)
  BY DEF Taken
<1> QED
  BY <1>0, <1>3, <1>4, <1>5 DEF Taken

(* From then on it stays. *)
LEMMA InKeyKept ==
  ASSUME ReadSoFar, InFields, InKey, [Next]_vars PROVE InKey'
<1> SUFFICES ASSUME IsRequest', data'.done, parser'.http_errno = "HPE_OK" PROVE InKey'
  BY DEF InKey
<1>0. IInv
  BY DEF ReadSoFar
<1>1. CASE http_parser_execute
  <2>1. IsRequest
    BY <1>0, <1>1, ExecuteKeeps, ParserStep DEF Keeps, IInv, TypeOK, IsRequest
  <2>2. parser.http_errno = "HPE_OK"
    BY <1>0, <1>1, ExecuteCalls DEF IInv
  <2>3. CASE data.done
    <3>1. PICK e \in 1..(at + 1) : Taken(e)
      BY <2>1, <2>2, <2>3 DEF InKey
    <3>2. e \in 1..(at' + 1) /\ Taken(e)'
      BY <1>0, <1>1, <2>1, <3>1, TakenKept
    <3> QED
      BY <3>2 DEF InKey
  <2> QED
    BY <2>1, <2>3, KeyTaken
<1>2. CASE \E n \in Pieces : Read(n)
  <2>1. data' = data /\ parser' = parser /\ ~calling /\ parser.http_errno = "HPE_OK" /\ ~data.done
    BY <1>2 DEF Read, Outcome
  <2> QED
    BY <2>1
<1>3. CASE Eof
  <2>1. ~data.done /\ parser'.type = parser.type
    BY <1>0, <1>3 DEF Eof, Outcome, IInv, Fields
  <2>2. data' = data
    BY <1>3, <2>1 DEF Eof, on_message_complete, IsRequest
  <2> QED
    BY <2>1, <2>2
<1>4. CASE UNCHANGED vars
  <2>1. UNCHANGED <<text, at, torn, calling, parser, data>>
    BY <1>4 DEF vars
  <2> QED
    BY <2>1 DEF InKey, IsRequest, Taken
<1> QED
  BY <1>1, <1>2, <1>3, <1>4 DEF Next

(* Before the first symbol nothing is taken. *)
LEMMA InitKey == Init => InKey
BY DEF Init, InKey

(* The proxy makes the key when the call has returned, with the header's   *)
(* last symbol consumed.                                                   *)
LEMMA KeyAtReturn == IInv /\ InKey => KeyRead
<1> SUFFICES ASSUME IInv, InKey, IsRequest, Outcome = "done"
             PROVE  \E e \in 1..at :
                      /\ \E b \in 1..(e - 1) : HeaderAt(text, b, e)
                      /\ ~torn /\ (\A k \in (e + 1)..at : Eol(text[k])) => KeyOf(text, e, data)
  BY DEF KeyRead
<1>1. ~calling /\ parser.http_errno = "HPE_OK" /\ data.done
  BY DEF Outcome
<1>2. PICK e \in 1..(at + 1) : Taken(e)
  BY <1>1 DEF InKey
<1>3. e # at + 1 /\ at \in Nat
  BY <1>1, <1>2, MessagesAssumption DEF Taken, IInv, TypeOK
<1>4. e \in 1..at
  BY <1>3
<1> QED
  BY <1>2, <1>4 DEF Taken

(* The key that the proxy makes when the call for a request has returned   *)
(* is that of the request up to its first empty line, if the callbacks got *)
(* every word whole and nothing but ends of lines was read behind it.      *)
THEOREM KeyReadExactly == Spec => []KeyRead
<1>1. ReadSoFar /\ InFields /\ InKey /\ [Next]_vars => InFields' /\ InKey'
  BY InFieldsKept, InKeyKept
<1>2. Init => InFields /\ InKey
  BY InitFields, InitKey
<1>3. ReadSoFar /\ InKey => KeyRead
  BY KeyAtReturn DEF ReadSoFar
<1> QED
  BY <1>1, <1>2, <1>3, ReadInvariance, PTL DEF Spec
=============================================================================
