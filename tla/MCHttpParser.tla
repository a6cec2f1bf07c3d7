--------------------------- MODULE MCHttpParser ---------------------------
(***************************************************************************)
(* Messages to check HttpParser with.                                      *)
(***************************************************************************)
EXTENDS HttpParser

Line(name, value) == [name |-> <<name>>, value |-> value]

Length(v)   == Line("content-length", <<" ">> \o v)
Coding(v)   == Line("transfer-encoding", <<" ">> \o v)
Options(v)  == Line("connection", <<" ">> \o v)
Host        == Line("host", <<" ", "host", ":", "2">>)
Upgrade     == Line("upgrade", <<" ", "word">>)

Lengths ==
  {<<"0">>, <<"2">>, <<"1", "1">>, <<"2", " ", " ">>, <<"0", "2">>,        \* lengths
   <<"1", "1", "7">>, <<"1", "2", "7">>, <<"9", "9", "9", "9">>,           \* at the limit and beyond
   <<>>, <<"word">>, <<"2", "word">>, <<"2", " ", "2">>}                   \* none

Codings ==
  {<<"chunked">>, <<"word", ",", " ", "chunked">>, <<"chunked", " ">>,     \* chunked in the end
   <<"word">>, <<"chunked", ",", "word">>, <<"word", "chunked">>,          \* not
   <<"chunked", "word">>, <<"chunked", ",", ";">>}

OptionLists ==
  {<<"close">>, <<"keep-alive">>, <<"word", ",", " ", "close">>,
   <<"keep-alive", ",", "word">>, <<"close", "word">>, <<"upgrade", " ">>}

Folded == Line("word", <<" ", "word", "CR", "LF", " ", "word">>)

FoldedLength == Line("content-length", <<" ", "2", "CR", "LF", " ", " ">>)

LateLength == Line("content-length", <<"CR", "LF", " ", "2">>)

\* The header's lines after the first.
LineLists ==
  {<<>>, <<Host>>, <<Host, Folded>>, <<Folded, Length(<<"2">>)>>}
  \cup {<<Length(v)>> : v \in Lengths}
  \cup {<<Coding(v)>> : v \in Codings}
  \cup {<<Options(v), Length(<<"2">>)>> : v \in OptionLists}
  \cup {<<Options(<<"upgrade">>), Upgrade>>, <<Upgrade, Options(<<"close", ",", "upgrade">>)>>,
        <<Upgrade, Options(<<"upgrade">>), Length(<<"2">>)>>,
        <<Length(<<"2">>), Length(<<"2">>)>>, <<Length(<<"2">>), Coding(<<"chunked">>)>>,
        <<Coding(<<"word">>), Length(<<"0">>)>>, <<FoldedLength>>, <<LateLength>>,
        <<Line("word", <<>>), Length(<<"0">>)>>, <<Line("word", <<" ", "CTL">>)>>,
        <<Line("word", <<" ", "word", "CTL">>)>>, <<Line("connection", <<"close", "CTL">>)>>,
        <<[name |-> <<"word", " ">>, value |-> <<>>]>>,
        <<[name |-> <<" ", "word">>, value |-> <<>>]>>,
        <<[name |-> <<"content-length", "word">>, value |-> <<"word">>]>>,
        <<[name |-> <<"transfer-encoding", "word">>, value |-> <<"word">>]>>}

Chunk(size, extension, bytes) == [size |-> size, extension |-> extension, data |-> bytes]

LastChunk == Chunk(<<"0">>, <<>>, <<>>)

Trailer == <<"word", ":", "word", "CR", "LF">>

ChunkLists ==
  {<<LastChunk>>, <<Chunk(<<"2">>, <<>>, <<"LF", "x">>), LastChunk>>,
   <<Chunk(<<"0", "1">>, <<";", "word">>, <<"x">>), Chunk(<<"1">>, <<" ">>, <<"CR">>), LastChunk>>}

BadChunkLists ==
  {<<Chunk(<<"1">>, <<>>, <<"x", "x">>), LastChunk>>, <<Chunk(<<"2">>, <<>>, <<"x">>), LastChunk>>,
   <<Chunk(<<"x">>, <<>>, <<"x">>), LastChunk>>, <<Chunk(<<"1">>, <<"x">>, <<"x">>), LastChunk>>,
   <<Chunk(<<"1", "0", "0">>, <<>>, <<"x">>), LastChunk>>}

\* A body that is as long as the header says, or two bytes.
Body2(m) ==
  IF Framing(m) = "length" /\ IsLength(ValueOf(m, "content-length")) /\
     Number(LengthDigits(m), 10) < 20
  THEN [i \in 1..Number(LengthDigits(m), 10) |-> "x"]
  ELSE IF Framing(m) = "close" THEN <<"x", "LF">> ELSE <<>>

Plain ==
  [lead |-> <<>>, version |-> "HTTP/1.1", eol |-> NewLine, lines |-> <<>>,
   body |-> <<>>, chunks |-> <<>>, trailer |-> <<>>, surplus |-> <<>>, garbled |-> 0]

Request == Plain @@ [type |-> "HTTP_REQUEST", method |-> "GET", url |-> <<"/", "word">>]

Reply == Plain @@ [type |-> "HTTP_RESPONSE", status |-> "200"]

WithBody(m) == [m EXCEPT !.body = Body2(m)]

Urls ==
  {<<"/">>, <<"http", ":", "/", "/", "host", "/", "word", "?", "word", "#", "word">>,
   <<"http", ":", "/", "/", "word", "@", "host", "?", "?">>, <<"/", "?", "#", "#", "?">>,
   <<"/", "#", "word", "#">>, <<"http", ":", "/", " ">>, <<"http", "/">>, <<"http", ":", "/", "/", "word", "@", "@">>, <<"?">>, <<"/", "CTL">>}

Second == <<"GET", " ", "/", " ", "HTTP/1.1", "CR", "LF", "CR", "LF">>

Requests ==
  {WithBody([Request EXCEPT !.lines = l]) : l \in LineLists}
  \cup {[Request EXCEPT !.url = u, !.version = v, !.lines = <<Host>>] :
          u \in Urls, v \in {"HTTP/1.1", "HTTP/0.9"}}
  \cup {[Request EXCEPT !.method = "POST", !.lead = NewLine, !.eol = <<"LF">>, !.version = v,
                        !.lines = <<Host>>, !.surplus = s] :
          v \in Versions \cup {"word", "HTTP/0.9"}, s \in {<<>>, <<"x">>, NewLine, Second}}
  \cup {[Request EXCEPT !.method = "CONNECT", !.url = <<"host", ":", "2">>],
        [Request EXCEPT !.method = "CONNECT", !.url = <<"/">>],
        [Request EXCEPT !.method = "word"]}
  \cup {[Request EXCEPT !.lines = <<Coding(<<"chunked">>)>>, !.chunks = k] :
          k \in ChunkLists \cup BadChunkLists}

Replies ==
  {WithBody([Reply EXCEPT !.lines = l]) : l \in LineLists}
  \cup {WithBody([Reply EXCEPT !.lines = l, !.status = s]) :
          l \in {<<>>, <<Length(<<"2">>)>>, <<Options(<<"upgrade">>), Upgrade>>},
          s \in {"100", "101", "204", "304", "404", "word"}}
  \cup {WithBody([Reply EXCEPT !.lines = l, !.version = v, !.lead = NewLine, !.eol = e,
                               !.surplus = s]) :
          l \in {<<Length(<<"2">>)>>, <<Options(<<"keep-alive">>), Length(<<"2">>)>>},
          v \in Versions \cup {"word"}, e \in {NewLine, <<"LF">>}, s \in {<<>>, <<"x">>, NewLine}}
  \cup {[Reply EXCEPT !.lines = <<Coding(<<"chunked">>)>>, !.chunks = k, !.trailer = t,
                      !.surplus = s] :
          k \in ChunkLists, t \in {<<>>, Trailer}, s \in {<<>>, <<"x">>}}
  \cup {[Reply EXCEPT !.lines = <<Coding(<<"chunked">>)>>, !.chunks = k] : k \in BadChunkLists}

Garbled(m, places) == {[m EXCEPT !.garbled = i] : i \in places}

AllMessages ==
  LET request == [Request EXCEPT !.lead = NewLine, !.lines = <<Host>>]
      reply == WithBody([Reply EXCEPT !.lines = <<Length(<<"2">>), Folded>>])
      chunked == [Reply EXCEPT !.lines = <<Coding(<<"chunked">>)>>, !.trailer = Trailer,
                    !.chunks = <<Chunk(<<"2">>, <<>>, <<"LF", "x">>), LastChunk>>]
      begin == Len(Header(chunked))
  IN Requests \cup Replies
     \cup Garbled(request, 1..Len(Header(request)))
     \cup Garbled(reply, 1..Len(Header(reply)) \ {5, 6})
     \cup Garbled(chunked, (begin + 1)..Len(Bytes(chunked)) \ {begin + 4, begin + 5})
=============================================================================
