---------------------------- MODULE HttpMessage ----------------------------
(***************************************************************************)
(* What an HTTP message says of its own extent: the reference HttpParser   *)
(* is compared with, written from the rules that http_parser.c cites       *)
(* (RFC 7230 3.3.3, RFC 2616 4.4) and not from the parser's states.        *)
(*                                                                         *)
(* A message is a record; Bytes(m) is what is sent, a sequence of symbols  *)
(* in which a word stands for all its bytes, while digits, separators and  *)
(* line ends stand for themselves.                                         *)
(***************************************************************************)
EXTENDS Integers, Sequences, SequencesExt

CONSTANTS ULLONG_MAX,       \* the largest 64-bit number; the runs take a small one
          max_header_size   \* the most bytes a header may have

\* ULLONG_MAX is 2^64 - 1 in the code; what is relied on is that it is beyond any digit.
ASSUME SizesAssumption ==
  ULLONG_MAX \in Nat /\ ULLONG_MAX >= 16 /\ max_header_size \in Nat \ {0}

-----------------------------------------------------------------------------
\* What is sent.

NewLine == <<"CR", "LF">>

StartLine(m) ==
  IF m.type = "HTTP_REQUEST"
  THEN <<m.method, " ">> \o m.url \o
       (IF m.version = "HTTP/0.9" THEN <<>> ELSE <<" ", m.version>>)
  ELSE <<m.version, " ", m.status, " ", "word">>

HeaderLine(l) == l.name \o <<":">> \o l.value

Header(m) ==
  m.lead \o StartLine(m) \o m.eol \o
  FlattenSeq([i \in DOMAIN m.lines |-> HeaderLine(m.lines[i]) \o m.eol]) \o m.eol

ChunkLine(k) == k.size \o k.extension \o NewLine

\* After the last chunk, which has no data, there may be a trailer.
Chunks(m) ==
  FlattenSeq([i \in DOMAIN m.chunks |->
                ChunkLine(m.chunks[i]) \o m.chunks[i].data \o
                (IF i = Len(m.chunks) THEN m.trailer ELSE <<>>) \o NewLine])

\* garbled is the place of a control character where there may be none, or 0: not in a
\* body's data and not in the reason of a status, nor where the reason ends.
Bytes(m) ==
  LET all == Header(m) \o m.body \o Chunks(m) \o m.surplus
  IN [i \in DOMAIN all |-> IF i = m.garbled THEN "CTL" ELSE all[i]]

-----------------------------------------------------------------------------
\* What it says of itself.

Value == [c \in {"0", "1", "2", "7", "9"} |->
            CASE c = "0" -> 0 [] c = "1" -> 1 [] c = "2" -> 2
              [] c = "7" -> 7 [] c = "9" -> 9]

IsDigit(c) == c \in DOMAIN Value

Blank(c) == c \in {" ", "CR", "LF"}

Number(digits, base) == FoldLeft(LAMBDA n, c : n * base + Value[c], 0, digits)

\* Numbers the parser must take, and those it must refuse; between them it may do either.
Small(digits, base) == Number(digits, base) <= ULLONG_MAX - base
Huge(digits, base)  == Number(digits, base) >= ULLONG_MAX

Lines(m, name) == {i \in DOMAIN m.lines : m.lines[i].name = <<name>>}

ValueOf(m, name) == m.lines[CHOOSE i \in Lines(m, name) : TRUE].value

\* A length is one run of digits with blanks around it.
IsLength(v) ==
  \E i \in DOMAIN v, j \in DOMAIN v :
    /\ i <= j
    /\ \A k \in DOMAIN v : IF k \in i..j THEN IsDigit(v[k]) ELSE Blank(v[k])

LengthDigits(m) == SelectSeq(ValueOf(m, "content-length"), IsDigit)

Encoded(m) == Lines(m, "transfer-encoding") # {}

FinallyChunked(m) ==
  /\ Encoded(m)
  /\ LET v == SelectSeq(ValueOf(m, "transfer-encoding"), LAMBDA c : ~Blank(c))
     IN IsSuffix(<<"chunked">>, v) /\ (Len(v) = 1 \/ v[Len(v) - 1] = ",")

\* Replies that never have a body.
Bodiless == {"100", "101", "204", "304"}

\* How the end of the body is found (RFC 7230 3.3.3).
Framing(m) ==
  IF m.type = "HTTP_RESPONSE" /\ m.status \in Bodiless THEN "none"
  ELSE IF Encoded(m) THEN IF FinallyChunked(m) THEN "chunks" ELSE "close"
  ELSE IF Lines(m, "content-length") # {} THEN "length"
  ELSE IF m.type = "HTTP_REQUEST" THEN "none" ELSE "close"

IsName(name) == name # <<>> /\ \A i \in DOMAIN name : ~Blank(name[i]) /\ name[i] # "CTL"

\* A path, an absolute address or, for CONNECT, an authority.
IsUrl(m) ==
  /\ \A i \in DOMAIN m.url : ~Blank(m.url[i]) /\ m.url[i] # "CTL"
  /\ \A i \in 1..(Len(m.url) - 1) : ~(m.url[i] = "@" /\ m.url[i + 1] = "@")
  /\ \/ m.url[1] = "/"
     \/ Len(m.url) > 4 /\ SubSeq(m.url, 2, 4) = <<":", "/", "/">>
     \/ m.method = "CONNECT"

\* The header can be told apart and does not contradict itself.
HeaderGood(m) ==
  /\ Len(Header(m)) <= max_header_size
  /\ m.version # "word"
  /\ m.type = "HTTP_RESPONSE" => m.status # "word"
  /\ m.type = "HTTP_REQUEST" => m.method # "word" /\ IsUrl(m)
  /\ \A i \in DOMAIN m.lines :
       /\ IsName(m.lines[i].name)
       /\ \A k \in DOMAIN m.lines[i].value : m.lines[i].value[k] # "CTL"
       /\ m.lines[i].name = <<"content-length">> => IsLength(m.lines[i].value)
  /\ \A i, j \in Lines(m, "content-length") : i = j
  /\ Lines(m, "content-length") # {} => ~Encoded(m)
  /\ m.type = "HTTP_REQUEST" => Framing(m) # "close"

ChunkGood(k, last) ==
  /\ k.size # <<>> /\ \A i \in DOMAIN k.size : IsDigit(k.size[i])
  /\ Number(k.size, 16) = Len(k.data)
  /\ last <=> k.data = <<>>
  /\ k.extension # <<>> => k.extension[1] \in {";", " "}
  /\ Len(ChunkLine(k)) <= max_header_size

BodyGood(m) ==
  Framing(m) = "chunks" =>
    /\ m.chunks # <<>>
    /\ \A i \in DOMAIN m.chunks : ChunkGood(m.chunks[i], i = Len(m.chunks))
    /\ Len(m.trailer) + 2 <= max_header_size

(* Three things the parser takes its own way, so that nothing is said of   *)
(* them here: a reply that has no body and announces one, whose body it    *)
(* waits for; a name that only begins with transfer-encoding, which it     *)
(* takes for that header; the first character of a value, which may be any.*)
Peculiar(m) ==
  \/ /\ m.type = "HTTP_RESPONSE" /\ m.status \in Bodiless
     /\ Encoded(m) \/ Lines(m, "content-length") # {}
  \/ \E i \in DOMAIN m.lines :
       \/ Len(m.lines[i].name) > 1 /\ m.lines[i].name[1] = "transfer-encoding"
       \/ IsPrefix(<<"CTL">>, SelectSeq(m.lines[i].value, LAMBDA c : ~Blank(c)))
  \/ m.garbled > 1 /\ Bytes(m)[m.garbled - 1] \in {" ", ":"}

WellFormed(m) ==
  /\ HeaderGood(m) /\ BodyGood(m) /\ ~Peculiar(m) /\ m.garbled = 0
  /\ Framing(m) = "length" => Small(LengthDigits(m), 10)

Malformed(m) ==
  /\ ~Peculiar(m)
  /\ \/ ~HeaderGood(m)
     \/ m.garbled \in 1..Len(Header(m))
     \/ m.garbled # 0 /\ m.type = "HTTP_RESPONSE"
     \/ ~BodyGood(m) /\ m.type = "HTTP_RESPONSE"
     \/ Framing(m) = "length" /\ Huge(LengthDigits(m), 10)

\* How many bytes the body has, of a well-formed message that says so.
BodyLength(m) ==
  CASE Framing(m) = "none"   -> 0
    [] Framing(m) = "length" -> Number(LengthDigits(m), 10)
    [] Framing(m) = "chunks" -> Len(Chunks(m))

End(m) == Len(Header(m)) + BodyLength(m)
=============================================================================
