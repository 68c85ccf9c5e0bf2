-------------------------------- MODULE Resp ---------------------------------
(***************************************************************************)
(* The protocol of src/src/resp.cpp: the parser of commands, the tokenizer *)
(* of inline commands and the encoders, with the two places that feed the  *)
(* parser: processInput, which meets the input in chunks, and              *)
(* AppendOnlyFile::load, which meets a file that may be cut short.         *)
(*                                                                         *)
(* A character is its code.  Positions count from 1.                       *)
(***************************************************************************)
EXTENDS Integers, Sequences, SequencesExt, FiniteSetsExt

CONSTANTS
    MaxArguments,   \* MAX_ARGUMENTS
    MaxBulkSize,    \* MAX_BULK_SIZE
    MaxInlineSize,  \* MAX_INLINE_SIZE
    Streams         \* inputs: [bytes, intended], see Intention

ASSUME SizesAssumption ==
    MaxArguments \in Nat /\ MaxBulkSize \in Nat /\ MaxInlineSize \in Nat

TAB == 9
LF == 10
CR == 13
SPACE == 32
DOUBLEQUOTE == 34
DOLLAR == 36
SINGLEQUOTE == 39
STAR == 42
MINUS == 45
ZERO == 48
BACKSLASH == 92

Incomplete == [status |-> "Incomplete", arguments |-> <<>>, consumed |-> 0]
Refused(error) == [status |-> "Error", arguments |-> <<>>, consumed |-> 0, error |-> error]
Complete(arguments, consumed) ==
    [status |-> "Complete", arguments |-> arguments, consumed |-> consumed]

Rest(s, from) == SubSeq(s, from, Len(s))

\* The first of some places of s, or one past the end.
FirstPlace(s, places) == Min(places \cup {Len(s) + 1})

(***************************************************************************)
(* Numbers.  A value beyond long long is refused like any that exceeds the *)
(* limits, so that numbers need no width here.                             *)
(***************************************************************************)
IsDigit(ch) == ch \in ZERO .. ZERO + 9
Unsigned(digits) == FoldLeft(LAMBDA n, ch : 10 * n + (ch - ZERO), 0, digits)
IsNumber(text) ==
    LET digits == IF text # <<>> /\ text[1] = MINUS THEN Tail(text) ELSE text
    IN  digits # <<>> /\ \A i \in DOMAIN digits : IsDigit(digits[i])
Number(text) == IF text[1] = MINUS THEN -Unsigned(Tail(text)) ELSE Unsigned(text)

ValidLength(text, limit) == IsNumber(text) /\ Number(text) \in 0 .. limit

RECURSIVE Decimal(_)
Decimal(n) == IF n < 10 THEN <<ZERO + n>> ELSE Append(Decimal(n \div 10), ZERO + (n % 10))

(***************************************************************************)
(* tokenizeCommandLine.                                                    *)
(***************************************************************************)
isSpace(ch) == ch \in {SPACE, TAB, CR, LF}

hexValue(ch) ==
    CASE ch \in 48 .. 57 -> ch - 48      \* 0 to 9
      [] ch \in 97 .. 102 -> ch - 87     \* a to f
      [] ch \in 65 .. 70 -> ch - 55      \* A to F
      [] OTHER -> -1

\* \n, \r, \t, \b and \a; any other character stands for itself.
Unescaped(ch) ==
    CASE ch = 110 -> LF
      [] ch = 114 -> CR
      [] ch = 116 -> TAB
      [] ch = 98 -> 8
      [] ch = 97 -> 7
      [] OTHER -> ch

NoToken == [ok |-> FALSE]
EndToken(current, next) == [ok |-> TRUE, argument |-> current, next |-> next]

\* A closing quote must end the argument.
CloseQuote(line, pos, current) ==
    IF pos < Len(line) /\ ~isSpace(line[pos + 1]) THEN NoToken
    ELSE EndToken(current, pos + 1)

RECURSIVE Token(_, _, _, _)
Token(line, pos, current, mode) ==
    IF pos > Len(line)
    THEN IF mode = "plain" THEN EndToken(current, pos) ELSE NoToken
    ELSE LET ch == line[pos]
             escapes == ch = BACKSLASH /\ pos < Len(line)
             IsHex(i) == i <= Len(line) /\ hexValue(line[i]) >= 0
             Take(c, n) == Token(line, pos + n, Append(current, c), mode)
         IN  CASE mode = "double" /\ escapes ->
                    IF line[pos + 1] = 120 /\ pos + 3 <= Len(line) /\ IsHex(pos + 2)
                       /\ IsHex(pos + 3)
                    THEN Take(16 * hexValue(line[pos + 2]) + hexValue(line[pos + 3]), 4)
                    ELSE Take(Unescaped(line[pos + 1]), 2)
               [] mode = "single" /\ escapes /\ line[pos + 1] = SINGLEQUOTE ->
                    Take(SINGLEQUOTE, 2)
               [] mode = "double" /\ ch = DOUBLEQUOTE -> CloseQuote(line, pos, current)
               [] mode = "single" /\ ch = SINGLEQUOTE -> CloseQuote(line, pos, current)
               [] mode = "plain" /\ isSpace(ch) -> EndToken(current, pos)
               [] mode = "plain" /\ ch = DOUBLEQUOTE /\ current = <<>> ->
                    Token(line, pos + 1, current, "double")
               [] mode = "plain" /\ ch = SINGLEQUOTE /\ current = <<>> ->
                    Token(line, pos + 1, current, "single")
               [] OTHER -> Take(ch, 1)

\* A sequence of arguments in a singleton, or <<>> for unbalanced quotes.
RECURSIVE Tokens(_, _, _)
Tokens(line, from, arguments) ==
    LET start == FirstPlace(line, {i \in from .. Len(line) : ~isSpace(line[i])})
        After(token) ==
            IF ~token.ok THEN <<>>
            ELSE Tokens(line, token.next, Append(arguments, token.argument))
    IN  IF start > Len(line) THEN <<arguments>>
        ELSE After(Token(line, start, <<>>, "plain"))

tokenizeCommandLine(line) == Tokens(line, 1, <<>>)

parseInlineCommand(s) ==
    LET lineEnd == FirstPlace(s, {i \in DOMAIN s : s[i] = LF})
        Parsed(result) ==
            IF result = <<>> THEN Refused("unbalanced quotes")
            ELSE Complete(result[1], lineEnd)
    IN  IF lineEnd <= Len(s) THEN Parsed(tokenizeCommandLine(SubSeq(s, 1, lineEnd - 1)))
        ELSE IF Len(s) > MaxInlineSize THEN Refused("too big inline request")
        ELSE Incomplete

(***************************************************************************)
(* parseRespCommand.                                                       *)
(***************************************************************************)
FindCrlf(s, from) ==
    FirstPlace(s, {i \in from .. Len(s) - 1 : s[i] = CR /\ s[i + 1] = LF})

\* Slip: one character is enough to judge the end of a bulk string.
BulkEnd_Early(s, dataEnd) ==
    IF dataEnd > Len(s) THEN "Incomplete"
    ELSE IF SubSeq(s, dataEnd, Min({dataEnd + 1, Len(s)})) = <<CR, LF>> THEN "Complete"
    ELSE "Error"

BulkEnd(s, dataEnd) ==
    IF dataEnd + 1 > Len(s) THEN "Incomplete"
    ELSE IF SubSeq(s, dataEnd, dataEnd + 1) = <<CR, LF>> THEN "Complete"
    ELSE "Error"

RECURSIVE Bulks(_, _, _, _)
Bulks(s, position, remaining, arguments) ==
    LET Data(dataStart, dataEnd) ==
            CASE BulkEnd(s, dataEnd) = "Incomplete" -> Incomplete
              [] BulkEnd(s, dataEnd) = "Error" -> Refused("Bulk string missing CRLF")
              [] OTHER -> Bulks(s, dataEnd + 2, remaining - 1,
                                Append(arguments, SubSeq(s, dataStart, dataEnd - 1)))
        Length(lengthEnd) ==
            IF lengthEnd > Len(s) THEN Incomplete
            ELSE IF ~ValidLength(SubSeq(s, position + 1, lengthEnd - 1), MaxBulkSize)
            THEN Refused("Invalid bulk string length")
            ELSE Data(lengthEnd + 2,
                      lengthEnd + 2 + Number(SubSeq(s, position + 1, lengthEnd - 1)))
    IN  IF remaining = 0 THEN Complete(arguments, position - 1)
        ELSE IF position > Len(s) THEN Incomplete
        ELSE IF s[position] # DOLLAR THEN Refused("Expected RESP bulk string")
        ELSE Length(FindCrlf(s, position + 1))

ParseArray(s, countEnd) ==
    IF countEnd > Len(s) THEN Incomplete
    ELSE IF ~ValidLength(SubSeq(s, 2, countEnd - 1), MaxArguments)
    THEN Refused("Invalid array length")
    ELSE Bulks(s, countEnd + 2, Number(SubSeq(s, 2, countEnd - 1)), <<>>)

parseRespCommand(s) ==
    IF s = <<>> THEN Incomplete
    ELSE IF s[1] # STAR THEN parseInlineCommand(s)
    ELSE ParseArray(s, FindCrlf(s, 2))

(***************************************************************************)
(* The encoders, and quote of reply_format.cpp.                            *)
(***************************************************************************)
Line(prefix, text) == <<prefix>> \o text \o <<CR, LF>>
PLUS == 43
COLON == 58

respSimpleString(text) == Line(PLUS, text)
respError(message) == Line(MINUS, message)
respBulkString(value) == Line(DOLLAR, Decimal(Len(value))) \o value \o <<CR, LF>>
respNull == Line(DOLLAR, <<MINUS, ZERO + 1>>)
respEncodedArray(elements) == Line(STAR, Decimal(Len(elements))) \o FlattenSeq(elements)
respArray(arguments) ==
    respEncodedArray([i \in DOMAIN arguments |-> respBulkString(arguments[i])])

HexDigit(n) == IF n < 10 THEN ZERO + n ELSE 87 + n

\* Slip: a backslash is not escaped.
QuotedChar_PlainBackslash(ch) ==
    CASE ch = DOUBLEQUOTE -> <<BACKSLASH, ch>>
      [] ch = LF -> <<BACKSLASH, 110>>
      [] ch = CR -> <<BACKSLASH, 114>>
      [] OTHER -> <<ch>>

QuotedChar(ch) ==
    CASE ch \in {BACKSLASH, DOUBLEQUOTE} -> <<BACKSLASH, ch>>
      [] ch = LF -> <<BACKSLASH, 110>>
      [] ch = CR -> <<BACKSLASH, 114>>
      [] ch = TAB -> <<BACKSLASH, 116>>
      [] ch \in (0 .. 31) \ {TAB, LF, CR} \/ ch >= 127 ->
            <<BACKSLASH, 120, HexDigit(ch \div 16), HexDigit(ch % 16)>>
      [] OTHER -> <<ch>>

quote(value) ==
    <<DOUBLEQUOTE>> \o FlattenSeq([i \in DOMAIN value |-> QuotedChar(value[i])])
    \o <<DOUBLEQUOTE>>

(***************************************************************************)
(* Commands that need no database, named by their first letter: PING,      *)
(* ECHO, MGET (of missing keys), QUIT and unknown ones, whose error        *)
(* repeats the name the client sent.  A reply is a value and its encoding. *)
(***************************************************************************)
P == 80
E == 69
M == 77
Q == 81

Reply(kind, value, payload) ==
    [value |-> <<kind, value>>, payload |-> payload, closeConnection |-> FALSE]
Nil == <<"nil", <<>>>>

execute(arguments) ==
    LET name == arguments[1]
        count == Len(arguments)
        Missing(x) == [i \in 1 .. count - 1 |-> x]
    IN  CASE name = <<Q>> ->
               [Reply("simple", <<Q>>, respSimpleString(<<Q>>))
                  EXCEPT !.closeConnection = TRUE]
          [] name = <<P>> /\ count = 1 -> Reply("simple", <<P>>, respSimpleString(<<P>>))
          [] name \in {<<P>>, <<E>>} /\ count = 2 ->
               Reply("bulk", arguments[2], respBulkString(arguments[2]))
          [] name = <<M>> /\ count > 1 ->
               Reply("array", Missing(Nil), respEncodedArray(Missing(respNull)))
          [] OTHER -> Reply("error", name, respError(name))

(***************************************************************************)
(* ReplyReader::format: the value at a position and the position after it, *)
(* or Unreadable.  The layout of the text it prints is left out.           *)
(***************************************************************************)
Unreadable == [ok |-> FALSE]
Value(kind, value, next) == [ok |-> TRUE, value |-> <<kind, value>>, next |-> next]

\* Slip: the line end after a bulk string is not skipped.
BulkValue_KeepsLineEnd(s, from, size) ==
    IF size < 0 THEN Value("nil", <<>>, from)
    ELSE IF from + size + 1 > Len(s) THEN Unreadable
    ELSE Value("bulk", SubSeq(s, from, from + size - 1), from + size)

BulkValue(s, from, size) ==
    IF size < 0 THEN Value("nil", <<>>, from)
    ELSE IF from + size + 1 > Len(s) THEN Unreadable
    ELSE Value("bulk", SubSeq(s, from, from + size - 1), from + size + 2)

\* The lengths are those the encoders write.  (std::stoll would also take
\* leading blanks, a plus sign and characters behind the digits.)
RECURSIVE format(_, _)
format(s, position) ==
    LET Element(read, i) ==
            IF ~read.ok THEN read
            ELSE LET one == format(s, read.next)
                 IN  IF one.ok
                     THEN Value("array", Append(read.value[2], one.value), one.next)
                     ELSE Unreadable
        ArrayValue(from, count) ==
            IF count < 0 THEN Value("nil", <<>>, from)
            ELSE FoldLeft(Element, Value("array", <<>>, from), [i \in 1 .. count |-> i])
        Read(end, line) ==
            CASE s[position] = PLUS -> Value("simple", line, end + 2)
              [] s[position] = MINUS -> Value("error", line, end + 2)
              [] s[position] = COLON -> Value("integer", line, end + 2)
              [] s[position] = DOLLAR /\ IsNumber(line) -> BulkValue(s, end + 2, Number(line))
              [] s[position] = STAR /\ IsNumber(line) -> ArrayValue(end + 2, Number(line))
              [] OTHER -> Unreadable
        Delimited(end) ==
            IF end > Len(s) THEN Unreadable ELSE Read(end, SubSeq(s, position + 1, end - 1))
    IN  IF position > Len(s) THEN Unreadable ELSE Delimited(FindCrlf(s, position + 1))

\* The replies a client reads from all it was sent.
RECURSIVE ReadAll(_, _)
ReadAll(s, position) ==
    IF position > Len(s) THEN <<>>
    ELSE LET one == format(s, position)
         IN  IF one.ok THEN <<one.value>> \o ReadAll(s, one.next) ELSE <<Unreadable>>

(***************************************************************************)
(* processInput, over a client's part of the state: input, the commands    *)
(* executed, the values of their replies, the output, closeAfterWrite and  *)
(* the error it was refused with.                                          *)
(***************************************************************************)
NewClient ==
    [input |-> <<>>, commands |-> <<>>, values |-> <<>>, output |-> <<>>,
     closeAfterWrite |-> FALSE, error |-> ""]

Executed(c, arguments, reply) ==
    [c EXCEPT !.commands = Append(@, arguments), !.values = Append(@, reply.value),
              !.output = @ \o reply.payload, !.closeAfterWrite = reply.closeConnection]

RECURSIVE processInput(_)
processInput(c) ==
    LET After(rest, arguments) ==
            IF arguments = <<>> THEN processInput(rest)
            ELSE processInput(Executed(rest, arguments, execute(arguments)))
        Apply(result) ==
            CASE result.status = "Incomplete" -> c
              [] result.status = "Error" ->
                   [c EXCEPT !.error = result.error, !.closeAfterWrite = TRUE,
                             !.values = Append(@, <<"error", <<>>>>),
                             !.output = @ \o respError(<<>>)]
              [] OTHER -> After([c EXCEPT !.input = Rest(@, result.consumed + 1)],
                                result.arguments)
    IN  IF c.closeAfterWrite \/ c.input = <<>> THEN c ELSE Apply(parseRespCommand(c.input))

(***************************************************************************)
(* AppendOnlyFile::load: the commands replayed and what is left of the     *)
(* file, whose truncated tail is cut off.                                  *)
(***************************************************************************)
\* Slip: a truncated tail is skipped and left in the file.
Repaired_KeepsTail(contents, position) == contents
Repaired(contents, position) == SubSeq(contents, 1, position)

RECURSIVE LoadFrom(_, _, _)
LoadFrom(contents, position, replayed) ==
    LET Apply(result) ==
            CASE result.status = "Incomplete" ->
                   [ok |-> TRUE, replayed |-> replayed, file |-> Repaired(contents, position)]
              [] result.status = "Error" ->
                   [ok |-> FALSE, replayed |-> replayed, file |-> contents]
              [] OTHER -> LoadFrom(contents, position + result.consumed,
                                   IF result.arguments = <<>> THEN replayed
                                   ELSE Append(replayed, result.arguments))
    IN  IF position >= Len(contents)
        THEN [ok |-> TRUE, replayed |-> replayed, file |-> contents]
        ELSE Apply(parseRespCommand(Rest(contents, position + 1)))

load(contents) == LoadFrom(contents, 0, <<>>)

(***************************************************************************)
(* The specification: a stream arrives in chunks of any size, and each     *)
(* chunk is processed as it is received.                                   *)
(***************************************************************************)
VARIABLES
    stream,   \* what the peer sends
    arrived,  \* how much of it was received
    client

vars == <<stream, arrived, client>>

Init == stream \in Streams /\ arrived = 0 /\ client = NewClient

Receive(n) ==
    /\ ~client.closeAfterWrite
    /\ arrived' = arrived + n
    /\ client' = processInput([client EXCEPT
                    !.input = @ \o SubSeq(stream.bytes, arrived + 1, arrived + n)])
    /\ UNCHANGED stream

Next == \E n \in 1 .. Len(stream.bytes) - arrived : Receive(n)

Spec == Init /\ [][Next]_vars

Arrived == SubSeq(stream.bytes, 1, arrived)
AtOnce(bytes) == processInput([NewClient EXCEPT !.input = bytes])

(***************************************************************************)
(* Properties.                                                             *)
(***************************************************************************)
\* parseRespCommand starts again from the front of the buffer at every chunk
\* (resp.cpp:205, tcp_server.cpp:467).  Where the stream is split makes no
\* difference: nothing that arrived is held back, and what is executed,
\* answered or refused so far is what the whole stream, received at once,
\* has executed, answered or refused first.  The exception is a line longer
\* than MAX_INLINE_SIZE, which is refused only when it is met unfinished.
SplitIndependent ==
    LET Verdict(c) == <<c.commands, c.output, c.error>>
        Agrees(whole) ==
            IF client.error = "too big inline request"
            THEN IsPrefix(client.commands, whole.commands)
            ELSE /\ client = AtOnce(Arrived)
                 /\ IsPrefix(client.output, whole.output)
                 /\ client.closeAfterWrite => Verdict(client) = Verdict(whole)
    IN  Agrees(AtOnce(stream.bytes))

\* What respArray encodes, or quote writes on a line, is executed as it was
\* meant, whatever its bytes: no command is invented, altered or reordered
\* while part of the stream is missing, none is refused, and nothing is left
\* over at the end.  Intention: the commands of the stream in a singleton, or
\* <<>> for a stream that no encoder wrote.
Intention ==
    \A i \in DOMAIN stream.intended :
        LET intended == stream.intended[i]
        IN  /\ IsPrefix(client.commands, intended)
            /\ client.error = ""
            /\ arrived = Len(stream.bytes) => client.commands = intended /\ client.input = <<>>

\* AppendOnlyFile::load (aof.cpp:45-99) after a crash that cut the file short
\* anywhere: it replays what the server would have executed, and a command
\* appended to the repaired file afterwards is replayed after the others by
\* the next start.
RepairedFileGrows ==
    LET loaded == load(Arrived)
        again == load(loaded.file \o respArray(<<<<E>>, <<CR, LF>>>>))
    IN  loaded.ok =>
          /\ again.ok
          /\ again.replayed = Append(loaded.replayed, <<<<E>>, <<CR, LF>>>>)
          /\ stream.intended # <<>> => loaded.replayed = client.commands

\* The reader of replies (reply_format.cpp:40) finds in the output exactly
\* one reply for every command, in order and with its value, whatever bytes
\* the values hold.  Left out are error texts with a line end: respError
\* copies the name of an unknown command as it came.
RepliesReadBack ==
    (\A i \in DOMAIN client.values :
        client.values[i][1] = "error" =>
            FindCrlf(client.values[i][2], 1) > Len(client.values[i][2]))
    => ReadAll(client.output, 1) = client.values
=============================================================================
