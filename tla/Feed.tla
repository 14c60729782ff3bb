-------------------------------- MODULE Feed --------------------------------
(***************************************************************************)
(* The text protocol end to end: a subscriber object of the server, the    *)
(* two byte streams of its connection, and the programs that read the      *)
(* feed, the client and the benchmark's latency_subscriber.                *)
(*                                                                         *)
(* Text is a sequence of tokens: words, numbers, fields ("key=number"),    *)
(* carriage returns and line feeds; blanks between words are left out.     *)
(* A recv() may cut it between any two tokens.                             *)
(***************************************************************************)
EXTENDS Integers, Sequences, SequencesExt

CONSTANTS
  MetricNames, \* names store::metric_name() gives
  Watched,     \* the metric the reader measures
  IdSpace,     \* values of a session id, 2^16 in the code
  Session,     \* the session whose samples and alerts are published
  Commands,    \* lines a far end may type, without their ends
  MaxTyped,    \* bound on typed lines
  MaxPublished \* bound on updates and alerts offered

Word(w) == <<"word", w>>
Number(n) == <<"number", n>>
Field(key, n) == <<"field", <<key, n>>>>
CR == <<"cr">>
LF == <<"lf">>

ASSUME FeedConstants ==
  /\ Watched \in MetricNames
  /\ IdSpace \in Nat \ {0} /\ Session \in 0..(IdSpace - 1)
  /\ MaxTyped \in Nat /\ MaxPublished \in Nat

VARIABLES
  subscribed_metric, \* tokens; empty for none
  updates_sent,
  up,                \* typed and not yet received by the server
  read_buffer,       \* received, and not yet a whole line
  down,              \* sent and not yet received by the reader
  buffer,            \* the reader's
  valid_count, alert_count, malformed_count, \* of the client
  count,             \* of latency_subscriber, for Watched
  typed, handled,    \* lines typed, and lines handle_line() was given
  sent,              \* lines send_line() was given
  published          \* updates and alerts the store has offered

server == <<subscribed_metric, updates_sent, read_buffer, handled>>
reader == <<buffer, valid_count, alert_count, malformed_count, count>>
vars == <<server, reader, up, down, typed, sent, published>>

---------------------------------------------------------------------------
\* The line-splitting loop, the same in on_readable(), handle_incoming() and
\* process_lines(): an LF ends a line, one CR before it is dropped.

Line(bytes, line_start, i) ==
  SubSeq(bytes, line_start,
         IF i > line_start /\ bytes[i - 1] = CR THEN i - 2 ELSE i - 1)

Scan(bytes) ==
  FoldLeftDomain(LAMBDA acc, i :
                   IF bytes[i] # LF THEN acc
                   ELSE [line_start |-> i + 1,
                         lines |-> Append(acc.lines, Line(bytes, acc.line_start, i))],
                 [line_start |-> 1, lines |-> <<>>],
                 bytes)

\* Mutant: the whole buffer is consumed.
RestNone(bytes) == <<>>

\* consume(line_start): an unfinished line waits for more.
Rest(bytes) == SubSeq(bytes, Scan(bytes).line_start, Len(bytes))

---------------------------------------------------------------------------
\* "stream >> n" for an unsigned n of Space values: a minus sign is accepted
\* and the number taken modulo Space; out of range, the extraction fails.

\* Mutant: the failure is not looked at, and the largest value is used.
UnsignedOf(token, Space) ==
  IF token[1] # "number" THEN {}
  ELSE IF token[2] \in (1 - Space)..(Space - 1) THEN {token[2] % Space} ELSE {Space - 1}

Unsigned(token, Space) ==
  IF token[1] = "number" /\ token[2] \in (1 - Space)..(Space - 1)
  THEN {token[2] % Space} ELSE {}

\* ACK: the whole of args must be one number.
Acked(args) == IF Len(args) = 1 THEN Unsigned(args[1], IdSpace) ELSE {}

---------------------------------------------------------------------------
\* The subscriber object, as a record: what a line does to it, and what is
\* sent back.

Update(metric, s, stamp, value) == <<Word(metric), Number(s), Number(stamp), Number(value)>>
ExcursionAlert(s, stamp, value) ==
  <<Word("ALERT"), Word("EXCURSION"), Number(s), Number(stamp), Number(value)>>
OfflineAlert(s, stamp) == <<Word("ALERT"), Word("OFFLINE"), Number(s), Number(stamp)>>

Stats(object) ==
  <<Word("STATS"), Field("metric", object.metric), Field("updates_sent", object.updates)>>

AckOk(s) ==
  <<Word("ACK_OK"), Number(s), Field("excursion_ms", 0),
    Field("excursion_active", 0), Field("offline_ms", 0)>>

\* handle_line() and handle_command(); any other line is ignored.
handle_line(object, line) ==
  IF line = <<>> THEN object
  ELSE CASE Head(line) = Word("SUBSCRIBE") -> [object EXCEPT !.metric = Tail(line)]
         [] Head(line) = Word("UNSUBSCRIBE") -> [object EXCEPT !.metric = <<>>]
         [] Head(line) = Word("STATS") -> [object EXCEPT !.out = Append(@, Stats(object))]
         [] Head(line) = Word("ACK") ->
              [object EXCEPT !.out = @ \o SetToSeq({AckOk(s) : s \in Acked(Tail(line))})]
         [] OTHER -> object

Stamp == 7 \* the device's timestamp; no reader tells one from another

\* Lines on the wire, each with its end.
Framed(lines) == FlattenSeq([k \in 1..Len(lines) |-> Append(lines[k], LF)])

\* send_line(), of several lines.
Send(lines) ==
  /\ sent' = sent \o lines
  /\ down' = down \o Framed(lines)

\* on_readable(), n bytes having come in: every whole line is handled.
OnReadable(n) ==
  LET bytes == read_buffer \o SubSeq(up, 1, n)
      lines == Scan(bytes).lines
      object == FoldLeft(handle_line,
                         [metric |-> subscribed_metric, updates |-> updates_sent, out |-> <<>>],
                         lines)
  IN  /\ up' = SubSeq(up, n + 1, Len(up))
      /\ read_buffer' = Rest(bytes)
      /\ handled' = handled \o lines
      /\ subscribed_metric' = object.metric
      /\ Send(object.out)
      /\ UNCHANGED <<updates_sent, reader, typed, published>>

\* publish(), which store::record() calls for every sample.
Publish(metric) ==
  /\ IF subscribed_metric = <<Word(metric)>>
     THEN /\ Send(<<Update(metric, Session, Stamp, published)>>)
          /\ updates_sent' = updates_sent + 1
     ELSE UNCHANGED <<sent, down, updates_sent>>
  /\ published' = published + 1
  /\ UNCHANGED <<subscribed_metric, read_buffer, handled, reader, up, typed>>

\* publish_excursion_alert() and publish_offline_alert(): sent in any case.
PublishAlert ==
  /\ \/ Send(<<ExcursionAlert(Session, Stamp, published)>>)
     \/ Send(<<OfflineAlert(Session, Stamp)>>)
  /\ published' = published + 1
  /\ UNCHANGED <<server, reader, up, typed>>

---------------------------------------------------------------------------
\* The far end.

\* A line is typed, or sent by a program: its end is LF or CR LF.
Type(line) ==
  /\ typed' = Append(typed, line)
  /\ \E end \in {<<LF>>, <<CR, LF>>} : up' = up \o line \o end
  /\ UNCHANGED <<server, reader, down, sent, published>>

\* Timestamps and values always fit their types.
IsNumber(token) == token[1] = "number"

\* try_parse_sample(): ">>" into a string takes any word.
IsSample(line) ==
  /\ Len(line) = 4
  /\ Unsigned(line[2], IdSpace) # {} /\ IsNumber(line[3]) /\ IsNumber(line[4])

\* Mutant: an OFFLINE is expected to carry a value as well.
IsAlertWithValue(line) ==
  /\ Len(line) = 5 /\ line[1] = Word("ALERT")
  /\ Unsigned(line[3], IdSpace) # {} /\ IsNumber(line[4])

\* try_parse_alert(): an EXCURSION has one number more than an OFFLINE.
IsAlert(line) ==
  /\ Len(line) >= 4 /\ line[1] = Word("ALERT")
  /\ Unsigned(line[3], IdSpace) # {} /\ IsNumber(line[4])
  /\ \/ line[2] = Word("EXCURSION") /\ Len(line) = 5 /\ IsNumber(line[5])
     \/ line[2] = Word("OFFLINE") /\ Len(line) = 4

\* process_lines(): the first word is the metric, the third a number.
IsMeasured(line) ==
  /\ Len(line) >= 3 /\ line[1] = Word(Watched)
  /\ IsNumber(line[3])

Count(lines, Is(_)) == Len(SelectSeq(lines, Is))

handle_incoming(lines) ==
  LET alerts == SelectSeq(lines, LAMBDA line : ~IsSample(line) /\ IsAlert(line))
      valid == Count(lines, IsSample)
  IN  /\ valid_count' = valid_count + valid
      /\ alert_count' = alert_count + Len(alerts)
      /\ malformed_count' = malformed_count + Len(lines) - valid - Len(alerts)

process_lines(lines) == count' = count + Count(lines, IsMeasured)

\* recv() of n bytes by the client, and by latency_subscriber.
Receive(n) ==
  LET bytes == buffer \o SubSeq(down, 1, n)
      lines == Scan(bytes).lines
  IN  /\ down' = SubSeq(down, n + 1, Len(down))
      /\ buffer' = Rest(bytes)
      /\ handle_incoming(lines)
      /\ process_lines(lines)
      /\ UNCHANGED <<server, up, typed, sent, published>>

---------------------------------------------------------------------------
Init ==
  /\ subscribed_metric = <<>> /\ updates_sent = 0
  /\ up = <<>> /\ read_buffer = <<>> /\ down = <<>> /\ buffer = <<>>
  /\ valid_count = 0 /\ alert_count = 0 /\ malformed_count = 0 /\ count = 0
  /\ typed = <<>> /\ handled = <<>> /\ sent = <<>> /\ published = 0

Next ==
  \/ \E line \in Commands : Len(typed) < MaxTyped /\ Type(line)
  \/ \E n \in 1..Len(up) : OnReadable(n)
  \/ \E metric \in MetricNames : published < MaxPublished /\ Publish(metric)
  \/ published < MaxPublished /\ PublishAlert
  \/ \E n \in 1..Len(down) : Receive(n)

Spec == Init /\ [][Next]_vars

---------------------------------------------------------------------------
\* Properties.

\* However recv() cuts the stream, inside a line, between CR and LF or across
\* several lines, the lines handled are the lines typed, once each and in
\* order, and none stays behind once everything has been received.
CommandsWhole ==
  /\ IsPrefix(handled, typed)
  /\ up = <<>> => handled = typed /\ read_buffer = <<>>

\* Lines the server sends, by sort.
IsUpdate(line) == line[1][2] \in MetricNames
IsAlertSent(line) == line[1] = Word("ALERT")

\* The client's counts are right for the lines it has read so far, whatever
\* commands and updates are mixed in the stream and however it is cut: a
\* sample is never counted as an alert, nor a reply as either; the benchmark
\* counts what the client counts of its metric.
FeedExact ==
  LET read == SubSeq(sent, 1, valid_count + alert_count + malformed_count)
  IN  /\ valid_count = Count(read, IsUpdate)
      /\ alert_count = Count(read, IsAlertSent)
      /\ count = Count(read, LAMBDA line : line[1] = Word(Watched))
      /\ down = <<>> => read = sent /\ buffer = <<>>

\* An ACK is answered once, for the session that was typed; a number of no
\* session, two numbers or none are passed over in silence.  A minus sign is
\* read modulo the range of the type.
AckExact ==
  LET answered == SelectSeq(sent, LAMBDA line : line[1] = Word("ACK_OK"))
      asked == SelectSeq(handled, LAMBDA line :
                 /\ Len(line) = 2 /\ line[1] = Word("ACK") /\ IsNumber(line[2])
                 /\ line[2][2] \in (1 - IdSpace)..(IdSpace - 1))
  IN  /\ Len(answered) = Len(asked)
      /\ \A i \in DOMAIN asked : (answered[i][2][2] - asked[i][2][2]) % IdSpace = 0
=============================================================================
