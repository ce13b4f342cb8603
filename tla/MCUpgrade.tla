----------------------------- MODULE MCUpgrade ------------------------------
(* First messages for TLC: each message of the protocol, and one step away. *)
EXTENDS Upgrade, TLC

Version(value) == Field("version", value)
Type(type) == Field("type", String(type))
V1 == Version(Number(1))
Num(key, n) == Field(key, Number(n))
Pointed(n) == [Number(n) EXCEPT !.written = "point"]
Fraction == [Number(1) EXCEPT !.written = "fraction"]
Other == [is |-> "null"]

Ticket == <<Field("ticket", String("token"))>>
Resize == <<V1, Type("resize"), Num("cols", 80), Num("rows", 24)>>
Close == <<V1, Type("close")>>
ServerClose == Append(Close, Field("reason", String("policy")))
Error(code, message) == <<V1, Type("error"), Field("code", code), Field("message", message)>>
Status(fields) == <<V1, Type("exit-status"), Field("status", Object(fields))>>
Kind(kind) == Field("kind", String(kind))

Words == {String("word"), [String("word") EXCEPT !.len = 0], [String("word") EXCEPT !.len = 64],
          [String("word") EXCEPT !.len = 65], [String("word") EXCEPT !.len = 257],
          [String("word") EXCEPT !.first = "digit"], [String("word") EXCEPT !.last = "hyphen"],
          [String("word") EXCEPT !.hyphens = 2], [String("word") EXCEPT !.chars = {"upper", "lower"}],
          [String("word") EXCEPT !.chars = {"lower", "control"}],
          [String("word") EXCEPT !.chars = {"lower", "surrogate"}], Number(1)}

StatusNumbers == {Number(n) : n \in {-1, 0, 1, 127, 128, 255, 256}} \cup {Pointed(1), Fraction, Other}

Bodies ==
    {Ticket, Resize, Close, ServerClose, <<>>,
     Ticket \o Ticket, Ticket \o Close, <<Field("ticket", Number(1))>>,
     <<Field("ticket", [String("token") EXCEPT !.len = 0])>>}
    \cup {[Resize EXCEPT ![i].value = value] : i \in {3, 4},
             value \in {Number(0), Number(4096), Number(4097), Pointed(80), Fraction, Other}}
    \cup {[Close EXCEPT ![1].value = value] :
             value \in {Number(-1), Number(0), Number(2), Pointed(1), Fraction, String("1")}}
    \cup {[ServerClose EXCEPT ![1].value = value] : value \in {Number(-1), Number(2), Pointed(1), Fraction}}
    \cup {[Close EXCEPT ![2].value = value] : value \in {String("open"), Other}}
    \cup {Append(Close, Close[2]), Append(ServerClose, ServerClose[3]), Append(Resize, V1),
          Append(ServerClose, Field("code", String("word"))), Tail(Close), <<V1>>,
          Append(Close, Field("reason", String("bored"))), Append(Close, Field("reason", Other))}
    \cup {Error(code, String("word")) : code \in Words} \cup {Error(String("word"), text) : text \in Words}
    \cup {Status(<<Kind(kind), Field(kind, n)>>) : kind \in {"code", "signal"}, n \in StatusNumbers}
    \cup {Status(<<Kind("unavailable")>>), Status(<<Kind("other")>>), Status(<<>>),
          Status(<<Kind("code")>>), Status(<<Kind("code"), Num("code", 1), Num("code", 2)>>),
          Status(<<Kind("unavailable"), Num("code", 1)>>)}

MCTexts ==
    {Text(Object(body)) : body \in Bodies}
    \cup {[Text(Object(body)) EXCEPT !.bytes = bytes] :
             body \in {Ticket, Close, ServerClose}, bytes \in {0, 256, 257, 4096, 4097}}
    \cup {[Text(Object(body)) EXCEPT !.whole = FALSE] :
             body \in {Ticket, Close, ServerClose, Append(ServerClose, ServerClose[3])}}
    \cup {Text(Other), Text(String("text"))}
MCSizes == {0, 1, 80, 4096, 4097}
=============================================================================
