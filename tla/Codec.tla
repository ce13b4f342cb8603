------------------------------- MODULE Codec --------------------------------
(***************************************************************************)
(* The texts that cross the WebSocket, as the daemon reads and writes them *)
(* (protocol.rs; parse_handshake in websocket.rs) and as the page does     *)
(* (frontend/src/protocol.ts).  The two codecs are separate programs with  *)
(* the same schema.                                                        *)
(*                                                                         *)
(* A text is [bytes, unicode, whole, value]: its size, whether it is       *)
(* well-formed Unicode, whether it ends where the JSON value does, and     *)
(* that value.  A string is known by its text and by what the codecs test  *)
(* of it: its length, its first and last character, the kinds of its       *)
(* characters and its longest run of hyphens.  An object is the sequence   *)
(* of its fields as written, so that a key may occur twice; objects nest   *)
(* one deep.                                                               *)
(***************************************************************************)
EXTENDS Integers, Sequences

PROTOCOL_VERSION == 1
MAX_CONTROL_BYTES == 4096
MAX_DIMENSION == 4096
HANDSHAKE_MAX_BYTES == 256

-----------------------------------------------------------------------------
(* JSON values and results.                                                 *)

\* A number as it is written: "integer" digits, a "point" or exponent that leaves
\* an integer (1.0), or a "fraction".
Number(n) == [is |-> "number", value |-> n, written |-> "integer"]
String(text) == [is |-> "string", text |-> text, len |-> 8, first |-> "lower", last |-> "lower",
                 chars |-> {"lower", "hyphen"}, hyphens |-> 1]
Field(key, value) == [key |-> key, value |-> value]
Object(fields) == [is |-> "object", fields |-> fields]
Text(value) == [bytes |-> 80, unicode |-> TRUE, whole |-> TRUE, value |-> value]

Keys(object) == {object.fields[i].key : i \in DOMAIN object.fields}
Get(object, key) == LET i == CHOOSE j \in DOMAIN object.fields : object.fields[j].key = key
                    IN  object.fields[i].value

Ok(value) == [ok |-> TRUE, value |-> value]
Err(code) == [ok |-> FALSE, code |-> code]

\* The ? operator, and its throw in the page.
AndThen(result, Then(_)) == IF result.ok THEN Then(result.value) ELSE result
Require(holds, code, then) == IF holds THEN then ELSE Err(code)

Twice(object) ==
    \E i, j \in DOMAIN object.fields : i < j /\ object.fields[i].key = object.fields[j].key

Inside(value) ==
    IF value.is = "object" THEN {value.fields[i].value : i \in DOMAIN value.fields} ELSE {}
Values(value) == {value} \cup Inside(value) \cup UNION {Inside(inner) : inner \in Inside(value)}

\* DuplicateVisitor: some object in the value has a key twice.
DuplicateDetector(value) == \E inner \in Values(value) : inner.is = "object" /\ Twice(inner)

\* Some string in the value escapes a lone surrogate, which serde_json does not read.
Surrogates(value) ==
    \E inner \in Values(value) : inner.is = "string" /\ "surrogate" \in inner.chars

-----------------------------------------------------------------------------
(* protocol.rs.                                                             *)

as_u64(value) == value.is = "number" /\ value.written = "integer" /\ value.value >= 0

\* Mutant: a key that occurs twice has its first value.
FirstValueWins(text) ==
    Require(text.bytes <= MAX_CONTROL_BYTES, "control-too-large",
    Require(text.unicode, "malformed-text",
    Require(~ Surrogates(text.value), "invalid-field",
    Require(text.whole, "malformed-control",
    Require(text.value.is = "object", "invalid-control", Ok(text.value))))))

parse_control(text) ==
    Require(text.bytes <= MAX_CONTROL_BYTES, "control-too-large",
    Require(text.unicode, "malformed-text",
    Require(~ DuplicateDetector(text.value), "duplicate-field",
    Require(~ Surrogates(text.value), "invalid-field",
    Require(text.whole, "malformed-control",
    Require(text.value.is = "object", "invalid-control", Ok(text.value)))))))

string_field(object, key) ==
    Require(key \in Keys(object), "missing-field",
    Require(Get(object, key).is = "string", "invalid-field", Ok(Get(object, key))))

header(object) ==
    Require("version" \in Keys(object), "missing-field",
    Require(as_u64(Get(object, "version")), "invalid-field",
    Require(Get(object, "version").value = PROTOCOL_VERSION, "unsupported-version",
            string_field(object, "type"))))

exact_keys(object, expected, then) ==
    Require(expected \subseteq Keys(object), "missing-field",
    Require(Keys(object) \subseteq expected, "unknown-field", then))

dimension(value) == as_u64(value) /\ value.value \in 1 .. MAX_DIMENSION

decode_client_control(text) ==
    AndThen(parse_control(text), LAMBDA object : AndThen(header(object), LAMBDA type :
        CASE type.text = "resize" ->
                exact_keys(object, {"version", "type", "cols", "rows"},
                Require(dimension(Get(object, "cols")) /\ dimension(Get(object, "rows")),
                        "invalid-field",
                        Ok([type |-> "resize", cols |-> Get(object, "cols").value,
                            rows |-> Get(object, "rows").value])))
          [] type.text = "close" ->
                Require("reason" \notin Keys(object), "invalid-direction",
                exact_keys(object, {"version", "type"}, Ok([type |-> "close"])))
          [] type.text \in {"exit-status", "error"} -> Err("invalid-direction")
          [] OTHER -> Err("unknown-message-type")))

\* ExitStatus: the numbers each kind of status allows.
StatusRange(kind) == IF kind = "code" THEN 0 .. 255 ELSE 1 .. 127

parse_exit_status(value) ==
    Require(value.is = "object", "invalid-field",
    AndThen(string_field(value, "kind"), LAMBDA kind :
        CASE kind.text \in {"code", "signal"} ->
                exact_keys(value, {"kind", kind.text},
                Require(/\ as_u64(Get(value, kind.text))
                        /\ Get(value, kind.text).value \in StatusRange(kind.text),
                        "invalid-field",
                        Ok([kind |-> kind.text, number |-> Get(value, kind.text).value])))
          [] kind.text = "unavailable" ->
                exact_keys(value, {"kind"}, Ok([kind |-> "unavailable", number |-> 0]))
          [] OTHER -> Err("invalid-field")))

CloseReasons == {"client-request", "exited", "timeout", "policy", "protocol-error",
                 "transport-error", "internal-error"}

valid_error_code(code) ==
    /\ code.len \in 1 .. 64
    /\ code.first = "lower" /\ code.last # "hyphen"
    /\ code.chars \subseteq {"lower", "digit", "hyphen"} /\ code.hyphens <= 1

valid_error_message(message) == message.len \in 1 .. 256 /\ "control" \notin message.chars

ErrorMessage(code, message) ==
    Require(valid_error_code(code) /\ valid_error_message(message), "invalid-field",
            Ok([type |-> "error", code |-> code, message |-> message]))

decode_server_control(text) ==
    AndThen(parse_control(text), LAMBDA object : AndThen(header(object), LAMBDA type :
        CASE type.text = "exit-status" ->
                exact_keys(object, {"version", "type", "status"},
                AndThen(parse_exit_status(Get(object, "status")), LAMBDA status :
                        Ok([type |-> "exit-status", status |-> status])))
          [] type.text = "error" ->
                exact_keys(object, {"version", "type", "code", "message"},
                AndThen(string_field(object, "code"), LAMBDA code :
                AndThen(string_field(object, "message"), LAMBDA message :
                        ErrorMessage(code, message))))
          [] type.text = "close" ->
                Require(Keys(object) # {"version", "type"}, "invalid-direction",
                exact_keys(object, {"version", "type", "reason"},
                AndThen(string_field(object, "reason"), LAMBDA reason :
                Require(reason.text \in CloseReasons, "invalid-field",
                        Ok([type |-> "close", reason |-> reason.text])))))
          [] type.text = "resize" -> Err("invalid-direction")
          [] OTHER -> Err("unknown-message-type")))

Control(type, fields) ==
    Text(Object(<<Field("version", Number(PROTOCOL_VERSION)), Field("type", String(type))>> \o fields))

\* serialize, with a message of up to four bytes a character.
encode_server_control(control) ==
    CASE control.type = "exit-status" ->
            LET kind == control.status.kind
                number == IF kind = "unavailable" THEN <<>>
                          ELSE <<Field(kind, Number(control.status.number))>>
            IN  Require(kind = "signal" => control.status.number \in StatusRange(kind),
                        "invalid-field",
                        Ok(Control("exit-status",
                                   <<Field("status", Object(<<Field("kind", String(kind))>> \o number))>>)))
      [] control.type = "error" ->
            AndThen(ErrorMessage(control.code, control.message), LAMBDA error :
                LET text == Control("error", <<Field("code", error.code),
                                               Field("message", error.message)>>)
                    bytes == text.bytes + error.code.len + 4 * error.message.len
                IN  Require(bytes <= MAX_CONTROL_BYTES, "control-too-large",
                            Ok([text EXCEPT !.bytes = bytes])))
      [] control.type = "close" ->
            Ok(Control("close", <<Field("reason", String(control.reason))>>))

\* parse_handshake: a closed object with one string, which serde refuses twice.
parse_handshake(text) ==
    Require(text.bytes > 0, "Empty",
    Require(text.bytes <= HANDSHAKE_MAX_BYTES, "TooLarge",
    Require(/\ text.whole /\ text.value.is = "object"
            /\ ~ Surrogates(text.value)
            /\ Keys(text.value) = {"ticket"} /\ ~ Twice(text.value)
            /\ Get(text.value, "ticket").is = "string" /\ Get(text.value, "ticket").len > 0,
            "Malformed", Ok(Get(text.value, "ticket")))))

-----------------------------------------------------------------------------
(* protocol.ts.  JSON.parse forgets how a number was written and lets lone  *)
(* surrogates pass.                                                         *)

isInteger(value) == value.is = "number" /\ value.written # "fraction"

parseControl(text) ==
    Require(text.bytes <= MAX_CONTROL_BYTES, "control-too-large",
    Require(text.unicode, "malformed-control",
    Require(~ DuplicateDetector(text.value), "duplicate-field",
    Require(text.whole, "malformed-control",
    Require(text.value.is = "object", "invalid-control", Ok(text.value))))))

Header(object) ==
    Require("version" \in Keys(object), "missing-field",
    Require(isInteger(Get(object, "version")), "invalid-field",
    Require(Get(object, "version").value = PROTOCOL_VERSION, "unsupported-version",
            string_field(object, "type"))))

parseExitStatus(value) ==
    Require(value.is = "object", "invalid-field",
    AndThen(string_field(value, "kind"), LAMBDA kind :
        CASE kind.text \in {"code", "signal"} ->
                exact_keys(value, {"kind", kind.text},
                Require(/\ isInteger(Get(value, kind.text))
                        /\ Get(value, kind.text).value \in StatusRange(kind.text),
                        "invalid-field",
                        Ok([kind |-> kind.text, number |-> Get(value, kind.text).value])))
          [] kind.text = "unavailable" ->
                exact_keys(value, {"kind"}, Ok([kind |-> "unavailable", number |-> 0]))
          [] OTHER -> Err("invalid-field")))

validateError(code, message) ==
    /\ code.first = "lower" /\ code.chars \subseteq {"lower", "digit", "hyphen"}
    /\ code.last # "hyphen" /\ code.hyphens <= 1 /\ code.len \in 1 .. 64
    /\ message.len \in 1 .. 256 /\ message.chars \cap {"control", "surrogate"} = {}

decodeServerControl(text) ==
    AndThen(parseControl(text), LAMBDA object : AndThen(Header(object), LAMBDA type :
        CASE type.text = "exit-status" ->
                exact_keys(object, {"version", "type", "status"},
                AndThen(parseExitStatus(Get(object, "status")), LAMBDA status :
                        Ok([type |-> "exit-status", status |-> status])))
          [] type.text = "error" ->
                exact_keys(object, {"version", "type", "code", "message"},
                AndThen(string_field(object, "code"), LAMBDA code :
                AndThen(string_field(object, "message"), LAMBDA message :
                Require(validateError(code, message), "invalid-field",
                        Ok([type |-> "error", code |-> code, message |-> message])))))
          [] type.text = "close" ->
                Require(Len(object.fields) # 2, "invalid-direction",
                exact_keys(object, {"version", "type", "reason"},
                AndThen(string_field(object, "reason"), LAMBDA reason :
                Require(reason.text \in CloseReasons, "invalid-field",
                        Ok([type |-> "close", reason |-> reason.text])))))
          [] type.text = "resize" -> Err("invalid-direction")
          [] OTHER -> Err("unknown-message-type")))

encodeClientControl(control) ==
    IF control.type = "close" THEN Ok(Control("close", <<>>))
    ELSE Require({control.cols, control.rows} \subseteq 1 .. MAX_DIMENSION, "invalid-field",
                 Ok(Control("resize", <<Field("cols", Number(control.cols)),
                                        Field("rows", Number(control.rows))>>)))
=============================================================================
