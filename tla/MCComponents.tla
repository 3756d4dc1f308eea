---------------------------- MODULE MCComponents ----------------------------
(* Model checking of Components *)
EXTENDS Components

Text(s) == [string |-> [plain |-> s]]

MCDuration == {-5, 1, 6, 11, 80}

Encoding(v) == Struct(Member("Encoding", v))

MCConfigValue ==
  {EmptyValue, Encoding([int32 |-> 0])} \union {Encoding(Text(s)) : s \in {"None", "Base64", "gzip"}}

Array(t, s) == [array |-> [of |-> t, elements |-> s]]

MCArgument ==
  [kind : {"bool"}, value : BOOLEAN]
  \union [kind : {"string"}, value : {[plain |-> "text"], [plain |-> "f"], [json |-> "bool"]}]
  \union [kind : {"string_list"}, value : {<< >>, << "text" >>}]
  \union [kind : {"anyvalue"},
          value : {EmptyValue, Text("text"), [bool |-> TRUE], [int32 |-> 5], [int32 |-> 300],
                   Struct(Member("a", Text("text"))), Struct(Member("b", Text("text"))),
                   Array("string", << "text" >>), Array("bool", << TRUE >>)}]
  \union [kind : {"anytype"}, value : {"bool"}]

MCTarget ==
  {EmptyValue, Text("old"), [bool |-> FALSE], [int64 |-> 0], [uint8 |-> 0],
   Struct(Member("a", Text("old")))}

Converts(v, w, u) == [into |-> v, from |-> w, to |-> u]

\* An integer converts to another type that has its value, a structure to one with the same
\* fields, a text to a text and a boolean to a boolean.
MCConversion ==
  {Converts([int64 |-> 0], [int32 |-> i], [int64 |-> i]) : i \in {5, 300}}
  \union {Converts([uint8 |-> 0], [int32 |-> 5], [uint8 |-> 5])}
  \union {Converts(Text("old"), t, t) : t \in {Text("text"), Text("f"), [string |-> [json |-> "bool"]]}}
  \union {Converts([bool |-> FALSE], [bool |-> b], [bool |-> b]) : b \in BOOLEAN}
  \union {LET s == Struct(Member("a", Text("text")))
          IN  Converts(Struct(Member("a", Text("old"))), s, s)}

MCValue == {Text("text"), Struct(Member("value", Text("base64")))}

\* Not a structure, and structures without an encoding, with another one, with a text
\* that is not base64, and with a value that is no text.
MCRawValue ==
  {Text("text"),
   Struct(Member("value", Encode(Text("text"), kBase64)))}
  \union {Struct(With(Member("encoding", Text(p[1])), Member("value", p[2]))) :
            p \in {<<"other", Encode(Text("text"), kBase64)>>, <<"base64", Text("text")>>,
                   <<"base64", [int32 |-> 1]>>}}

MCAppResult == {Success, GENERIC_APPLICATION_ERROR_START}

=============================================================================
