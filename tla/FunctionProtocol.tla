-------------------------- MODULE FunctionProtocol --------------------------
(***************************************************************************)
(* The function protocol: a structure names a function and carries its     *)
(* arguments.  The caller makes it with FunctionProtocolInput and          *)
(* FunctionProtocolPack (base/function_protocol_pack.cpp), the callee is   *)
(* found with CallFunctionProtocol (function_protocol.h) and takes the     *)
(* arguments with FunctionProtocolExtract                                  *)
(* (base/function_protocol_extract.cpp), which may be of another type than *)
(* what was packed.  AnyValues are those of RPCPackets; in addition        *)
(* [array |-> [of |-> t, elements |-> s]] is an array with elements of     *)
(* type t.  A text is a record: [plain |-> s], or [json |-> t] for the one *)
(* that describes type t.                                                  *)
(*                                                                         *)
(* An operator named Bug_X is X with a plausible mistake in it; it is not  *)
(* part of the model and serves to show that the properties notice it.     *)
(***************************************************************************)
EXTENDS RPCPackets

CONSTANTS
  Name,        \* names of fields
  Argument,    \* what callers pack: records with a kind and a value
  Target,      \* AnyValues that a callee may extract into
  Conversion,  \* the conversions of sup-dto, see TryAssign
  Function     \* the functions of the callee

VARIABLES
  output,     \* the structure under construction
  threw,      \* whether the last FunctionProtocolPack threw
  packed,     \* history: the arguments packed, by name
  pc,         \* "caller", "callee" or "end"
  called,     \* the function that CallFunctionProtocol called, or "not_found"
  asked,      \* what FunctionProtocolExtract was called with: name, kind and variable
  found, val  \* what it returned, and the variable it writes to

vars == <<output, threw, packed, pc, called, asked, found, val>>

Text(s) == [string |-> [plain |-> s]]

Kind == {"bool", "string", "string_list", "anyvalue", "anytype"}

\* The field that a value of a kind becomes.
Field(a) ==
  CASE a.kind = "bool" -> [bool |-> a.value]
    [] a.kind = "string" -> [string |-> a.value]
    [] a.kind = "string_list" -> [array |-> [of |-> "string", elements |-> a.value]]
    [] a.kind = "anyvalue" -> a.value
    [] a.kind = "anytype" -> [string |-> [json |-> a.value]]

\* An AnyValue has one type; an array consists of the type of its elements and of these,
\* and the text that describes a type of nothing else.
IsAnyValue(v) ==
  /\ \E t \in DOMAIN v : v = [n \in {t} |-> v[t]]
  /\ Is(v, "array") => v.array = [of |-> v.array.of, elements |-> v.array.elements]
  /\ Is(v, "string") /\ "json" \in DOMAIN v.string => v.string = [json |-> v.string.json]

\* Assumed: callers pack C++ values, which become AnyValues.
ArgumentAssumption ==
  \A a \in Argument : a = [kind |-> a.kind, value |-> a.value] /\ a.kind \in Kind /\ IsAnyValue(Field(a))

\* A variable that the callee has not assigned yet.
Unset == [kind |-> "none", value |-> EmptyValue]

FunctionProtocolInput(f) == Struct(Member("function", Text(f)))

\* The caller starts with nothing, with a value that is no structure, or with a call.
Init ==
  /\ output \in {EmptyValue, Text("output")}
             \union {FunctionProtocolInput(f) : f \in Function \union {"other"}}
  /\ threw = FALSE
  /\ packed = << >>
  /\ pc = "caller"
  /\ called = "none"
  /\ asked = [name |-> "none", kind |-> "none", into |-> EmptyValue]
  /\ found = FALSE
  /\ val = Unset

-----------------------------------------------------------------------------
(* The caller *)

\* Overwrites a field that is there already.
Bug_Prepares(o, n) == Is(o, "empty") \/ Is(o, "struct")

\* FunctionProtocolPrepareOutput does not throw.
Prepares(o, n) == Is(o, "empty") \/ (Is(o, "struct") /\ ~Has(o.struct, n))

Members(o) == IF Is(o, "struct") THEN o.struct ELSE << >>

FunctionProtocolPack(n, a) ==
  /\ pc = "caller"
  /\ IF (a.kind = "anyvalue" /\ a.value = EmptyValue) \/ ~Prepares(output, n)
       THEN threw' = TRUE /\ UNCHANGED <<output, packed>>
       ELSE /\ threw' = FALSE
            /\ output' = Struct(With(Member(n, Field(a)), Members(output)))
            /\ packed' = With(Member(n, a), packed)
  /\ UNCHANGED <<pc, called, asked, found, val>>

-----------------------------------------------------------------------------
(* The callee *)

\* CallFunctionProtocol, with the structure as its input.
CallFunctionProtocol ==
  /\ pc = "caller"
  /\ IF HasMember(output, "function", "string") /\ \E f \in Function : output.struct["function"] = Text(f)
       THEN called' = output.struct["function"].string.plain /\ pc' = "callee"
       ELSE called' = "not_found" /\ pc' = "end"
  /\ UNCHANGED <<output, threw, packed, asked, found, val>>

\* Accepts an array of anything.
Bug_Validate(k, f) ==
  CASE k = "bool" -> Is(f, "bool")
    [] k = "string" -> Is(f, "string")
    [] k = "string_list" -> Is(f, "array")
    [] k = "anyvalue" -> TRUE
    [] k = "anytype" -> Is(f, "string") /\ "json" \in DOMAIN f.string

\* Compares whole array types, and the number of elements with them.
Bug_ValidateExactly(k, f) ==
  CASE k = "bool" -> Is(f, "bool")
    [] k = "string" -> Is(f, "string")
    [] k = "string_list" -> Is(f, "array") /\ f.array.of = "string" /\ f.array.elements = << >>
    [] k = "anyvalue" -> TRUE
    [] k = "anytype" -> Is(f, "string") /\ "json" \in DOMAIN f.string

\* Whether field f may be extracted as kind k (ValidateFunctionProtocolInput, and the
\* parser that reads a type).
Validate(k, f) ==
  CASE k = "bool" -> Is(f, "bool")
    [] k = "string" -> Is(f, "string")
    [] k = "string_list" -> Is(f, "array") /\ f.array.of = "string"
    [] k = "anyvalue" -> TRUE
    [] k = "anytype" -> Is(f, "string") /\ "json" \in DOMAIN f.string

\* The value of kind k that field f stands for.
Extracted(k, f) ==
  CASE k = "bool" -> f.bool
    [] k = "string" -> f.string
    [] k = "string_list" -> f.array.elements
    [] k = "anyvalue" -> f
    [] k = "anytype" -> f.string.json

\* What extraction of field n as kind k may write to a variable that holds v.
Extractions(n, k, v) ==
  IF ~Has(Members(output), n) \/ ~Validate(k, output.struct[n]) THEN {}
  ELSE IF k = "anyvalue" THEN TryAssign(Conversion, v, output.struct[n])
  ELSE {Extracted(k, output.struct[n])}

\* The callee extracts field n into a variable of kind k, which holds v before.
FunctionProtocolExtract(n, k, v) ==
  /\ pc = "callee"
  /\ pc' = "end"
  /\ asked' = [name |-> n, kind |-> k, into |-> v]
  /\ \/ /\ Extractions(n, k, v) = {}
        /\ found' = FALSE /\ val' = Unset
     \/ \E x \in Extractions(n, k, v) :
          found' = TRUE /\ val' = [kind |-> k, value |-> x]
  /\ UNCHANGED <<output, threw, packed, called>>

-----------------------------------------------------------------------------

Next ==
  \/ \E n \in Name, a \in Argument : FunctionProtocolPack(n, a)
  \/ CallFunctionProtocol
  \/ \E n \in Name, k \in Kind, v \in Target : FunctionProtocolExtract(n, k, v)

Spec == Init /\ [][Next]_vars

-----------------------------------------------------------------------------
(* Properties *)

\* The first argument packed under a name, however many packs threw before or after,
\* is the one that the callee extracts, if it asks for the same kind with a variable
\* that is empty (FunctionProtocolPack, FunctionProtocolExtract).
PackedIsExtracted ==
  (/\ pc = "end" /\ asked.name \in DOMAIN packed
   /\ asked.kind = packed[asked.name].kind /\ asked.into = EmptyValue)
    => found /\ val = packed[asked.name]

\* What the callee extracts is the field: packing it again as the same kind gives the
\* same field, so that no value is taken for one of another type
\* (ValidateFunctionProtocolInput).  An AnyValue that has a type of its own keeps the
\* type, and holds what the library made of the field.
ExtractedIsField ==
  found =>
    /\ asked.name \in DOMAIN output.struct
    /\ ~(asked.kind = "anyvalue" /\ asked.into # EmptyValue) =>
         Field(val) = output.struct[asked.name]

KeepsFields ==
  \A n \in DOMAIN Members(output) :
    n \in DOMAIN Members(output') /\ Members(output')[n] = Members(output)[n]

\* No pack, whether it throws or not, changes or drops a field that is there: neither
\* an earlier argument nor the name of the function (FunctionProtocolPrepareOutput).
FieldsAreKept == [][KeepsFields]_vars

=============================================================================
