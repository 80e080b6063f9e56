------------------------------ MODULE Streams -------------------------------
(***************************************************************************)
(* bench/stream_benchmarks.cpp: strings and streams to and from numbers.    *)
(* All benchmarks share the static objects of the file; a timer finds in    *)
(* them what its making, its last call, and earlier benchmarks left.        *)
(*                                                                         *)
(* A text is abstracted to what it denotes, how it was formatted, and the   *)
(* length that follows from both; a number to what it was made as.          *)
(***************************************************************************)
EXTENDS Session

Number == {"smallint", "maxint", "maxint64", "smallfloat", "bigfloat", "smalldouble", "bigdouble"}
String == {"string4", "string64", "endl"}
Text == [of : Number \cup String, by : {"to_string", "ostream", "literal"}]
NoText == [of |-> "none", by |-> "literal"]

VARIABLES
  Str, StrSrc,  \* texts
  value,        \* Int32, Int64, Float and Double
  Iss,          \* its text, and whether that has been read to its end
  Oss           \* the size of its buffer, and the position

streamVars == <<Str, StrSrc, value, Iss, Oss>>
vars == <<sessionVars, streamVars>>

-----------------------------------------------------------------------------
(* The benchmarks in the order of their enumerators: what is converted, and *)
(* how the text of it is formatted.                                         *)

Ints == <<"smallint", "maxint", "maxint64">>
Reals == <<"smallfloat", "bigfloat", "smalldouble", "bigdouble">>
Rows(op, ofs, by) == [k \in DOMAIN ofs |-> [op |-> op, of |-> ofs[k], by |-> by]]

IStreams ==
  Rows("istream", <<"string4", "string64">>, "literal") \o Rows("istream", Ints, "to_string")
    \o Rows("istream", <<"smallfloat", "bigfloat">>, "ostream") \o Rows("istream", <<"smalldouble">>, "to_string")
    \o Rows("istream", <<"bigdouble">>, "ostream")
OStreams ==
  Rows("ostream", <<"string4", "string64">>, "literal") \o Rows("ostream", <<"string4", "string64">>, "literal")
    \o Rows("ostream", Ints \o Reals, "ostream") \o Rows("ostream", <<"endl">>, "literal")
StringFroms == Rows("string_from", Ints \o Reals, "to_string")
StringTos ==
  Rows("string_to", Ints, "to_string")
    \o [k \in 1 .. 8 |-> [op |-> "string_to", of |-> Reals[(k + 1) \div 2],
                          by |-> IF k % 2 = 1 THEN "ostream" ELSE "to_string"]]

Benchmarks == IStreams \o OStreams \o StringFroms \o StringTos
b == Benchmarks[current]

\* The variable that a number is kept in: Double is a float, too.
Variable == [smallint |-> "Int32", maxint |-> "Int32", maxint64 |-> "Int64", smallfloat |-> "Float",
             bigfloat |-> "Float", smalldouble |-> "Double", bigdouble |-> "Double"]

\* Characters of a text.  A float has six digits in a stream, six decimals in to_string().
Length(text) ==
  CASE text.of = "string4" -> 4
    [] text.of = "string64" -> 64
    [] text.of \in {"endl", "smallint"} -> 1
    [] text.of = "maxint" -> 10
    [] text.of = "maxint64" -> 19
    [] text.of \in {"smallfloat", "smalldouble"} -> IF text.by = "ostream" THEN 1 ELSE 8
    [] text.of = "bigfloat" -> IF text.by = "ostream" THEN 6 ELSE 13
    [] text.of = "bigdouble" -> IF text.by = "ostream" THEN 11 ELSE 45
    [] OTHER -> 0

-----------------------------------------------------------------------------
(* The timers are made                                                     *)

NewStreams ==
  /\ Str = NoText /\ StrSrc = NoText
  /\ value = [v \in {"Int32", "Int64", "Float", "Double"} |-> "zero"]
  /\ Iss = [text |-> NoText, read |-> FALSE]
  /\ Oss = [size |-> 0, pos |-> 0]

Init == current \in DOMAIN Benchmarks /\ Begins /\ NewStreams

Given == [of |-> b.of, by |-> b.by]
Assigned(of) == [value EXCEPT ![Variable[of]] = of]

\* The number is kept, and the text that the overhead copies.
MakeStringFrom ==
  /\ b.op = "string_from"
  /\ Goes("make", "ready")
  /\ value' = Assigned(b.of)
  /\ StrSrc' = Given
  /\ UNCHANGED <<Str, Iss, Oss>>

MakeStringTo ==
  /\ b.op = "string_to"
  /\ Goes("make", "ready")
  /\ Str' = Given
  /\ UNCHANGED <<StrSrc, value, Iss, Oss>>

\* Iss.str() starts anew; the state of the stream stays, and ResetISS() clears it.
MakeIStream ==
  /\ b.op = "istream"
  /\ Goes("make", "ready")
  /\ Iss' = [text |-> Given, read |-> FALSE]
  /\ StrSrc' = IF b.of \in String THEN Given ELSE StrSrc
  /\ UNCHANGED <<Str, value, Oss>>

\* MakeOSS(): a buffer of one character more than is going to be written.
MakeOStream ==
  /\ b.op = "ostream"
  /\ Goes("make", "ready")
  /\ Oss' = [size |-> Length(Given) + 1, pos |-> 0]
  /\ IF b.of \in Number
     THEN value' = Assigned(b.of) /\ UNCHANGED Str
     ELSE UNCHANGED value /\ Str' = IF b.of = "endl" THEN Str ELSE Given
  /\ UNCHANGED <<StrSrc, Iss>>

Make == MakeStringFrom \/ MakeStringTo \/ MakeIStream \/ MakeOStream

-----------------------------------------------------------------------------
(* The primary timers: an iteration is noted as the text that is converted. *)

Call == Calls(timer) /\ UNCHANGED streamVars

StrFrom ==
  /\ b.op = "string_from"
  /\ LET text == [of |-> value[Variable[b.of]], by |-> "to_string"]
     IN Iterates("primary", <<text>>, "call") /\ Str' = text
  /\ UNCHANGED <<StrSrc, value, Iss, Oss>>

\* stoi(), stol(), stof() and stod() throw at what is no number, or too large.
Converts(text) ==
  /\ text.of \in Number \cup {"string4"}
  /\ Variable[b.of] = "Int32" => text.of \notin {"maxint64", "bigdouble"}
  /\ Variable[b.of] = "Int64" => text.of # "bigdouble"

StrTo ==
  /\ b.op = "string_to"
  /\ Iterates("primary", <<Str>>, IF Converts(Str) THEN "call" ELSE "fault")
  /\ value' = IF Converts(Str) THEN [value EXCEPT ![Variable[b.of]] = Str.of] ELSE value
  /\ UNCHANGED <<Str, StrSrc, Iss, Oss>>

\* ResetISS() and an extraction, which gets nothing at the end of the text; a
\* number or word is read up to there.
ClearOnly == Iss.read  \* variant: clear() without seekg()
StillAtEnd == FALSE

Read ==
  /\ b.op = "istream"
  /\ Iterates("primary", IF StillAtEnd THEN <<NoText>> ELSE <<Iss.text>>, "call")
  /\ Iss' = [Iss EXCEPT !.read = TRUE]
  /\ IF b.of \in String
     THEN Str' = (IF StillAtEnd THEN Str ELSE Iss.text) /\ UNCHANGED value
     ELSE value' = (IF StillAtEnd THEN value ELSE Assigned(Iss.text.of)) /\ UNCHANGED Str
  /\ UNCHANGED <<StrSrc, Oss>>

\* ResetOSS() and an insertion: the buffer grows if it does not suffice.
Appending == Oss.pos  \* variant: without seekp()
Position == 0

Write ==
  /\ b.op = "ostream"
  /\ LET text == CASE b.of \in Number -> [of |-> value[Variable[b.of]], by |-> "ostream"]
                   [] b.of = "endl" -> Given
                   [] OTHER -> Str
         end == Position + Length(text)
     IN /\ Iterates("primary", <<text>>, "call")
        /\ Oss' = [size |-> IF end > Oss.size THEN end ELSE Oss.size, pos |-> end]
  /\ UNCHANGED <<Str, StrSrc, value, Iss>>

-----------------------------------------------------------------------------
(* The timers of overhead                                                  *)

CopiesString == b.op = "string_from" \/ (b.op = "istream" /\ b.of \in String)

\* CopyStr(), ReadStrOverhead(), ResetISS(), ResetOSS() and Overhead_void().
Overhead ==
  /\ Iterates("overhead", IF CopiesString THEN <<StrSrc>> ELSE <<NoText>>, "call")
  /\ Str' = IF CopiesString THEN StrSrc ELSE Str
  /\ Iss' = IF b.op = "istream" THEN [Iss EXCEPT !.read = FALSE] ELSE Iss
  /\ Oss' = IF b.op = "ostream" THEN [Oss EXCEPT !.pos = 0] ELSE Oss
  /\ UNCHANGED <<StrSrc, value>>

-----------------------------------------------------------------------------

Continue ==
  /\ Returns \/ TimesOverhead(TRUE) \/ TakesNext(TRUE, current + 1 .. Len(Benchmarks))
  /\ UNCHANGED streamVars

Next == Make \/ Call \/ StrFrom \/ StrTo \/ Read \/ Write \/ Overhead \/ Continue

Spec == Init /\ [][Next]_vars

-----------------------------------------------------------------------------

TypeOK ==
  /\ current \in DOMAIN Benchmarks
  /\ {Str, StrSrc, Iss.text} \subseteq Text \cup {NoText}
  /\ value \in [{"Int32", "Int64", "Float", "Double"} -> Number \cup {"string4", "zero"}]
  /\ Iss.read \in BOOLEAN
  /\ Oss \in [size : 0 .. 200, pos : 0 .. 200]

(***************************************************************************)
(* Whatever an earlier benchmark or call left in the static objects, the    *)
(* value that the name says is converted, in the format that was chosen for *)
(* it; what an iteration produces is that value again; the buffer written   *)
(* to does not grow, which the measurement would include; and the overhead  *)
(* of a string is that of a copy of the same string.                        *)
(***************************************************************************)
MeasuresAsNamed ==
  measured # <<>> =>
    /\ timer = "primary" \/ CopiesString => measured = <<Given>>
    /\ b.op = "string_from" => Str = Given
    /\ b.op \in {"string_to", "istream"} /\ b.of \in Number /\ timer = "primary" => value[Variable[b.of]] = b.of
    /\ b.op = "istream" /\ b.of \in String => Str = Given
    /\ b.op = "ostream" => Oss.size = Length(Given) + 1

\* No conversion throws: the string is what it was made as.
NeverThrows == pc # "fault"
=============================================================================
