------------------------------ MODULE JsonValue ------------------------------
(***************************************************************************)
(* oep::repository::json (platform/repository/json_value.cpp): how every   *)
(* file of a repository is written and read back.                          *)
(*                                                                         *)
(* A text is a sequence of characters from a small alphabet; null stands   *)
(* for the literals, "n" is also the letter of an escape, "1" the digits   *)
(* (hexadecimal ones too).  The parser is recursive descent: an operator   *)
(* takes a text and a position and gives the value and the position after  *)
(* it.  Numbers are only ever read: no file of Foundation holds one.       *)
(*                                                                         *)
(* The stores take a file that was written short for one that cannot be    *)
(* read (Torn in Stores): here that is a property.                         *)
(***************************************************************************)
EXTENDS Integers, Sequences, SequencesExt, FiniteSets

CONSTANTS
    Alphabet,   \* the characters of an arbitrary file
    Letters,    \* the characters of the strings that are written
    MaxText,    \* the length of an arbitrary file
    MaxString,  \* the length of a string that is written
    HexDigits   \* the digits of a \u escape

VARIABLES
    pc,         \* what became of the file: "written", "cut", "edited"
    source,     \* the value that was written
    text        \* what the file holds

vars == <<pc, source, text>>

\* A value is a record with one field, named after its type.
Null == [null |-> <<>>]
Fail == [ok |-> FALSE, at |-> 0, value |-> Null]
Success(p, v) == [ok |-> TRUE, at |-> p, value |-> v]

-----------------------------------------------------------------------------
(* Serializing. *)

Whitespace == {" ", "\n"}
Escapes == {"\"", "\\", "n"}
Meaning(e) == IF e = "n" THEN "\n" ELSE e

\* write_escaped_string
Escaped(c) ==
    CASE c \in {"\"", "\\"} -> <<"\\", c>>
      [] c = "\n" -> <<"\\", "n">>
      [] OTHER -> <<c>>

Quoted(s) == <<"\"">> \o FlattenSeq([i \in DOMAIN s |-> Escaped(s[i])]) \o <<"\"">>

\* An empty array or object is written on one line, the items of others one per line.
Lines(opening, items, closing) ==
    IF items = <<>> THEN <<opening, closing>>
    ELSE <<opening, "\n">> \o
         FlattenSeq([i \in DOMAIN items |->
            <<" ">> \o items[i] \o (IF i < Len(items) THEN <<",", "\n">> ELSE <<"\n">>)])
         \o <<closing>>

RECURSIVE Written(_)
Written(v) ==
    CASE "null" \in DOMAIN v -> <<"n", "l">>
      [] "string" \in DOMAIN v -> Quoted(v.string)
      [] "array" \in DOMAIN v -> Lines("[", [i \in DOMAIN v.array |-> Written(v.array[i])], "]")
      [] "object" \in DOMAIN v ->
            Lines("{", [i \in DOMAIN v.object |->
                Quoted(v.object[i].key) \o <<":", " ">> \o Written(v.object[i].value)], "}")

Serialize(v) == Append(Written(v), "\n")

-----------------------------------------------------------------------------
(* Parsing. *)

AtEnd(t, p) == p > Len(t)
Sees(t, p, c) == ~AtEnd(t, p) /\ t[p] = c

\* Where a run of characters of a set that starts at p ends.
RunEnd(t, p, set) == CHOOSE q \in {p} \cup p..(Len(t) + 1) :
    /\ \A i \in p..(q - 1) : t[i] \in set
    /\ AtEnd(t, q) \/ t[q] \notin set

Skip(t, p) == RunEnd(t, p, Whitespace)

\* parse_string, after the opening quote.
RECURSIVE StringFrom(_, _, _)
StringFrom(t, p, s) ==
    IF AtEnd(t, p) THEN Fail
    ELSE IF t[p] = "\"" THEN Success(p + 1, [string |-> s])
    ELSE IF t[p] # "\\" THEN StringFrom(t, p + 1, Append(s, t[p]))
    ELSE IF AtEnd(t, p + 1) THEN Fail
    ELSE IF t[p + 1] \in Escapes THEN StringFrom(t, p + 2, Append(s, Meaning(t[p + 1])))
    ELSE IF /\ t[p + 1] = "u" /\ p + 1 + HexDigits <= Len(t)
            /\ \A i \in 1..HexDigits : t[p + 1 + i] = "1"
         THEN StringFrom(t, p + 2 + HexDigits, Append(s, "U"))
    ELSE Fail

StringAt(t, p) == IF Sees(t, p, "\"") THEN StringFrom(t, p + 1, <<>>) ELSE Fail

\* from_chars takes the number the run begins with and the rest of the run is dropped.
NumberAt(t, p) ==
    LET digits == IF Sees(t, p, "-") THEN p + 1 ELSE p
        number == RunEnd(t, digits, {"1"})
    IN IF number = digits THEN Fail
       ELSE Success(RunEnd(t, p, {"1", "-"}), [number |-> SubSeq(t, p, number - 1)])

\* Faulty variant: the end of the text ends an array or object too.
ClosesAtEnd(t, p, closing) == AtEnd(t, p) \/ t[p] = closing

Closes(t, p, closing) == Sees(t, p, closing)

RECURSIVE ValueAt(_, _), ItemsFrom(_, _, _, _)

\* A key, a colon and a value.
MemberAt(t, p) ==
    LET key == StringAt(t, p)
        colon == Skip(t, key.at)
        member == ValueAt(t, Skip(t, colon + 1))
    IN IF ~key.ok \/ ~Sees(t, colon, ":") \/ ~member.ok THEN Fail
       ELSE Success(member.at, [key |-> key.value.string, value |-> member.value])

\* The items of an array or object from p on, after those already there.
ItemsFrom(t, p, closing, items) ==
    LET item == IF closing = "}" THEN MemberAt(t, Skip(t, p)) ELSE ValueAt(t, Skip(t, p))
        next == Skip(t, item.at)
        all == Append(items, item.value)
    IN IF ~item.ok THEN Fail
       ELSE IF Sees(t, next, ",") THEN ItemsFrom(t, next + 1, closing, all)
       ELSE IF Closes(t, next, closing) THEN Success(next + 1, all) ELSE Fail

ListAt(t, p, closing) ==
    LET first == Skip(t, p + 1) IN
    IF Closes(t, first, closing) THEN Success(first + 1, <<>>) ELSE ItemsFrom(t, first, closing, <<>>)

\* parse_value: the first character tells what follows.
ValueAt(t, p) ==
    LET list == ListAt(t, p, IF Sees(t, p, "{") THEN "}" ELSE "]") IN
    IF AtEnd(t, p) THEN Fail
    ELSE CASE t[p] = "{" -> IF list.ok THEN Success(list.at, [object |-> list.value]) ELSE Fail
           [] t[p] = "[" -> IF list.ok THEN Success(list.at, [array |-> list.value]) ELSE Fail
           [] t[p] = "\"" -> StringAt(t, p)
           [] t[p] = "n" -> IF Sees(t, p + 1, "l") THEN Success(p + 2, Null) ELSE Fail
           [] OTHER -> NumberAt(t, p)

\* Parser::run
Parse(t) ==
    LET parsed == ValueAt(t, Skip(t, 1)) IN
    IF parsed.ok /\ AtEnd(t, Skip(t, parsed.at)) THEN parsed ELSE Fail

-----------------------------------------------------------------------------
(* The files: written by Foundation, cut short by the disk, edited by hand. *)

Strings == UNION {[1..n -> Letters] : n \in 0..MaxString}
Leaves == {[string |-> s] : s \in Strings} \cup {Null}
Arrays == {[array |-> <<>>]} \cup UNION {{[array |-> <<v>>], [array |-> <<Null, v>>]} : v \in Leaves}
Members == [key : {<<>>, <<"n">>}, value : Leaves \cup Arrays]
Records == {[object |-> o] : o \in UNION {[1..n -> Members] : n \in 0..2}}

Init ==
    /\ pc = "written"
    /\ source \in Records
    /\ text = Serialize(source)

\* The stream failed: only a part of the text reached the file.
Cut ==
    /\ pc = "written"
    /\ \E n \in 0..(Len(text) - 1) : text' = SubSeq(text, 1, n)
    /\ pc' = "cut"
    /\ UNCHANGED source

\* A character of a file with one member is replaced, or all of an empty one.
Edit ==
    /\ pc = "written"
    /\ \/ Len(source.object) = 1 /\ \E i \in DOMAIN text, c \in Alphabet : text' = [text EXCEPT ![i] = c]
       \/ source = [object |-> <<>>] /\ \E n \in 0..MaxText : text' \in [1..n -> Alphabet]
    /\ pc' = "edited"
    /\ UNCHANGED source

Next == Cut \/ Edit

Spec == Init /\ [][Next]_vars

-----------------------------------------------------------------------------
(* The language, stated by splitting texts instead of scanning them: JSON, *)
(* with line breaks within strings and more digits and signs after a number. *)

Part(t, first, last) == SubSeq(t, first, last)
Inner(t) == Part(t, 2, Len(t) - 1)
Enclosed(t, opening, closing) == Len(t) >= 2 /\ t[1] = opening /\ t[Len(t)] = closing

Blank(t) == ToSet(t) \subseteq Whitespace
Padded(t, P(_)) ==
    \E i \in {i \in 0..Len(t) : i = 0 \/ t[i] \in Whitespace} :
        /\ Blank(Part(t, 1, i))
        /\ \E j \in {j \in (i + 1)..(Len(t) + 1) : j > Len(t) \/ t[j] \in Whitespace} :
              Blank(Part(t, j, Len(t))) /\ P(Part(t, i + 1, j - 1))

RECURSIVE IsBody(_)
IsBody(t) ==
    \/ t = <<>>
    \/ t[1] \notin {"\"", "\\"} /\ IsBody(Tail(t))
    \/ Len(t) >= 2 /\ t[1] = "\\" /\ t[2] \in Escapes /\ IsBody(Part(t, 3, Len(t)))
    \/ /\ Len(t) >= 2 + HexDigits /\ t[1] = "\\" /\ t[2] = "u"
       /\ ToSet(Part(t, 3, 2 + HexDigits)) \subseteq {"1"}
       /\ IsBody(Part(t, 3 + HexDigits, Len(t)))

IsString(t) == Enclosed(t, "\"", "\"") /\ IsBody(Inner(t))

IsNumber(t) == \E sign \in {<<>>, <<"-">>} : \E n \in 1..Len(t) :
    /\ IsPrefix(sign \o [i \in 1..n |-> "1"], t)
    /\ ToSet(t) \subseteq {"1", "-"}

RECURSIVE IsValue(_), AreItems(_, _)

IsMember(t) == \E k \in DOMAIN t :
    /\ t[k] = ":"
    /\ Padded(Part(t, 1, k - 1), LAMBDA u : IsString(u))
    /\ Padded(Part(t, k + 1, Len(t)), LAMBDA u : IsValue(u))

AreItems(t, members) ==
    \/ Padded(t, LAMBDA u : IF members THEN IsMember(u) ELSE IsValue(u))
    \/ \E k \in DOMAIN t :
          /\ t[k] = ","
          /\ Padded(Part(t, 1, k - 1), LAMBDA u : IF members THEN IsMember(u) ELSE IsValue(u))
          /\ AreItems(Part(t, k + 1, Len(t)), members)

IsValue(t) ==
    \/ t = <<"n", "l">> \/ IsNumber(t) \/ IsString(t)
    \/ /\ Enclosed(t, "[", "]")
       /\ Blank(Inner(t)) \/ AreItems(Inner(t), FALSE)
    \/ /\ Enclosed(t, "{", "}")
       /\ Blank(Inner(t)) \/ AreItems(Inner(t), TRUE)

IsText(t) == Padded(t, LAMBDA u : IsValue(u))

-----------------------------------------------------------------------------
(* Properties. *)

\* What Foundation writes it reads back unchanged: quotes, escapes and line breaks in
\* the fields, empty ones, nesting and the order of members included.
RoundTrip == pc = "written" => Parse(text) = Success(Len(text), source)

\* A file that was written short is never taken for what it should have held, nor for
\* anything else, unless the line break at its end is all it lacks.
ShortFileIsTorn == pc = "cut" /\ Len(text) < Len(Serialize(source)) - 1 => ~Parse(text).ok

\* The parser takes the texts of its language and no others.
ParsesItsLanguage == pc = "edited" => (Parse(text).ok <=> IsText(text))

\* The three together.
ParserIsExact == RoundTrip /\ ShortFileIsTorn /\ ParsesItsLanguage
=============================================================================
