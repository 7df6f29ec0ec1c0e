------------------------------- MODULE HttpText --------------------------------
(* A message on the wire is a text, a string here, and this module has the steps *)
(* by which http/deserialization.cpp takes one apart: find, substr, trim and the *)
(* two number formats.  What a text that was put together from a message comes   *)
(* apart into is not settled by its making: a blank in a target, a colon in a    *)
(* name or a line break in a value moves the places where it is divided.         *)
EXTENDS Integers, Sequences, FiniteSetsExt, SequencesExt, TLC

Break == "\r\n"
BadNumber == 1000       \* a version or a status code that does not parse

\* std::string_view::find; 0 is npos.
Places(text, what, from) ==
    {i \in from .. Len(text) + 1 - Len(what) : SubSeq(text, i, i + Len(what) - 1) = what}
FindText(text, what, from) ==
    LET places == Places(text, what, from) IN IF places = {} THEN 0 ELSE Min(places)

TextBefore(text, i) == SubSeq(text, 1, i - 1)
TextAfter(text, i) == SubSeq(text, i + 1, Len(text))
CharOf(text, i) == SubSeq(text, i, i)

\* trim.
Trim(text) ==
    LET solid == {i \in 1 .. Len(text) : CharOf(text, i) \notin {" ", "\t"}}
    IN  IF solid = {} THEN "" ELSE SubSeq(text, Min(solid), Max(solid))

\* The loop over a block of header lines, which passes over an empty line.
LinesIn(block) ==
    LET ends  == SetToSortSeq(Places(block, Break, 1) \cup {Len(block) + 1}, <)
        begin == [n \in DOMAIN ends |-> IF n = 1 THEN 1 ELSE ends[n - 1] + Len(Break)]
    IN  SelectSeq([n \in DOMAIN ends |-> SubSeq(block, begin[n], ends[n] - 1)], LAMBDA line : line # "")

\* A header line; one without a colon or a name gets the name "".
Field(line) ==
    LET colon == FindText(line, ":", 1)
    IN  IF colon = 0 THEN [name |-> "", value |-> ""]
        ELSE [name |-> Trim(TextBefore(line, colon)), value |-> Trim(TextAfter(line, colon))]

Numeral == [c \in {ToString(n) : n \in 0 .. 9} |-> CHOOSE n \in 0 .. 9 : ToString(n) = c]

\* parse_http_version, which does not look behind the second digit, and
\* append_version_string, for a version below 100.
ParseVersion(part) ==
    IF /\ Len(part) >= 8 /\ SubSeq(part, 1, 5) = "HTTP/" /\ CharOf(part, 7) = "."
       /\ {CharOf(part, 6), CharOf(part, 8)} \subseteq DOMAIN Numeral
    THEN 10 * Numeral[CharOf(part, 6)] + Numeral[CharOf(part, 8)]
    ELSE BadNumber
VersionText(v) == "HTTP/" \o ToString(v \div 10) \o "." \o ToString(v % 10)

\* parse_status_code, and the three digits of a code.
ParseStatus(part) ==
    IF Len(part) = 3 /\ \A i \in 1 .. 3 : CharOf(part, i) \in DOMAIN Numeral
    THEN 100 * Numeral[CharOf(part, 1)] + 10 * Numeral[CharOf(part, 2)] + Numeral[CharOf(part, 3)]
    ELSE BadNumber
StatusText(code) ==
    ToString((code \div 100) % 10) \o ToString((code \div 10) % 10) \o ToString(code % 10)

\* A text as it is divided: the parts of its first line, <<>> when it has fewer than
\* two blanks or no end; its header lines; whether an empty line ends them, which is
\* looked for behind the first line break, so that a text without header lines has
\* none; and what follows.
Divide(text) ==
    LET stop   == FindText(text, Break, 1)
        line   == TextBefore(text, stop)
        first  == FindText(line, " ", 1)
        second == FindText(line, " ", first + 1)
        end    == FindText(text, Break \o Break, stop + Len(Break))
    IN  IF stop = 0 THEN [start |-> <<>>, lines |-> <<>>, ended |-> FALSE, body |-> ""]
        ELSE [start |-> IF first = 0 \/ second = 0 THEN <<>>
                        ELSE <<TextBefore(line, first), SubSeq(line, first + 1, second - 1), TextAfter(line, second)>>,
              lines |-> LET block == IF end = 0 THEN "" ELSE SubSeq(text, stop + Len(Break), end - 1)
                            found == LinesIn(block)
                        IN  [i \in DOMAIN found |-> Field(found[i])],
              ended |-> end # 0,
              body  |-> IF end = 0 THEN "" ELSE TextAfter(text, end + 3)]

\* What serialize makes of the first line, the header lines and the body.
Join(first, lines, body) ==
    first \o Break
        \o FoldLeft(LAMBDA text, line : text \o line.name \o ": " \o line.value \o Break, "", lines)
        \o Break \o body

===============================================================================
