------------------------------ MODULE HttpHeaders ------------------------------
(* ngx::http::headers (http/header.cpp): the header fields of a message as a    *)
(* vector of entries, searched from the front without regard to case.           *)
(*                                                                              *)
(* A text is a string; two texts are told apart or found equal, and Lower is    *)
(* std::tolower over one.  The operators return the new vector, or what the     *)
(* method returns.                                                              *)
EXTENDS Integers, Sequences, FiniteSets, FiniteSetsExt, SequencesExt, TLC, Selection

CONSTANTS
    Names,      \* names of header fields, in the spellings that occur
    Values,     \* their values
    Lower       \* the lower case of a name or a value

ASSUME HeaderAssumption ==
    /\ Lower \in [Names \cup Values -> Names \cup Values]
    /\ \A n \in Names : Lower[n] \in Names /\ Lower[Lower[n]] = Lower[n]
    /\ {"Content-Length", "Connection"} \subseteq Names
    /\ {"", "keep-alive", "close"} \subseteq Values
    /\ Lower["Content-Length"] = "content-length" /\ Lower["Connection"] = "connection"
    /\ Lower["keep-alive"] = "keep-alive" /\ Lower["close"] = "close"

\* std::to_chars of a size.
Decimal(n) == ToString(n)

\* make_key: what names are compared by.
Key(name) == Lower[name]
Keys == {Key(n) : n \in Names}

\* struct header.  An entry that set() has emptied keeps its key only.
Entries == [key : Keys, name : Names \cup {""}, value : Values]

Entry(name, value) == [key |-> Key(name), name |-> name, value |-> value]

\* Construct does not look for the name.
Construct(es, name, value) == Append(es, Entry(name, value))

\* The entries of a name.
At(es, name) == {i \in DOMAIN es : es[i].key = Key(name)}

\* Set that leaves the duplicates alone.
SetFirstOnly(es, name, value) ==
    IF At(es, name) = {} THEN Construct(es, name, value)
    ELSE [es EXCEPT ![Min(At(es, name))] = Entry(name, value)]

\* Set that empties the names of the duplicates and not their values.
SetKeepsValues(es, name, value) ==
    IF At(es, name) = {} THEN Construct(es, name, value)
    ELSE [i \in DOMAIN es |->
            CASE i \notin At(es, name) -> es[i]
              [] i = Min(At(es, name)) -> Entry(name, value)
              [] OTHER -> [es[i] EXCEPT !.name = ""]]

\* set: the first entry of the name is overwritten, the others are emptied in place.
Set(es, name, value) ==
    LET at == At(es, name)
    IN  IF at = {} THEN Construct(es, name, value)
        ELSE [i \in DOMAIN es |->
                CASE i \notin at -> es[i]
                  [] i = Min(at) -> Entry(name, value)
                  [] OTHER -> [es[i] EXCEPT !.name = "", !.value = ""]]

\* erase(name) and erase(name, value).
Erase(es, name) == Chosen(es, DOMAIN es \ At(es, name))

\* erase(name, value) that does not look at the value.
EraseValueAny(es, name, value) == Erase(es, name)
EraseValue(es, name, value) ==
    LET at == At(es, name) IN Chosen(es, {i \in DOMAIN es : i \in at => es[i].value # value})

\* What contains, retrieve and serialize see of the container.
Visible(es) == Chosen(es, {i \in DOMAIN es : es[i].value # ""})
ValuesOf(es, name) ==
    LET of == Chosen(es, {i \in At(es, name) : es[i].value # ""}) IN [i \in DOMAIN of |-> of[i].value]

\* The header lines of serialize that writes the emptied entries too.
ShownAll(es) == [i \in DOMAIN es |-> [name |-> es[i].name, value |-> es[i].value]]

\* The header lines that serialize writes.
Shown(es) == LET vs == Visible(es) IN [i \in DOMAIN vs |-> [name |-> vs[i].name, value |-> vs[i].value]]

\* retrieve; contains is # "".
Retrieve(es, name) == IF ValuesOf(es, name) = <<>> THEN "" ELSE Head(ValuesOf(es, name))

\* A loop of set over the fields of a message.
SetAll(es, fields) ==
    LET done[n \in 0 .. Len(fields)] ==
            IF n = 0 THEN es ELSE Set(done[n - 1], fields[n].name, fields[n].value)
    IN  done[Len(fields)]

===============================================================================
