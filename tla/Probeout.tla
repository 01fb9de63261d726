------------------------------ MODULE Probeout ------------------------------
(***************************************************************************)
(* The probe's line format (internal/lab/docker/probeout): String and      *)
(* Format write it, Parse reads it back, from any text a container may     *)
(* have printed, a killed probe's half line included.                      *)
(*                                                                         *)
(* A text is a sequence of pieces, the finest the code tells apart: "sep"  *)
(* is the separator ": ", "DENIED" has its parenthesis and "close" is the  *)
(* one that ends it, "sp" is a space, "a" stands for a letter or digit,    *)
(* "dot" for the other name characters, "X" for any other byte, "ctl" for  *)
(* a control byte but the newline "nl".                                    *)
(***************************************************************************)
EXTENDS Integers, Sequences, SequencesExt

CONSTANT MaxText    \* bound: pieces of a text

Pieces == {"a", "dot", "X", "sep", "sp", "OK", "DENIED", "close", "ctl", "nl"}
Control == {"ctl", "nl"}

VARIABLE text    \* the output read so far

\* A malformed line keeps its text in raw, the other fields mean nothing.
Line(name, isOk, detail) ==
    [name |-> name, ok |-> isOk, detail |-> detail, raw |-> <<>>, bad |-> FALSE]
Bad(raw) == [name |-> <<>>, ok |-> FALSE, detail |-> <<>>, raw |-> raw, bad |-> TRUE]

ValidDetail(s) == \A i \in 1..Len(s) : s[i] \notin Control
Sanitize(s) == [i \in 1..Len(s) |-> IF s[i] \in Control THEN "sp" ELSE s[i]]

LineOK(name, detail) == Line(name, TRUE, Sanitize(detail))
LineDenied(name, err) == Line(name, FALSE, Sanitize(err))

String(l) ==
    IF l.bad THEN l.raw
    ELSE l.name \o IF ~l.ok THEN <<"sep", "DENIED">> \o l.detail \o <<"close">>
                   ELSE IF l.detail = <<>> THEN <<"sep", "OK">>
                   ELSE <<"sep", "OK", "sp">> \o l.detail

ValidName(s) ==
    s # <<>> /\ \A i \in 1..Len(s) : s[i] = "a" \/ (i > 1 /\ s[i] = "dot")

\* Index of the first separator, 0 if there is none.
Index(raw) == SelectInSeq(raw, LAMBDA x : x = "sep")

From(s, i) == SubSeq(s, i, Len(s))

\* Mutant of parseStatus: "OK " without a detail is taken for "OK".
parseStatusLax(raw, name, rest) ==
    IF rest = <<"OK">> THEN Line(name, TRUE, <<>>)
    ELSE IF IsPrefix(<<"OK", "sp">>, rest) /\ ValidDetail(From(rest, 3))
         THEN Line(name, TRUE, From(rest, 3))
    ELSE IF IsPrefix(<<"DENIED">>, rest) /\ Last(rest) = "close"
            /\ ValidDetail(rest)
         THEN Line(name, FALSE, SubSeq(rest, 2, Len(rest) - 1))
    ELSE Bad(raw)

parseStatus(raw, name, rest) ==
    IF rest = <<"OK">> THEN Line(name, TRUE, <<>>)
    ELSE IF IsPrefix(<<"OK", "sp">>, rest) /\ Len(rest) > 2 /\ ValidDetail(From(rest, 3))
         THEN Line(name, TRUE, From(rest, 3))
    ELSE IF IsPrefix(<<"DENIED">>, rest) /\ Last(rest) = "close"
            /\ ValidDetail(rest)
         THEN Line(name, FALSE, SubSeq(rest, 2, Len(rest) - 1))
    ELSE Bad(raw)

parseLine(raw) ==
    LET i == Index(raw)
        name == SubSeq(raw, 1, i - 1)
    IN  IF i = 0 \/ ~ValidName(name) THEN Bad(raw)
        ELSE parseStatus(raw, name, From(raw, i + 1))

\* strings.Split at the newlines, piece by piece.
AddPiece(ls, x) ==
    IF x = "nl" THEN Append(ls, <<>>) ELSE Append(Front(ls), Append(Last(ls), x))
Split(t) == FoldLeft(AddPiece, << <<>> >>, t)

\* strings.TrimSuffix drops the last newline.
Lines(s) == Split(IF Last(s) = "nl" THEN Front(s) ELSE s)

Parse(s) == IF s = <<>> THEN <<>> ELSE [k \in 1..Len(Lines(s)) |-> parseLine(Lines(s)[k])]

Format(ls) == FlattenSeq([k \in 1..Len(ls) |-> String(ls[k]) \o <<"nl">>])

\* The first well-formed line of that name, or a malformed one.
Find(ls, name) ==
    LET k == SelectInSeq(ls, LAMBDA l : ~l.bad /\ l.name = name)
    IN  IF k = 0 THEN Bad(<<>>) ELSE ls[k]

-----------------------------------------------------------------------------
TextInit == text = <<>>

\* The container prints one more piece.
ContainerPrints == Len(text) < MaxText /\ \E x \in Pieces : text' = Append(text, x)

-----------------------------------------------------------------------------
(* Properties *)

\* Nothing is dropped or changed: parsing and formatting any text gives it
\* back, with the last newline added; and whatever error text a check reports,
\* its line comes back as one line, found under its name with the verdict it
\* had, also behind lines of other names or none.
FormatInvertsParse ==
    /\ text # <<>> =>
        Format(Parse(text)) = IF Last(text) = "nl" THEN text ELSE Append(text, "nl")
    /\ \A l \in {LineOK(<<"a">>, text), LineDenied(<<"a">>, text)} :
        /\ Parse(String(l)) = <<l>>
        /\ LET all == Parse(text \o <<"nl">>) \o Parse(String(l))
           IN  Find(all, <<"a">>) \in {l, Find(Parse(text), <<"a">>)} \ {Bad(<<>>)}
=============================================================================
