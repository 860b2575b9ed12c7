----------------------------- MODULE MessageCodec -----------------------------
(***************************************************************************)
(* How TBaseMessage and the tokens of Utility.cpp write fields into one    *)
(* text.  A text is a sequence of characters; a message name and END_MSG   *)
(* count as one character each.  Base64, which wraps a token, has none of  *)
(* the characters that matter here.                                        *)
(***************************************************************************)
EXTENDS Naturals, SequencesExt

MSG_SEP == "$"
\* to_string of a character is its code in decimal, so it is these two digits
\* that are replaced, and never the separator.
SepNumber == <<"3", "6">>
MSG_SEP_ESC == <<"&", "#", "3", "6">>
END_MSG == "END_MSG"

\* boost::replace_all: from left to right, without looking at what it has put.
replace_all(text, from, to) ==
  LET found(i) == SubSeq(text, i, i + Len(from) - 1) = from
      rest[i \in 1..Len(text) + 1] ==
        IF i > Len(text) THEN <<>>
        ELSE IF i + Len(from) <= Len(text) + 1 /\ found(i)
               THEN to \o rest[i + Len(from)]
               ELSE <<text[i]>> \o rest[i + 1]
  IN rest[1]

\* A slip: the field is written as it is.
plain(field) == field
escape(field) == replace_all(field, SepNumber, MSG_SEP_ESC)
unescape(field) == replace_all(field, MSG_SEP_ESC, SepNumber)

\* getline up to the separator, again and again.
Split(text) ==
  FoldLeft(LAMBDA fields, c : IF c = MSG_SEP THEN Append(fields, <<>>)
                              ELSE [fields EXCEPT ![Len(fields)] = Append(@, c)],
           << <<>> >>, text)

encodeMessage(items) ==
  FoldLeft(LAMBDA text, item : text \o escape(item) \o <<MSG_SEP>>, <<>>, items)
    \o <<END_MSG>>

\* A slip: too many fields are not noticed.
FieldsFor(fields, count) == Len(fields) >= count + 1
WellFormed(fields, count) == Len(fields) = count + 1 /\ Last(fields) = <<END_MSG>>

\* The items of a message of that many, or none when it throws.
decodeMessage(text, count) ==
  LET fields == Split(text) IN
  IF WellFormed(fields, count)
    THEN [i \in 1..count |-> unescape(fields[i])] ELSE <<>>

Rand == <<"rand">>
Time == <<"time">>
getUniqueToken(user) ==
  Rand \o <<MSG_SEP>> \o escape(user) \o <<MSG_SEP>> \o Time \o <<MSG_SEP>> \o Rand

getUserFromToken(token) == unescape(Split(token)[2])
================================================================================
