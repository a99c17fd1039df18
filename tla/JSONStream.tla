------------------------------ MODULE JSONStream ------------------------------
(***************************************************************************)
(* The streamer of the client library: it walks over the tokens of a JSON  *)
(* response while they arrive, hands each element of one array to the      *)
(* caller, skips whatever else there is and stops at the first error.  A   *)
(* token is a delimiter, a name, an element of the array or another value; *)
(* commas and colons do not show.                                          *)
(***************************************************************************)
EXTENDS Integers, Sequences, SequencesExt

CONSTANTS
    Elements,   \* the values that the callback decodes
    Listed      \* path of the array that is streamed

Errors == <<"errors">>

Delimiters == {"{", "}", "[", "]"}

Closer(open) == IF open = "{" THEN "}" ELSE "]"

\* Where the walk is: at a value, between the members of an object, in an array
\* that is searched for, in one that is skipped, or at its end.
Start == [at |-> "value", path |-> <<>>, skip |-> <<>>, got |-> <<>>]

Failed(s) == [s EXCEPT !.at = "error"]

Finished(s) == s.at \in {"done", "error"}

\* The value at the path is over: stream returns to the object around it.
AfterValue(s) ==
    IF s.path = <<>> THEN [s EXCEPT !.at = "done"]
    ELSE [s EXCEPT !.at = "name", !.path = Front(@), !.skip = <<>>]

AtValue(s, t) ==
    LET searched == s.path \in {Listed, Errors}
    IN  CASE t = "[" /\ searched -> [s EXCEPT !.at = "elements"]
          [] t = "[" /\ ~searched -> [s EXCEPT !.at = "skip", !.skip = <<"]">>]
          [] t = "{" /\ ~searched -> [s EXCEPT !.at = "name"]
          [] t \notin Delimiters -> AfterValue(s)
          [] OTHER -> Failed(s)

AtName(s, t) ==
    CASE t = "}" -> AfterValue(s)
      [] t \notin Delimiters -> [s EXCEPT !.at = "value", !.path = Append(@, t)]
      [] OTHER -> Failed(s)

\* Variant: what is in the array of errors is passed over.
AtElementsErrorsSkipped(s, t) ==
    CASE t = "]" -> AfterValue(s)
      [] t # "]" /\ s.path = Errors -> s
      [] t \in Elements /\ s.path = Listed -> [s EXCEPT !.got = Append(@, t)]
      [] OTHER -> Failed(s)

\* The loop over the elements: any element of "errors" is an error.
AtElements(s, t) ==
    CASE t = "]" -> AfterValue(s)
      [] t \in Elements /\ s.path = Listed -> [s EXCEPT !.got = Append(@, t)]
      [] OTHER -> Failed(s)

\* Variant: a closing delimiter ends the skipping at any depth.
AtSkippedFlat(s, t) == IF t = "]" THEN AfterValue(s) ELSE s

\* skipToDelim, with the delimiters that it waits for.
AtSkipped(s, t) ==
    CASE t = Last(s.skip) /\ Len(s.skip) = 1 -> AfterValue(s)
      [] t = Last(s.skip) /\ Len(s.skip) > 1 -> [s EXCEPT !.skip = Front(@)]
      [] t \in {"{", "["} -> [s EXCEPT !.skip = Append(@, Closer(t))]
      [] t \notin Delimiters -> s
      [] OTHER -> Failed(s)

Feed(s, t) ==
    CASE s.at = "value" -> AtValue(s, t)
      [] s.at = "name" -> AtName(s, t)
      [] s.at = "elements" -> AtElements(s, t)
      [] s.at = "skip" -> AtSkipped(s, t)
      [] OTHER -> s

\* StreamJSONArray, over the tokens that have arrived.
Streamed(s, tokens) ==
    LET after[n \in 0 .. Len(tokens)] ==
            IF n = 0 THEN s ELSE Feed(after[n - 1], tokens[n])
    IN  after[Len(tokens)]

-----------------------------------------------------------------------------
(* Documents to compare the walk with *)

Obj(members) == <<"{">> \o FlattenSeq(members) \o <<"}">>
Arr(values) == <<"[">> \o FlattenSeq(values) \o <<"]">>

\* Values that have nothing to do with the listing, one array deep or two.
Other == {<<"other">>, Arr(<<>>), Arr(<<<<"other">>>>), Arr(<<Arr(<<<<"other">>>>), <<"other">>>>),
          Arr(<<Obj(<<<<"errors", "other">>>>), <<"other">>>>), Obj(<<<<"other">> \o Arr(<<>>)>>)}

\* A response with a listing of elems among other members, and then errors.
Response(elems, before, after, errors) ==
    Obj(<<<<"other">> \o before,
          <<"result">> \o Obj(<<<<"other">> \o before,
                                <<"identities">> \o Arr([i \in DOMAIN elems |-> <<elems[i]>>]),
                                <<"other">> \o after>>),
          <<"other">> \o after,
          <<"errors">> \o Arr(errors)>>)

\* The walk over a response hands over its listing and sees its errors.
TakesListings ==
    \A n \in 0 .. 2 : \A elems \in [1 .. n -> Elements], before, after \in Other,
       errors \in {<<>>, <<<<"other">>>>} :
        LET s == Streamed(Start, Response(elems, before, after, errors))
        IN  /\ s.got = elems
            /\ s.at = IF errors = <<>> THEN "done" ELSE "error"
=============================================================================
