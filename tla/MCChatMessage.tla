---------------------------- MODULE MCChatMessage ----------------------------
(* Messages of the two writers for TLC; a header of two digits, so that 100 characters *)
(* are too many. *)
EXTENDS ChatMessage

Word(c) == <<c>>
Words == {<<"tea", "\"", "t">>, <<"\\", "n", "\"">>, <<"\n", "\t", "oe", "\\">>,
          <<"]", ",", "{">>}

MCLetter == {"data", "keys", "value", "dimension", "dimensions", "cube", "request",
             "response", "slice", "tea", "n", "t", "u", "hex", "false", "x"}
MCForeign == {"oe"}
MCNames == << Word("cube"), Word("data"), Word("dimension"), Word("dimensions"),
              Word("keys"), Word("request"), Word("response"), Word("slice"),
              Word("value") >>
MCAdded == << Word("request"), Word("data"), Word("slice"), Word("dimension"),
              Word("value"), Word("response"), Word("dimensions"), Word("cube"),
              Word("keys") >>

MCRequests ==
  {Word("data") :> String(word) : word \in Words}
  \cup {Word("slice") :> Array(<<Map(Word("dimension") :> String(Word("data"))
                                       @@ Word("value") :> String(<<"\\", "tea">>)),
                                 Map(Word("dimension") :> String(Word("x"))
                                       @@ Word("value") :> String(<< >>))>>)}

MCLines == {<< >>, <<Word("tea"), <<"\\", "\"">>, <<"oe", "\\">> >>}
MCCells ==
  {<< >>} \cup
  {<<[keys |-> <<key>>, records |-> records]>> :
     key \in {Word("tea"), <<"\"">>, <<"tea", "\\", "\\">>},
     records \in {<<Word("tea"), <<"oe", ",">> >>, << <<"\\", "\"">> >>}}

Filler(n) == [i \in 1..n |-> "x"]
\* With the field and the quotes around it, 99, 100 and 110 characters.
MCPlain == {Filler(n) : n \in {2, 90, 91, 101}}

=============================================================================
