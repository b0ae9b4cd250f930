---------------------------- MODULE MCTextMessage ----------------------------
(* TextMessage with files of up to three messages.                            *)
EXTENDS TextMessage

MCUpper == [c \in Letter |-> IF c = "b" THEN "B" ELSE c]

One   == <<"<--", "A", "-->:", "%", "1", "%", "x", "\r\n">>
Two   == <<"<--", "A", "B", "-->:", "x", "\r\n", "<--", "B", "-->:", "%", "2", "\r\n", "x", "\r\n">>
Three == <<";", "\r\n", "<--", "A", "-->:", "x", "\r\n", ";", "x", "\r\n", "<--", "b", "-->:", "%", "1", "%", "%", "2",
           "\r\n", "<--", "A", "-->:", "y">>
Short == <<"<--", "A", "B", "A", "B", "A", "B", "A", "B", "-->:">>
Broken == <<"x", "\r\n", "<--", "A", "-->:", "x", "\r\n", "<--", "B">>
NoIds  == <<"x", "\r\n">>
Many  == <<"<--", "A", "-->:", "x", "x", "x", "x", "\r\n", "<--", "B", "-->:", "x", "x", "\r\n", "<--", "A", "B", "-->:", "%">>
MCTexts == {One, Two, Three, Short, Broken, NoIds, Many}

MCId == {<<"A">>, <<"B">>, <<"A", "B">>, <<"b">>}
MCParms == {<<>>, <<<<"x">>>>, <<<<"x", "1">>, <<>>>>, <<<<"%", "1">>>>, <<<<"%", "2">>, <<"x">>>>}
PlainParms == {<<>>, <<<<"x">>>>, <<<<"x", "1">>, <<>>>>}

Simple == [text |-> One, edits |-> 0, ids |-> MCId, parms |-> PlainParms, cut |-> FALSE, crash |-> FALSE, calls |-> 1]

MCModes ==
  {[Simple EXCEPT !.text = s, !.calls = IF s = One THEN 2 ELSE 1] : s \in MCTexts}
  \cup {[Simple EXCEPT !.text = s, !.cut = TRUE] : s \in {Two, Three, Many}}
  \cup {[Simple EXCEPT !.text = One, !.ids = {<<"A">>}, !.parms = MCParms],
        [Simple EXCEPT !.text = Two, !.edits = 1, !.crash = TRUE, !.calls = 2, !.ids = {<<"A">>, <<"B">>},
                       !.parms = {<<<<"x">>>>}]}

=============================================================================
