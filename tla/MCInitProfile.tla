---------------------------- MODULE MCInitProfile ----------------------------
(* InitProfile on small files: a section or two, keys that differ and keys   *)
(* that stricmp takes for the same.                                          *)
EXTENDS InitProfile

MCName == {"a", "b", "B"}
MCFold == [n \in MCName |-> IF n = "B" THEN "b" ELSE n]
MCToken == {"1", "2", "rem", "\"open", "\"closed\""}
MCOpen == "\"open"
MCQuoted == "\"closed\""
MCAppValue == {<<"1">>, <<"2">>}

Rem == Comment("-", <<"rem">>)
Text(v) == [kind |-> "text", name |-> "-", value |-> v]

\* Comments in front of a section, of a key and at the end, a value comment.
Commented ==
  <<Rem, SectionLine("a"), KeyLine("a", <<"1">>), Rem, Blank, KeyLine("B", <<"2", "rem">>), Rem>>

\* A value that takes three lines, one of which looks like a key.
Quoting ==
  <<SectionLine("b"), KeyLine("a", <<MCOpen>>), KeyLine("b", <<"1">>), Text(<<MCQuoted>>),
    KeyLine("B", <<"2">>)>>

TwoSections == <<SectionLine("a"), KeyLine("b", <<"1">>), SectionLine("b"), KeyLine("a", <<"2">>)>>

Plain == [discard |-> FALSE, soft |-> FALSE, slash |-> FALSE, open |-> {"READWRITE"}, asks |-> FALSE,
          image |-> Commented, failures |-> {}, opens |-> 2, changes |-> 1]

MCModes ==
  {[Plain EXCEPT !.soft = TRUE, !.slash = TRUE, !.failures = {"write"}],
   [Plain EXCEPT !.soft = TRUE, !.slash = TRUE, !.opens = 1, !.changes = 3],
   [Plain EXCEPT !.soft = TRUE, !.discard = TRUE, !.failures = {"copy", "open"}],
   [Plain EXCEPT !.image = Quoting],
   [Plain EXCEPT !.image = TwoSections, !.open = OpenMode, !.asks = TRUE, !.opens = 1],
   [Plain EXCEPT !.image = TwoSections, !.soft = TRUE, !.changes = 2],
   [Plain EXCEPT !.image = Absent, !.open = OpenMode, !.failures = {"malloc", "strdup"},
                 !.opens = 1, !.changes = 2],
   [Plain EXCEPT !.image = <<SectionLine("a"), Text(<<"1">>)>>],
   [Plain EXCEPT !.image = <<KeyLine("a", <<"1">>)>>]}

=============================================================================
