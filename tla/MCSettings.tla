----------------------------- MODULE MCSettings -----------------------------
(* Settings with two objects and classes of up to three settings.           *)
EXTENDS Settings

MCSize == ("x" :> 1) @@ ("y" :> 1) @@ ("long" :> 4) @@ ("one" :> 3) @@ ("two" :> 3) @@ ("0" :> 1) @@ ("7" :> 1)
          @@ ("TRUE" :> 4) @@ ("FALSE" :> 5) @@ ("YES" :> 3) @@ ("NO" :> 2)
MCKnown == {<<"one">>, <<"two">>}
x == <<"x">>
xy == <<"x", "y">>

D(name, id, types, queries, page) ==
  [name |-> name, id |-> id, types |-> types, queries |-> queries, page |-> page, titled |-> TRUE,
   defaults |-> [i \in DOMAIN types |-> IF types[i] = "BOOL" THEN <<"NO">> ELSE IF types[i] = "INDEX" THEN <<"one">> ELSE <<>>],
   room |-> [i \in DOMAIN types |-> 4]]

Addr == D("ADDR", 1, <<"STRING", "BOOL">>, 1, 1)
Kind2 == D("KIND", 3, <<"INDEX">>, 1, 2)
Items == D("ITEMS", 4, <<"INDEXITEM", "STRING">>, 1, 1)
Detail == D("", 6, <<"DATE">>, 0, 0)
Count == D("COUNT", 7, <<"LONG">>, 1, 2)

\* A number with two ids, of which the second is that of a Boolean, too.
Number2 == D("N", 1, <<"LONG">>, 2, 1)
OnOff == D("ON", 2, <<"BOOL">>, 1, 1)

S(name, parts) == [name |-> name, parts |-> parts]

Setups ==
  {<<S("ADDR", <<"x", "YES">>)>>, <<S("ADDR", <<"long", "YES">>)>>, <<S("ADDR", <<"y", "0">>)>>,
   <<S("KIND", <<"two">>), S("ADDR", <<"">>)>>, <<S("KIND", <<"x">>), S("NONE", <<"x">>)>>,
   <<S("ITEMS", <<"two", "y">>), S("COUNT", <<"7">>), S("COUNT", <<"x">>)>>}

M == [objects |-> {CHOOSE o \in Object : TRUE}, class |-> <<Addr, Kind2>>, fails |-> FALSE, calls |-> {}, setups |-> Setups,
      typed |-> {<<>>, x, xy, <<"long">>}, rejects |-> {},
      accepts |-> {}, passes |-> {}, alone |-> TRUE]

Definitions == {Addr, Kind2, D("ADDR", 9, <<"LONG">>, 1, 1), D("BAD", 0, <<>>, 1, 0), D("ODD", 3, <<"STRING">>, 2, 1),
                Detail, D("NOID", 0, <<"STRING">>, 1, 1), D("", 5, <<"LONG">>, 0, 0)}

MCModes ==
  {[M EXCEPT !.class = <<a, b, c>>, !.fails = TRUE] : a, b, c \in Definitions}
  \cup {[M EXCEPT !.calls = {"setup", "notebook"}, !.rejects = {xy}],
        [M EXCEPT !.calls = {"setup", "notebook"}, !.class = <<Addr>>, !.objects = Object, !.typed = {x}],
        [M EXCEPT !.calls = {"setup", "notebook"}, !.class = <<Items, Count>>],
        [M EXCEPT !.calls = {"setup", "notebook", "text"}, !.class = <<Addr>>],
        [M EXCEPT !.calls = {"setup", "text", "state"}, !.class = <<Items, Kind2>>],
        [M EXCEPT !.calls = {"setup", "state"}, !.class = <<Addr, D("ODD", 2, <<"STRING">>, 2, 1), Kind2>>],
        [M EXCEPT !.calls = {"setup", "details"}, !.class = <<Addr, Detail, Kind2>>],
        [M EXCEPT !.calls = {"setup", "details"}, !.class = <<Kind2>>, !.fails = TRUE],
        [M EXCEPT !.calls = {"setup", "details"}, !.class = <<[Kind2 EXCEPT !.room = <<0>>], Count>>],
        [M EXCEPT !.calls = {"setup", "notebook", "text"}, !.class = <<Addr>>, !.rejects = {x, xy}, !.passes = {x}],
        [M EXCEPT !.calls = {"setup", "text"}, !.class = <<Addr, Count>>, !.accepts = {<<"long">>, x}],
        [M EXCEPT !.calls = {"setup", "notebook"}, !.class = <<Addr>>, !.objects = Object, !.alone = FALSE,
                  !.typed = {x, xy}, !.rejects = {xy}],
        [M EXCEPT !.calls = {"setup", "notebook", "state", "text"}, !.class = <<Number2, OnOff>>,
                  !.setups = {<<S("N", <<"7">>)>>, <<S("ON", <<"YES">>)>>}]}

=============================================================================
