---------------------------- MODULE MCConfigSys ----------------------------
(***************************************************************************)
(* CONFIG.SYS with a remark, a driver, variables and lists, and updates    *)
(* with a new and a changed variable, drivers and lists.                   *)
(***************************************************************************)
EXTENDS ConfigSys

Set(name, param) == Statement("SET", <<name>>, param)
Driver(name, param) == Statement("DEVICE", <<name>>, param)
Libpath(list) == Statement("LIBPATH", list, <<>>)
Remark(text) == Statement("REM", text, <<>>)

MCBackups == <<"CONFIG.000", "CONFIG.001">>

Lists == {<<"a", ";", "b">>, <<"a", "b", ";">>, <<"b", "a", ";", "a">>, <<";", "a", ";", "c">>}

MCContents ==
  {<<Remark(<<"x">>), Driver("D", <<"1">>), Set("P", list), Libpath(list), Set("V", <<"1">>)>> : list \in Lists}
  \union {<<Set("V", <<"1">>), Driver("D", <<>>), Set("V", <<"2">>), Set("D", <<"1">>), Driver("E", <<>>)>>}

NewLists(name) ==
  {<<"%", name, "%", ";", "a", ";">>, <<"b", ";", "%", name, "%">>, <<"b", ";">>}

MCUpdates ==
  {<<Set("V", <<v>>), Driver("D", <<p>>)>> : v \in {"1", "2"}, p \in {"1", "2"}}
  \union {<<Driver("D", <<"2">>), Set("P", list), Libpath(list)>> : list \in NewLists("P")}
  \union {<<Libpath(list), Set("W", <<"1">>), Driver("D", <<"1">>)>> : list \in NewLists("LIBPATH")}
  \union {<<Set("P", list)>> : list \in NewLists("P") \union {<<"a", ";", "b">>}}
=============================================================================
