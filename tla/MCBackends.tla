------------------------------ MODULE MCBackends ------------------------------
(***************************************************************************)
(* Two columns, number and name, of which confd filters by the first.  The *)
(* texts are a letter, the same in upper case and with an accent, and a    *)
(* longer text that holds it.                                              *)
(***************************************************************************)
EXTENDS Backends

MCTexts == {"e", "E", "e-acute", "see"}
MCLower == [t \in MCTexts |-> IF t = "E" THEN "e" ELSE t]
MCPlain == [t \in MCTexts |-> IF t = "e-acute" THEN "e" ELSE t]
MCWithin == {<<t, t>> : t \in MCTexts} \cup {<<"e", "see">>}
MCColumns == {"number", "name"}
MCFilterable == {"number"}
MCFilter == {<<"e", 1>>, <<"see", 1>>, <<"see", 2>>}

Number == {<<>>, <<"e">>, <<"E">>, <<"see", "e">>}
Name == {<<>>, <<"e">>, <<"e-acute">>}
Person(id) == [id : {id}, fields : {[number |-> n, name |-> m] : n \in Number, m \in Name}]
MCDirectories ==
  {<<>>} \cup {<<a>> : a \in Person(1)} \cup {<<a, b>> : a \in Person(1), b \in Person(2)}
  \cup {<<a, b, [b EXCEPT !.id = 3]>> : a \in Person(NoId), b \in Person(2)}

Reversed == {<<"number">>, <<"number", "name">>}
Searched == {<<"number">>, <<"name", "number">>}
Config(kinds, formats, customs, hidden) ==
  [kind : kinds, matched : Reversed, searched : Searched, formats : formats,
   custom : customs, unique : {TRUE}, hidesId : hidden]
MCSources ==
  Config(Kinds \ {"wazo", "ldap"}, {<<>>}, {FALSE}, {FALSE, TRUE})
  \cup Config({"wazo"}, {<<>>, <<<<"name", "number">>>>}, {FALSE}, {FALSE, TRUE})
  \cup Config({"ldap"}, {<<>>, <<<<"name", "number">>>>}, {FALSE, TRUE}, {FALSE})

MCExtens == {<<"e">>, <<"e", "see">>, <<"E", "e", "e-acute">>}

MCPhones ==
  LET phone == [label : {"home", "mobile", "custom", ""}, number : {1, 2, NoNumber}]
  IN {<<>>} \cup {<<a, b>> : a \in phone, b \in phone}
     \cup {<<a, b, c>> : a \in phone, b \in [label : {"home"}, number : {1}], c \in phone}
MCContacts ==
  [businessPhones : {<<>>, <<1, 2>>}, homePhones : {<<>>, <<2>>, <<3, 3>>},
   mobilePhone : {<<>>, <<1>>}]
=============================================================================
