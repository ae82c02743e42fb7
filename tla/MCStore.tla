------------------------------- MODULE MCStore -------------------------------
(***************************************************************************)
(* Two requests on a profile of two sources, and two on favorites with four *)
(* sources: 1, 2 and 3 share a name across three tenants, 1 and 2 their     *)
(* back-end too, and 4 is of the tenant of 1 and is asked with it.          *)
(***************************************************************************)
EXTENDS Store

Request(kind, linked, renamed, stranger, source) ==
  [kind |-> kind, sources |-> linked, renamed |-> renamed, stranger |-> stranger, source |-> source]
MCBodies ==
  {Request("editProfile", <<1, 2>>, FALSE, FALSE, 0), Request("editProfile", << >>, TRUE, FALSE, 0),
   Request("editProfile", <<1>>, FALSE, TRUE, 0), Request("createProfile", <<1>>, FALSE, FALSE, 0),
   Request("editDisplay", <<>>, FALSE, FALSE, 0), Request("editDisplay", <<>>, TRUE, FALSE, 0),
   Request("deleteProfile", <<>>, FALSE, FALSE, 0), Request("deleteProfile", <<>>, FALSE, TRUE, 0),
   Request("deleteDisplay", <<>>, FALSE, FALSE, 0), Request("deleteSource", <<>>, FALSE, FALSE, 1)}

MCName == <<"a", "a", "a", "b">>
MCBackend == <<"csv", "csv", "phonebook", "csv">>
MCOwner == <<1, 2, 3, 1>>
MCUserTenant == <<1, 2>>

Ask(kind, user, name, source) == [kind |-> kind, user |-> user, name |-> name, source |-> source]
MCAsks ==
  {Ask("add", 1, "a", 0), Ask("add", 1, "b", 0), Ask("add", 2, "a", 0), Ask("remove", 1, "a", 0),
   Ask("list", 1, "a", 0), Ask("deleteSource", 1, "a", 1), Ask("deleteSource", 1, "b", 4)}
=============================================================================
