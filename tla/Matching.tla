------------------------------ MODULE Matching ------------------------------
(***************************************************************************)
(* What the back-ends find in a directory: search, first_match, match_all  *)
(* and list of every source plugin.  A source is a record of its           *)
(* configuration; a directory is the sequence of its contacts, in the      *)
(* order of the file, the answer or the table it comes from.               *)
(* An operator that ends in "Answers" gives the set of the answers the     *)
(* code may return: PostgreSQL orders rows as it likes, so a query with a  *)
(* LIMIT has several.  Otherwise the order of an answer is left out.        *)
(* Texts are the members of a small set: Lower is str.lower and ILIKE,     *)
(* Plain is unidecode and unaccent, Within the pairs <<part, whole>>.      *)
(* Texts have no LIKE wildcard and no comma.  A column holds the sequence  *)
(* of the texts the code compares: none when it is missing, one for a      *)
(* string, the items of a list, the values of a list of records, the keys  *)
(* of a dictionary.  A format string is the one column it refers to.       *)
(***************************************************************************)
EXTENDS Integers, SequencesExt

CONSTANTS
  Texts, Lower, Plain, Within,
  Columns,
  Filterable,   \* the columns by which confd filters users
  Filter,       \* what the custom LDAP filter lets through: <<term, id>>
  PageSize,     \* of the list of the People API, 1000
  SearchSize,   \* of its search, 30
  NoId, None

ASSUME MatchingAssumption ==
  /\ Lower \in [Texts -> Texts] /\ Plain \in [Texts -> Texts]
  /\ Within \subseteq Texts \X Texts /\ \A t \in Texts : <<t, t>> \in Within
  /\ Filterable \subseteq Columns
  /\ Filter \subseteq Texts \X Int
  /\ PageSize \in Nat \ {0} /\ SearchSize \in Nat \ {0}
  /\ None \notin Texts

Kinds == {"csv", "csv_ws", "wazo", "conference", "phonebook", "personal", "ldap",
          "google", "office365"}

(***************************************************************************)
(* Columns.                                                                 *)
(***************************************************************************)
(* make_result_class, _SourceResult: the formatted columns are computed in  *)
(* the order of the configuration, each from the columns before it.        *)
Formatted(source, fields) ==
  FoldLeft(LAMBDA f, format : [f EXCEPT ![format[1]] = f[format[2]]], fields, source.formats)

(* _LDAPConfig.attributes: what the server is asked for, then the first    *)
(* value of each (_LDAPResultFormatter.format_one_result).                 *)
Attributes(source) ==
  IF source.formats = <<>> THEN Columns ELSE {format[2] : format \in Range(source.formats)}

LdapFields(source, contact) ==
  [k \in Columns |-> IF k \in Attributes(source) /\ contact.fields[k] # <<>>
                     THEN <<contact.fields[k][1]>> ELSE <<>>]

(* The columns the plugin compares: those of the result for the plugins    *)
(* that filter results, those of the directory for the others.             *)
Fields(source, contact) ==
  CASE source.kind = "wazo" -> Formatted(source, contact.fields)
    [] source.kind = "ldap" -> Formatted(source, LdapFields(source, contact))
    [] OTHER -> contact.fields

Exact(fields, columns, term) == \E k \in Range(columns) : term \in Range(fields[k])
Insensitive(fields, columns, term) ==
  \E k \in Range(columns) : \E v \in Range(fields[k]) : Lower[v] = Lower[term]
Holds(fields, columns, term, Fold(_)) ==
  \E k \in Range(columns) : \E v \in Range(fields[k]) : <<Fold(term), Fold(v)>> \in Within

LowerCase(t) == Lower[t]
Unaccented(t) == Plain[Lower[t]]

(***************************************************************************)
(* The directory as the plugin gets it.                                    *)
(***************************************************************************)
(* _LDAPConfig.build_*_filter: the custom filter and the one generated from *)
(* the columns, each when there is one; without any every entry matches.   *)
LdapCustomFilter(source, contact, term) == source.custom => <<term, contact.id>> \in Filter

LdapSearchFilter(source, contact, term) ==
  /\ LdapCustomFilter(source, contact, term)
  /\ source.searched # <<>> => Holds(contact.fields, source.searched, term, LowerCase)

LdapFirstMatchFilter(source, contact, exten) ==
  /\ LdapCustomFilter(source, contact, exten)
  /\ source.matched # <<>> => Insensitive(contact.fields, source.matched, exten)

(* GoogleService._fetch reads one page and never asks for the next.        *)
AtMost(n, contacts) == SubSeq(contacts, 1, IF n < Len(contacts) THEN n ELSE Len(contacts))
FirstPage(contacts) == AtMost(PageSize, contacts)

(* conferences.list, the whole file, the whole address book.               *)
Directory(source, directory) ==
  IF source.kind = "google" THEN FirstPage(directory) ELSE directory

(***************************************************************************)
(* search(term): the set of the contacts found.                            *)
(***************************************************************************)
CsvFinds(source, contact, term) == Holds(contact.fields, source.searched, term, LowerCase)
PhonebookFinds(source, contact, term) == Holds(contact.fields, source.searched, term, LowerCase)
GoogleFinds(source, contact, term) == Holds(contact.fields, source.searched, term, LowerCase)
OfficeFinds(source, contact, term) == Holds(contact.fields, source.searched, term, LowerCase)
ConferenceFinds(source, contact, term) == Holds(contact.fields, source.searched, term, Unaccented)
PersonalFinds(source, contact, term) == Holds(contact.fields, source.searched, term, Unaccented)
WazoFinds(source, contact, term) ==
  Holds(Formatted(source, contact.fields), source.searched, term, Unaccented)
(* The answer of the web service (external) to the columns as parameters.   *)
CsvWsFinds(source, contact, term) ==
  source.searched # <<>> => Holds(contact.fields, source.searched, term, LowerCase)
LdapFinds(source, contact, term) == LdapSearchFilter(source, contact, term)

Finds(source, contact, term) ==
  CASE source.kind = "csv" -> CsvFinds(source, contact, term)
    [] source.kind = "csv_ws" -> CsvWsFinds(source, contact, term)
    [] source.kind = "wazo" -> WazoFinds(source, contact, term)
    [] source.kind = "conference" -> ConferenceFinds(source, contact, term)
    [] source.kind = "phonebook" -> PhonebookFinds(source, contact, term)
    [] source.kind = "personal" -> PersonalFinds(source, contact, term)
    [] source.kind = "ldap" -> LdapFinds(source, contact, term)
    [] source.kind = "google" -> GoogleFinds(source, contact, term)
    [] source.kind = "office365" -> OfficeFinds(source, contact, term)

(* The answer of confd and of the People API to the term, before the plugin *)
(* filters it (external): what holds it in any column.                     *)
Offered(source, contact, term) ==
  source.kind \in {"wazo", "google"} =>
    \E k \in Columns : \E v \in Range(contact.fields[k]) :
      <<Unaccented(term), Unaccented(v)>> \in Within

Search(source, directory, term) ==
  LET offered == SelectSeq(directory, LAMBDA contact : Offered(source, contact, term))
      answered == IF source.kind = "google" THEN AtMost(SearchSize, offered) ELSE offered
  IN {contact \in Range(answered) : Finds(source, contact, term)}

(***************************************************************************)
(* first_match(exten): a contact or None.                                  *)
(***************************************************************************)
CsvMatches(source, contact, exten) == Exact(contact.fields, source.matched, exten)
CsvWsMatches(source, contact, exten) == Exact(contact.fields, source.matched, exten)
PersonalMatches(source, contact, exten) == Exact(contact.fields, source.matched, exten)
WazoMatches(source, contact, exten) ==
  /\ Offered(source, contact, exten)
  /\ Exact(Formatted(source, contact.fields), source.matched, exten)
PhonebookMatches(source, contact, exten) == Insensitive(contact.fields, source.matched, exten)
ConferenceMatches(source, contact, exten) == Insensitive(contact.fields, source.matched, exten)
GoogleMatches(source, contact, exten) == Insensitive(contact.fields, source.matched, exten)
OfficeMatches(source, contact, exten) == Insensitive(contact.fields, source.matched, exten)
LdapMatches(source, contact, exten) == LdapFirstMatchFilter(source, contact, exten)

Matches(source, contact, exten) ==
  CASE source.kind = "csv" -> CsvMatches(source, contact, exten)
    [] source.kind = "csv_ws" -> CsvWsMatches(source, contact, exten)
    [] source.kind = "wazo" -> WazoMatches(source, contact, exten)
    [] source.kind = "conference" -> ConferenceMatches(source, contact, exten)
    [] source.kind = "phonebook" -> PhonebookMatches(source, contact, exten)
    [] source.kind = "personal" -> PersonalMatches(source, contact, exten)
    [] source.kind = "ldap" -> LdapMatches(source, contact, exten)
    [] source.kind = "google" -> GoogleMatches(source, contact, exten)
    [] source.kind = "office365" -> OfficeMatches(source, contact, exten)

Hits(source, directory, exten) ==
  SelectSeq(Directory(source, directory), LAMBDA contact : Matches(source, contact, exten))

FirstHit(hits) == {hits[1]}
AnyHit(hits) == Range(hits)                                          \* LIMIT 1
OnlyHit(hits) == IF Len(hits) = 1 THEN {hits[1]} ELSE {None}         \* sizelimit=1

FirstMatchAnswers(source, directory, exten) ==
  LET hits == Hits(source, directory, exten)
  IN CASE hits = <<>> -> {None}
       [] hits # <<>> /\ source.kind \in {"phonebook", "personal"} -> AnyHit(hits)
       [] hits # <<>> /\ source.kind = "ldap" -> OnlyHit(hits)
       [] OTHER -> FirstHit(hits)

(***************************************************************************)
(* match_all(extens): a function from the extens found to a contact.       *)
(***************************************************************************)
(* BaseSourcePlugin.match_all.                                              *)
ByFirstMatch(source, directory, extens) ==
  LET First(e) == CHOOSE c \in FirstMatchAnswers(source, directory, e) : TRUE
  IN [e \in {e \in Range(extens) : First(e) # None} |-> First(e)]

(* results[term] = contact, for every contact that matches: the last stays. *)
LastOf(hits) == hits[Len(hits)]

ByLastMatch(source, directory, extens) ==
  [e \in {e \in Range(extens) : Hits(source, directory, e) # <<>>} |->
     LastOf(Hits(source, directory, e))]

(* The contacts that are compared column by column: one request to confd    *)
(* for each column (external), one search of the LDAP server for all.      *)
Served(source, contact, column, extens) ==
  IF source.kind = "wazo"
  THEN Range(contact.fields[column]) \cap Range(extens) # {}
  ELSE \E e \in Range(extens) : Matches(source, contact, e)

ColumnHits(source, directory, extens, exten) ==
  LET Hit(contact, k) == /\ Served(source, contact, k, extens)
                         /\ Exact(Fields(source, contact), <<k>>, exten)
  IN FlattenSeq([i \in DOMAIN source.matched |->
       SelectSeq(directory, LAMBDA contact : Hit(contact, source.matched[i]))])

ByColumn(source, directory, extens) ==
  LET Found(e) == ColumnHits(source, directory, extens, e)
  IN [e \in {e \in Range(extens) : Found(e) # <<>>} |-> LastOf(Found(e))]

(* WazoUserPlugin.match_all: by column only when confd filters by each of   *)
(* them and it saves requests.                                             *)
WazoMatchAll(source, directory, extens) ==
  IF Range(source.matched) \subseteq Filterable /\ Len(extens) >= Len(source.matched)
  THEN ByColumn(source, directory, extens)
  ELSE ByFirstMatch(source, directory, extens)

(* build_exten_contact_map: the first of the rows with the exten, in the    *)
(* order of the rows, which are those of the contacts with an exten.       *)
ExtenMapAnswers(source, directory, extens) ==
  LET Holders(e) == {c \in Range(directory) : Exact(c.fields, source.matched, e)}
      found == {e \in Range(extens) : Holders(e) # {}}
  IN {m \in [found -> Range(directory)] : \A e \in found : m[e] \in Holders(e)}

ConferenceMatchAll(source, directory, extens) == ByLastMatch(source, directory, extens)
GoogleMatchAll(source, directory, extens) == ByLastMatch(source, directory, extens)
OfficeMatchAll(source, directory, extens) == ByLastMatch(source, directory, extens)
LdapMatchAll(source, directory, extens) == ByColumn(source, directory, extens)

PhonebookMatchAll(source, directory, extens) == ExtenMapAnswers(source, directory, extens)
PersonalMatchAll(source, directory, extens) == ExtenMapAnswers(source, directory, extens)

MatchAllAnswers(source, directory, extens) ==
  CASE source.kind \in {"csv", "csv_ws"} -> {ByFirstMatch(source, directory, extens)}
    [] source.kind = "phonebook" -> PhonebookMatchAll(source, directory, extens)
    [] source.kind = "personal" -> PersonalMatchAll(source, directory, extens)
    [] source.kind = "conference" -> {ConferenceMatchAll(source, directory, extens)}
    [] source.kind = "google" -> {GoogleMatchAll(source, directory, extens)}
    [] source.kind = "office365" -> {OfficeMatchAll(source, directory, extens)}
    [] source.kind = "wazo" -> {WazoMatchAll(source, directory, extens)}
    [] source.kind = "ldap" -> {LdapMatchAll(source, directory, extens)}

(***************************************************************************)
(* The identifier of a result (relations.source_entry_id, taken before the  *)
(* columns are formatted) and list(ids).  source.unique says whether a     *)
(* unique column is configured, source.hidesId whether a format column     *)
(* replaces it; a Google contact without a name has no identifier.         *)
(***************************************************************************)
(* Mutant: the identifier is taken after the columns are formatted.         *)
FormattedId(source, contact) ==
  IF ~source.unique \/ source.hidesId THEN NoId - 1 ELSE contact.id

EntryId(source, contact) == IF source.unique THEN contact.id ELSE None

GoogleLists(contact, ids) == contact.id \in ids /\ contact.id # NoId      \* None is not "None"
WazoLists(source, contact, ids) == contact.id \in ids /\ ~source.hidesId  \* once formatted
IdIsListed(contact, ids) == contact.id \in ids

Listed(source, contact, ids) ==
  CASE source.kind = "google" -> GoogleLists(contact, ids)
    [] source.kind = "wazo" -> WazoLists(source, contact, ids)
    [] OTHER -> IdIsListed(contact, ids)

List(source, directory, ids) ==
  {c \in Range(Directory(source, directory)) : source.unique /\ Listed(source, c, ids)}
=============================================================================
