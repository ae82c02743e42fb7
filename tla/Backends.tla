------------------------------- MODULE Backends -------------------------------
(***************************************************************************)
(* The back-ends.  A behaviour is about one of their parts: what is found  *)
(* in a directory (Matching), how the numbers of a contact are laid out    *)
(* (ContactFormats), or how a back-end reaches its data: the file of a CSV *)
(* source (CsvFile), the connection of an LDAP source (LdapClient), the    *)
(* pages of an address book (PagedFetch), the tables of a phonebook and of *)
(* a user (ContactSearch), the connections to the database that the        *)
(* searches of all of them take (ConnectionPool).  They share no state, so *)
(* the parts run apart.                                                    *)
(***************************************************************************)
EXTENDS Matching, ContactFormats, CsvFile, LdapClient, PagedFetch, ContactSearch, ConnectionPool

CONSTANTS
  AskedSources,       \* configurations
  AskedDirectories,
  AskedExtens,        \* sequences of extens asked at once
  AskedTerms,
  AskedPhones,        \* phones of a Google contact
  AskedContacts       \* phones of an Office 365 contact

VARIABLES
  part,
  source, directory,  \* of Matching
  phones, contact     \* of ContactFormats

asked == <<source, directory, phones, contact>>
vars == <<part, asked, csvVars, ldapVars, pagedVars, searchVars, poolVars>>

Parts == {"matching", "formats", "csv", "ldap", "fetch", "search", "pool"}

(* The parts a behaviour is not about stay in one of their initial states.  *)
Init ==
  /\ part \in Parts
  /\ IF part = "matching"
     THEN source \in AskedSources /\ directory \in AskedDirectories
     ELSE source = (CHOOSE s \in AskedSources : TRUE) /\ directory = <<>>
  /\ IF part = "formats"
     THEN phones \in AskedPhones /\ contact \in AskedContacts
     ELSE phones = <<>> /\ contact = (CHOOSE c \in AskedContacts : TRUE)
  /\ CsvInit /\ (part = "csv" \/ file.exists)
  /\ LdapInit /\ (part = "ldap" \/ serverUp)
  /\ PagedInit /\ (part = "fetch" \/ book = <<>>)
  /\ SearchInit /\ (part = "search" \/ table = [c \in Contacts |-> Gone])
  /\ PoolInit /\ (part = "pool" \/ executor = [r \in Requests |-> CHOOSE e \in Executors : TRUE])

Csv ==
  /\ part = "csv" /\ CsvNext
  /\ UNCHANGED <<part, asked, ldapVars, pagedVars, searchVars, poolVars>>
Ldap ==
  /\ part = "ldap" /\ LdapNext
  /\ UNCHANGED <<part, asked, csvVars, pagedVars, searchVars, poolVars>>
Fetch ==
  /\ part = "fetch" /\ PagedNext
  /\ UNCHANGED <<part, asked, csvVars, ldapVars, searchVars, poolVars>>
Contact ==
  /\ part = "search" /\ SearchNext
  /\ UNCHANGED <<part, asked, csvVars, ldapVars, pagedVars, poolVars>>
Pool ==
  /\ part = "pool" /\ PoolNext
  /\ UNCHANGED <<part, asked, csvVars, ldapVars, pagedVars, searchVars>>

Next == Csv \/ Ldap \/ Fetch \/ Contact \/ Pool

Spec == Init /\ [][Next]_vars

(* Threads and workers go on whenever they can: no timeout of a checkout,   *)
(* and none of a profile, has to help.                                     *)
GoesOn(r) ==
  /\ part = "pool" /\ Progress(r)
  /\ UNCHANGED <<part, asked, csvVars, ldapVars, pagedVars, searchVars>>

FairSpec == Spec /\ \A r \in Requests : WF_vars(GoesOn(r))

(***************************************************************************)
(* Properties of what is found.                                            *)
(***************************************************************************)
(* What match_all answers for an exten is a contact that first_match could *)
(* have answered, or one it would have found next (match_all of every      *)
(* plugin, the default of base_plugins.py included).  LDAP sources with a   *)
(* custom filter or formatted columns are apart: match_all compares the     *)
(* formatted columns of all the entries of one request.                    *)
BatchAnswersMatch ==
  (source.kind = "ldap" => ~source.custom /\ source.formats = <<>>) =>
    \A extens \in AskedExtens : \A found \in MatchAllAnswers(source, directory, extens) :
      \A e \in DOMAIN found : found[e] \in Range(Hits(source, directory, e))

(* match_all misses no exten that first_match resolves.                    *)
CaseFolds(s) == s.kind \in {"ldap", "phonebook"}

BatchIsComplete ==
  ~CaseFolds(source) =>
    \A extens \in AskedExtens : \A found \in MatchAllAnswers(source, directory, extens) :
      \A e \in Range(extens) :
        e \notin DOMAIN found => None \in FirstMatchAnswers(source, directory, e)

(* A contact that a search shows with an identifier can be made a favorite  *)
(* and listed: list() of that identifier answers it.  A Google contact     *)
(* beyond the first page of the address book is apart, and so is a source  *)
(* of Wazo users whose format columns replace the identifier.              *)
FavoriteIsListed ==
  ~(source.kind = "wazo" /\ source.hidesId) =>
    \A term \in AskedTerms : \A c \in Search(source, directory, term) :
      LET id == EntryId(source, c)
      IN id \notin {None, NoId} /\ c \in Range(Directory(source, directory)) =>
           c \in List(source, directory, {id})

(* A number that a reverse lookup resolves in a column that is searched is *)
(* found by a lookup of that number too.                                   *)
ReverseIsSearched ==
  Range(source.matched) \subseteq Range(source.searched) =>
    \A e \in UNION {Range(extens) : extens \in AskedExtens} :
      \A c \in FirstMatchAnswers(source, directory, e) \ {None} :
        c \in Search(source, directory, e)

(* The numbers of a contact, those of one label and those of the others:    *)
(* none is lost or counted twice.                                          *)
NumbersAreKept == GoogleNumbersAreKept(phones) /\ OfficeNumbersAreKept(contact)

(* The four ways a back-end is asked for a contact (search, first_match,    *)
(* match_all and list) agree.                                              *)
AnswersAgree ==
  /\ BatchAnswersMatch /\ BatchIsComplete /\ FavoriteIsListed /\ ReverseIsSearched
  /\ NumbersAreKept

(* A fetch or a search of several queries or requests has what did not       *)
(* change meanwhile, all of it.                                            *)
FetchesAreWhole ==
  /\ PagedTypeOK /\ FetchedWholeOrNotAtAll
  /\ SearchTypeOK /\ SearchIsExact /\ FirstMatchMissesOnlyADeletedOne /\ CountsFitTheList
=============================================================================
