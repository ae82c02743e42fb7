------------------------------ MODULE PagedFetch ------------------------------
(***************************************************************************)
(* How the address books of Office 365 and Google are fetched              *)
(* (office365_backend/services.py and plugin.py, google_backend/services.py *)
(* and plugin.py): a token of the external service is asked of wazo-auth,  *)
(* then Office365Service counts the contacts and follows the pages, and    *)
(* GoogleService reads one page.  No request has a timeout.  The plugins   *)
(* turn an error into an empty answer, the views (http.py) into an error   *)
(* of their own.  Meanwhile the user edits the address book.               *)
(***************************************************************************)
EXTENDS Integers, SequencesExt

CONSTANTS
  Persons,       \* contacts of the address book
  ServerPage,    \* how many contacts the server puts in a page at most
  MaxBookEdits   \* bound: how many times the address book changes

ASSUME PagedAssumption == ServerPage \in Nat \ {0} /\ MaxBookEdits \in Nat

VARIABLES
  book,          \* the address book: a sequence of contacts
  bookEdits,
  service,       \* "office365" or "google"
  caller,        \* "plugin" or "view"
  fetchPc,
  top,           \* @odata.count, asked back as $top
  fetched,       \* the contacts of the pages so far
  next,          \* where @odata.nextLink points, 0 when there is none
  outcome,       \* "none", "contacts", "empty" or "error"
  changed,       \* history: the address book changed since the fetch began
  failed         \* history: a request of the fetch failed

pagedVars == <<book, bookEdits, service, caller, fetchPc, top, fetched, next, outcome, changed, failed>>

PagedTypeOK ==
  /\ book \in Seq(Persons) /\ fetched \in Seq(Persons)
  /\ bookEdits \in 0 .. MaxBookEdits
  /\ service \in {"office365", "google"} /\ caller \in {"plugin", "view"}
  /\ fetchPc \in {"idle", "token", "count", "pages"}
  /\ top \in Nat /\ next \in Nat
  /\ outcome \in {"none", "contacts", "empty", "error"}
  /\ changed \in BOOLEAN /\ failed \in BOOLEAN

PagedInit ==
  /\ book \in UNION {[1 .. n -> Persons] : n \in 0 .. 3}
  /\ IsInjective(book)
  /\ bookEdits = 0
  /\ service = "office365" /\ caller = "plugin"
  /\ fetchPc = "idle"
  /\ top = 0 /\ fetched = <<>> /\ next = 0
  /\ outcome = "none" /\ changed = FALSE /\ failed = FALSE

(* The user adds a contact, or removes one (external).                      *)
EditBook ==
  /\ bookEdits < MaxBookEdits
  /\ bookEdits' = bookEdits + 1
  /\ \/ \E p \in Persons \ Range(book) : book' \in {<<p>> \o book, Append(book, p)}
     \/ \E i \in DOMAIN book : book' = RemoveAt(book, i)
  /\ changed' = TRUE
  /\ UNCHANGED <<service, caller, fetchPc, top, fetched, next, outcome, failed>>

BeginFetch ==
  /\ fetchPc = "idle"
  /\ service' \in {"office365", "google"}
  /\ caller' \in {"plugin", "view"}
  /\ fetchPc' = "token"
  /\ top' = 0 /\ fetched' = <<>> /\ next' = 0
  /\ outcome' = "none" /\ changed' = FALSE /\ failed' = FALSE
  /\ UNCHANGED <<book, bookEdits>>

Finish(result) == fetchPc' = "idle" /\ outcome' = result

(* The plugin answers with nothing, the view with an error.                 *)
GiveUp ==
  /\ Finish(IF caller = "plugin" THEN "empty" ELSE "error")
  /\ failed' = TRUE

(* get_microsoft_access_token, get_google_access_token: a missing token and *)
(* an error of wazo-auth raise; any other error of requests falls through  *)
(* and gives None, which all callers but the view of Office 365 check: it  *)
(* goes on with a token that Microsoft refuses.                            *)
GetToken ==
  /\ fetchPc = "token"
  /\ \/ fetchPc' = "count" /\ UNCHANGED <<outcome, failed>>
     \/ GiveUp
  /\ UNCHANGED <<book, bookEdits, service, caller, top, fetched, next, changed>>

(* _get_total_contacts; nothing is fetched of an empty address book.        *)
Count ==
  /\ fetchPc = "count"
  /\ service = "office365"
  /\ top' = Len(book)
  /\ next' = 1
  /\ IF book = <<>> THEN Finish("contacts") ELSE fetchPc' = "pages" /\ UNCHANGED outcome
  /\ UNCHANGED <<book, bookEdits, service, caller, fetched, changed, failed>>

PageOf(first, size) ==
  SubSeq(book, first, IF first + size - 1 < Len(book) THEN first + size - 1 ELSE Len(book))
PageLength == IF top < ServerPage THEN top ELSE ServerPage

(* @odata.nextLink: the server skips what it has sent.                      *)
NextLink(first) == IF first + PageLength <= Len(book) THEN first + PageLength ELSE 0

(* _fetch: the first page, or the one of @odata.nextLink.                   *)
FetchPage ==
  /\ fetchPc = "pages"
  /\ fetched' = fetched \o PageOf(next, PageLength)
  /\ next' = NextLink(next)
  /\ IF next' = 0 THEN Finish("contacts") ELSE UNCHANGED <<fetchPc, outcome>>
  /\ UNCHANGED <<book, bookEdits, service, caller, top, changed, failed>>

(* Mutant: the pages that were read are returned.                          *)
KeepPages == Finish("contacts") /\ failed' = TRUE

DropPages == GiveUp

(* A status other than 200, or no answer (UnexpectedEndpointException).     *)
RequestFails ==
  /\ fetchPc \in {"count", "pages"}
  /\ service = "office365"
  /\ DropPages
  /\ UNCHANGED <<book, bookEdits, service, caller, top, fetched, next, changed>>

(* GoogleService._fetch without a term: an answer that is not 200 is an     *)
(* empty address book, for the view too; an exception of requests is not   *)
(* caught, and the executor of the services logs it.                       *)
FetchGoogle ==
  /\ fetchPc = "count"
  /\ service = "google"
  /\ \/ /\ fetched' = PageOf(1, ServerPage)
        /\ Finish("contacts") /\ UNCHANGED failed
     \/ /\ UNCHANGED fetched /\ failed' = TRUE
        /\ Finish("empty")
     \/ UNCHANGED fetched /\ GiveUp
  /\ UNCHANGED <<book, bookEdits, service, caller, top, next, changed>>

PagedStep == GetToken \/ Count \/ FetchPage \/ RequestFails \/ FetchGoogle
PagedNext == EditBook \/ BeginFetch \/ PagedStep

(***************************************************************************)
(* Properties.                                                             *)
(***************************************************************************)
(* An address book is fetched whole or not at all: when the fetch of        *)
(* Office365Service ends with contacts they are those of the address book, *)
(* in its order and each once, unless it changed meanwhile; a request that *)
(* fails leaves no part of it (UnexpectedEndpointException).               *)
FetchedWholeOrNotAtAll ==
  outcome = "contacts" /\ service = "office365" =>
    ~failed /\ (~changed => fetched = book)
=============================================================================
