--------------------------------- MODULE Views ---------------------------------
(***************************************************************************)
(* The views of the HTTP API: the calls each one makes, in order, what each *)
(* call may raise, which of them commit a change, and the status that the   *)
(* view and its resource class make of an error.                           *)
(***************************************************************************)
EXTENDS Naturals, Sequences, TLC

CONSTANTS None

VARIABLES
  view,     \* the route that handles the request
  step,     \* calls that returned
  changed,  \* the request committed a change
  raised,   \* the error a call raised
  status    \* of the response

viewsVars == <<view, step, changed, raised, status>>

To(code, names) == [n \in names |-> code]

(***************************************************************************)
(* The calls.                                                              *)
(***************************************************************************)
Db == {"DatabaseServiceUnavailable"}

Check(errors) == [raises |-> errors, writes |-> FALSE]
Read(errors) == [raises |-> errors \cup Db, writes |-> FALSE]
Write(errors) == [raises |-> errors \cup Db, writes |-> TRUE]

VerifyToken == Check({"Unauthorized", "AuthServerUnreachable"})
TokenInfos == Check({"AuthHTTPError"})
CallingUser == Check({"AuthHTTPError", "TokenWithoutUser"})
OneTenant == Check({"UnknownTenant"})
VisibleTenants == Check({"UnknownTenant", "AuthHTTPError"})
NamedTenant == Check({"UnknownTenant", "AuthHTTPError", "NoSuchTenant"})
MasterTenant == Check({"MasterTenantNotInitiated", "Unauthorized"})
SchemaLoad == Check({"ValidationError"})
ParseArgs == Check({"BadRequest"})
ArgParser == Check({"InvalidArgument"})
JsonBody == Check({"BadRequest"})
Publish == Check({"BusError"})
ReadAll == Read({})
LoadSources == Read({})  \* source_manager.get of a source that is not cached

(* The row of the user is added by the first of the requests that need it.  *)
WithUserRow(errors) == Write(errors \cup {"IntegrityError"})

CreateContact == Write({"InvalidContact", "NoSuchPhonebook", "DuplicatedContact", "ContactCreationError"})
EditContact == Write({"InvalidContact", "NoSuchPhonebook", "NoSuchContact", "DuplicatedContact", "ContactUpdateError"})
DeleteContact == Write({"NoSuchPhonebook", "NoSuchContact"})
GetContact == Read({"NoSuchPhonebook", "NoSuchContact"})
ListContacts == Read({"NoSuchPhonebook"})
CreatePhonebook == Write({"InvalidPhonebook", "DuplicatedPhonebook", "PhonebookCreationError"})
EditPhonebook == Write({"InvalidPhonebook", "NoSuchPhonebook", "DuplicatedPhonebook", "PhonebookUpdateError"})
DeletePhonebook == Write({"NoSuchPhonebook"})
GetPhonebook == Read({"NoSuchPhonebook"})

(* One contact that is not valid fails the import before it writes; so does *)
(* one the database refuses, whose error ends the transaction of them all. *)
ImportContacts == Write({"BadContacts", "NoSuchPhonebook", "ContactCreationError"})

ProfileByName == Read({"NoSuchProfile"})
GetSource == Read({"NoSuchSource"})

(***************************************************************************)
(* The routes of a class: <<operation, calls after the token is verified,   *)
(* status of success>>; errors is what the view maps itself.                *)
(***************************************************************************)
Routes(api, errors, routes) ==
  {[api |-> api, op |-> r[1], calls |-> <<VerifyToken>> \o r[2], success |-> r[3],
    errors |-> errors] : r \in routes}

PhonebookContactAll ==
  Routes("new",
    To(400, {"InvalidArgument", "InvalidContact"}) @@ To(404, {"NoSuchPhonebook", "NoSuchTenant"})
      @@ To(503, Db) @@ To(409, {"DuplicatedContact"}),
    {<<"contacts.create", <<OneTenant, JsonBody, CreateContact>>, 201>>,
     <<"contacts.list", <<SchemaLoad, OneTenant, ListContacts, ListContacts>>, 200>>})

PhonebookAll ==
  Routes("new",
    To(400, {"InvalidArgument", "InvalidPhonebook"}) @@ To(409, {"DuplicatedPhonebook"})
      @@ To(503, Db) @@ To(404, {"NoSuchTenant"}),
    {<<"phonebooks.list", <<SchemaLoad, VisibleTenants, ReadAll, ReadAll>>, 200>>,
     <<"phonebooks.create", <<OneTenant, JsonBody, CreatePhonebook>>, 201>>})

(* What is not a charset, or not one of text, is a LookupError.             *)
Decode == Check({"UnknownCharset", "NotTextCharset", "UnicodeDecodeError"})

(* Mutant: a file that is stored as it is read.                             *)
PhonebookContactImportByLine ==
  Routes("new", To(404, {"NoSuchTenant", "NoSuchPhonebook"}),
    {<<"contacts.import", <<OneTenant, ImportContacts, Check({"CsvError"})>>, 201>>})

(* The csv module may refuse the header, read outside of the try, as it may *)
(* any other line.                                                         *)
PhonebookContactImport ==
  Routes("new", To(404, {"NoSuchTenant", "NoSuchPhonebook"}),
    {<<"contacts.import",
       <<OneTenant, Decode, Check({"HeaderCsvError", "DuplicateColumns"}), Check({"CsvError"}),
         Check({"EmptyFile"}), ImportContacts>>, 201>>})

PhonebookContactOne ==
  Routes("new",
    To(409, {"DuplicatedContact"}) @@ To(400, {"InvalidContact"}) @@ To(503, Db)
      @@ To(404, {"NoSuchContact", "NoSuchPhonebook", "NoSuchTenant"}),
    {<<"contact.get", <<OneTenant, GetContact>>, 200>>,
     <<"contact.delete", <<OneTenant, DeleteContact>>, 204>>,
     <<"contact.edit", <<OneTenant, JsonBody, EditContact>>, 200>>})

PhonebookOne ==
  Routes("new",
    To(503, Db) @@ To(409, {"DuplicatedPhonebook"}) @@ To(400, {"InvalidPhonebook"})
      @@ To(404, {"NoSuchPhonebook", "NoSuchTenant"}),
    {<<"phonebook.delete", <<OneTenant, DeletePhonebook>>, 204>>,
     <<"phonebook.get", <<OneTenant, GetPhonebook>>, 200>>,
     <<"phonebook.edit", <<OneTenant, JsonBody, EditPhonebook>>, 200>>})

DeprecatedPhonebookContactAll ==
  Routes("deprecated",
    To(400, {"InvalidArgument", "InvalidContact"}) @@ To(404, {"NoSuchPhonebook", "NoSuchTenant"})
      @@ To(503, Db) @@ To(409, {"DuplicatedContact"}),
    {<<"contacts.create", <<NamedTenant, JsonBody, CreateContact>>, 201>>,
     <<"contacts.list", <<ArgParser, NamedTenant, ListContacts, ListContacts>>, 200>>})

DeprecatedPhonebookAll ==
  Routes("deprecated",
    To(400, {"InvalidArgument", "InvalidPhonebook"}) @@ To(409, {"DuplicatedPhonebook"})
      @@ To(503, Db) @@ To(404, {"NoSuchTenant"}),
    {<<"phonebooks.list", <<NamedTenant, ArgParser, ReadAll, ReadAll>>, 200>>,
     <<"phonebooks.create", <<NamedTenant, JsonBody, CreatePhonebook>>, 201>>})

(* What is wrong with the file is answered 400; contacts that are not valid *)
(* are listed in an answer of success.                                     *)
DeprecatedPhonebookContactImport ==
  Routes("deprecated",
    To(404, {"NoSuchTenant", "NoSuchPhonebook"}) @@ To(400, {"UnknownCharset", "DuplicateColumns"})
      @@ To(200, {"BadContacts"}),
    {<<"contacts.import",
       <<NamedTenant, Decode, Check({"HeaderCsvError", "DuplicateColumns"}), Check({"CsvError"}),
         ImportContacts>>, 200>>})

DeprecatedPhonebookContactOne ==
  Routes("deprecated",
    To(409, {"DuplicatedContact"}) @@ To(400, {"InvalidContact"}) @@ To(503, Db)
      @@ To(404, {"NoSuchContact", "NoSuchPhonebook", "NoSuchTenant"}),
    {<<"contact.get", <<NamedTenant, GetContact>>, 200>>,
     <<"contact.delete", <<NamedTenant, DeleteContact>>, 204>>,
     <<"contact.edit", <<NamedTenant, JsonBody, EditContact>>, 200>>})

DeprecatedPhonebookOne ==
  Routes("deprecated",
    To(503, Db) @@ To(409, {"DuplicatedPhonebook"}) @@ To(400, {"InvalidPhonebook"})
      @@ To(404, {"NoSuchPhonebook", "NoSuchTenant"}),
    {<<"phonebook.delete", <<NamedTenant, DeletePhonebook>>, 204>>,
     <<"phonebook.get", <<NamedTenant, GetPhonebook>>, 200>>,
     <<"phonebook.edit", <<NamedTenant, JsonBody, EditPhonebook>>, 200>>})

(* The directory views: a profile is found by its name in the tenant of the *)
(* request.                                                                *)
Lookup ==
  Routes("legacy", To(404, {"NoSuchProfile"}),
    {<<"lookup", <<ParseArgs, OneTenant, ProfileByName, TokenInfos, LoadSources, ReadAll>>, 200>>})

LookupByUUID ==
  Routes("new", To(404, {"NoSuchProfile"}),
    {<<"lookup by uuid", <<ParseArgs, OneTenant, ProfileByName, LoadSources, ReadAll>>, 200>>})

Reverse ==
  Routes("legacy", To(404, {"NoSuchProfile"}),
    {<<"reverse", <<ParseArgs, OneTenant, ProfileByName, LoadSources>>, 200>>})

Headers ==
  Routes("legacy", To(404, {"NoSuchProfile"}), {<<"headers", <<OneTenant, ProfileByName>>, 200>>})

ProfileSources ==
  Routes("new", To(404, {"NoSuchProfile"}),
    {<<"profile sources", <<SchemaLoad, OneTenant, ProfileByName>>, 200>>})

FavoritesRead ==
  Routes("legacy", To(404, {"NoSuchProfile", "FavoritesNotConfigured"}),
    {<<"favorites.list",
       <<OneTenant, ProfileByName, TokenInfos, Check({"FavoritesNotConfigured"}), ReadAll, LoadSources>>, 200>>})

(* The source that the service found may be deleted before the transaction  *)
(* looks for it again; the event is published once the favorite is stored.  *)
FavoritesWrite ==
  Routes("legacy",
    To(409, {"DuplicatedFavorite"}) @@ To(404, {"NoSuchFavorite", "SourceNotAvailable"}),
    {<<"favorites.add",
       <<TokenInfos, OneTenant, Read({"SourceNotAvailable"}),
         WithUserRow({"DuplicatedFavorite", "SourceGone"}), Publish>>, 204>>,
     <<"favorites.remove",
       <<TokenInfos, OneTenant, Read({"SourceNotAvailable"}),
         Write({"NoSuchFavorite"}), Publish>>, 204>>})

Personal ==
  Routes("legacy", To(404, {"NoSuchProfile"}),
    {<<"personal", <<TokenInfos, OneTenant, ProfileByName, ReadAll, LoadSources, Check({"SourceNotLoaded"}), ReadAll>>, 200>>})

(* A list asked as CSV that would be empty has no content.                  *)
PersonalAll ==
  Routes("legacy",
    To(400, {"InvalidPersonalContact", "BadListParameter"}) @@ To(409, {"DuplicatedContact"}),
    {<<"personal.create",
       <<CallingUser, OneTenant, JsonBody,
         WithUserRow({"InvalidPersonalContact", "DuplicatedContact"})>>, 201>>,
     <<"personal.list", <<CallingUser, Read({"BadListParameter"})>>, 200>>,
     <<"personal.list", <<CallingUser, Read({"BadListParameter"})>>, 204>>,
     <<"personal.purge", <<CallingUser, Write({})>>, 204>>})

PersonalOne ==
  Routes("legacy",
    To(404, {"NoSuchContact"}) @@ To(400, {"InvalidPersonalContact"}) @@ To(409, {"DuplicatedContact"}),
    {<<"personal.get", <<CallingUser, Read({"NoSuchContact"})>>, 200>>,
     <<"personal.edit",
       <<CallingUser, OneTenant, JsonBody,
         WithUserRow({"NoSuchContact", "InvalidPersonalContact", "DuplicatedContact"})>>, 200>>,
     <<"personal.remove", <<CallingUser, Write({"NoSuchContact"})>>, 204>>})

(* The contacts there are, then the lines of the file, header included, and *)
(* only then the insertions: of none, the answer is an error.              *)
PersonalImport ==
  Routes("legacy", To(400, {"UnicodeDecodeError", "NothingCreated"}),
    {<<"personal.import",
       <<CallingUser, OneTenant, Decode, ReadAll, Check({"HeaderCsvError", "CsvError"}),
         WithUserRow({"NothingCreated"})>>, 201>>})

(* The administration of displays, profiles and sources.                    *)
Lists(tenants) == <<SchemaLoad, tenants, ReadAll, ReadAll, ReadAll>>

Displays ==
  Routes("new", <<>>,
    {<<"displays.list", Lists(VisibleTenants), 200>>,
     <<"displays.create", <<OneTenant, JsonBody, SchemaLoad, Write({})>>, 201>>,
     <<"display.delete", <<VisibleTenants, Write({"NoSuchDisplay"})>>, 204>>,
     <<"display.get", <<VisibleTenants, Read({"NoSuchDisplay"})>>, 200>>,
     <<"display.edit",
       <<VisibleTenants, JsonBody, SchemaLoad, Write({"NoSuchDisplay", "IntegrityError"})>>, 204>>})

(* A display or a source that the body names and that is not there is an     *)
(* error of the body: the service answers 400.                              *)
ProfileErrors == To(400, {"NoSuchDisplay", "NoSuchSource"})

Profiles ==
  Routes("new", ProfileErrors,
    {<<"profiles.list", Lists(VisibleTenants), 200>>,
     <<"profiles.create",
       <<OneTenant, JsonBody, SchemaLoad,
         Write({"NoSuchDisplay", "NoSuchSource", "DuplicatedProfile", "IntegrityError"})>>, 201>>,
     <<"profile.delete", <<VisibleTenants, Write({"NoSuchProfileAPI"})>>, 204>>,
     <<"profile.get", <<VisibleTenants, Read({"NoSuchProfileAPI"})>>, 200>>,
     <<"profile.edit",
       <<VisibleTenants, JsonBody, SchemaLoad,
         Write({"NoSuchProfileAPI", "NoSuchDisplay", "NoSuchSource", "DuplicatedProfile",
                "IntegrityError"})>>, 204>>})

Sources == Routes("new", <<>>, {<<"sources.list", Lists(VisibleTenants), 200>>})

SourceList ==
  Routes("new", To(400, {"InvalidSourceConfig"}),
    {<<"backend.sources.list", Lists(VisibleTenants), 200>>,
     <<"backend.sources.create",
       <<OneTenant, JsonBody, SchemaLoad, Write({"DuplicatedSource", "InvalidSourceConfig"})>>, 200>>})

SourceItem ==
  Routes("new", To(400, {"InvalidSourceConfig"}),
    {<<"backend.source.delete", <<VisibleTenants, Write({"NoSuchSource"})>>, 204>>,
     <<"backend.source.get", <<VisibleTenants, GetSource>>, 200>>,
     <<"backend.source.edit",
       <<VisibleTenants, JsonBody, SchemaLoad,
         Write({"NoSuchSource", "DuplicatedSource", "InvalidSourceConfig"})>>, 204>>})

PhonebookList ==
  Routes("new", To(400, {"InvalidSourceConfig"}) @@ To(404, {"NoSuchPhonebook"}),
    {<<"phonebook.sources.list", Lists(VisibleTenants), 200>>,
     <<"phonebook.sources.create",
       <<OneTenant, JsonBody, SchemaLoad,
         Write({"DuplicatedSource", "InvalidSourceConfig", "NoSuchPhonebook"})>>, 200>>})

(* A phonebook that is deleted once it was read violates the foreign key.    *)
PhonebookItem ==
  Routes("new", To(400, {"InvalidSourceConfig"}) @@ To(404, {"ForeignKeyOfPhonebook"}),
    {<<"phonebook.source.delete", <<VisibleTenants, Write({"NoSuchSource"})>>, 204>>,
     <<"phonebook.source.get", <<VisibleTenants, GetSource>>, 200>>,
     <<"phonebook.source.edit",
       <<VisibleTenants, JsonBody, SchemaLoad,
         Write({"NoSuchSource", "DuplicatedSource", "InvalidSourceConfig", "NoSuchPhonebook",
                "ForeignKeyOfPhonebook"})>>, 204>>})

(* The contacts of a source.                                                *)
PhonebookContactList ==
  Routes("new", To(404, {"NoSuchPhonebook"}),
    {<<"phonebook.contacts",
       <<OneTenant, SchemaLoad, GetSource, Check({"InvalidConfig"}), ListContacts, ListContacts,
         ListContacts>>, 200>>})

ConferenceContactList ==
  Routes("new", To(503, {"ConfdHTTPError"}),
    {<<"conference.contacts",
       <<VisibleTenants, SchemaLoad, GetSource, Check({"ConfdHTTPError"})>>, 200>>})

WazoContactList ==
  Routes("new", To(503, {"ConfdHTTPError"}),
    {<<"wazo.contacts", <<VisibleTenants, SchemaLoad, GetSource, Check({"ConfdHTTPError"})>>, 200>>})

GoogleContactList ==
  Routes("new", <<>>,
    {<<"google.contacts",
       <<OneTenant, SchemaLoad, GetSource, Check({"TokenNotFound"}),
         Check({"GoogleHTTPError"})>>, 200>>})

MicrosoftContactList ==
  Routes("new", <<>>,
    {<<"office365.contacts",
       <<OneTenant, SchemaLoad, GetSource, Check({"TokenNotFound"}),
         Check({"UnexpectedEndpoint"})>>, 200>>})

Backends == Routes("legacy", <<>>, {<<"backends", <<SchemaLoad>>, 200>>})

Config ==
  Routes("new", <<>>,
    {<<"config.get", <<MasterTenant>>, 200>>,
     <<"config.patch",
       <<MasterTenant, JsonBody, SchemaLoad, Check({"InvalidJsonPatch"}),
         [raises |-> {}, writes |-> TRUE]>>, 200>>})

Status == Routes("new", <<>>, {<<"status", <<>>, 200>>})

AllViews ==
  UNION {PhonebookContactAll, PhonebookAll, PhonebookContactImport, PhonebookContactOne, PhonebookOne,
         DeprecatedPhonebookContactAll, DeprecatedPhonebookAll, DeprecatedPhonebookContactImport,
         DeprecatedPhonebookContactOne, DeprecatedPhonebookOne,
         Lookup, LookupByUUID, Reverse, Headers, ProfileSources, FavoritesRead, FavoritesWrite,
         Personal, PersonalAll, PersonalOne, PersonalImport, Displays, Profiles, Sources,
         SourceList, SourceItem, PhonebookList, PhonebookItem, PhonebookContactList,
         ConferenceContactList, WazoContactList, GoogleContactList, MicrosoftContactList,
         Backends, Config, Status}

(***************************************************************************)
(* What is answered: the status the view maps the error to, else the status *)
(* that the error itself carries, else 500.  A schema's error is answered   *)
(* 400 by the resource class that the deprecated directory API lacks.       *)
(***************************************************************************)
ApiStatus ==
  To(400, {"BadRequest", "UnknownCharset", "DuplicateColumns", "CsvError", "EmptyFile", "BadContacts"})
  @@ To(401, {"Unauthorized", "UnknownTenant", "TokenWithoutUser"})
  @@ To(404, {"NoSuchDisplay", "NoSuchProfileAPI", "NoSuchSource", "TokenNotFound"})
  @@ To(409, {"DuplicatedProfile", "DuplicatedSource"})
  @@ To(503, {"AuthServerUnreachable", "MasterTenantNotInitiated", "UnexpectedEndpoint"})

(* The deprecated import and the personal import read the file themselves.  *)
Carried(v) ==
  IF v.api = "deprecated" \/ v.op = "personal.import"
  THEN DOMAIN ApiStatus \ {"UnknownCharset", "DuplicateColumns", "CsvError", "EmptyFile", "BadContacts"}
  ELSE DOMAIN ApiStatus

StatusOf(v, e) ==
  IF e \in DOMAIN v.errors THEN v.errors[e]
  ELSE IF e \in Carried(v) THEN ApiStatus[e]
  ELSE IF e = "ValidationError" /\ v.api # "legacy" THEN 400
  ELSE 500

(***************************************************************************)
(* A request.                                                              *)
(***************************************************************************)
ViewsInit ==
  /\ view \in AllViews
  /\ step = 0
  /\ changed = FALSE
  /\ raised = None
  /\ status = None

Call == view.calls[step + 1]

Return ==
  /\ status = None /\ step < Len(view.calls)
  /\ step' = step + 1
  /\ changed' = (changed \/ Call.writes)
  /\ UNCHANGED <<view, raised, status>>

Raise ==
  /\ status = None /\ step < Len(view.calls)
  /\ raised' \in Call.raises
  /\ status' = StatusOf(view, raised')
  /\ UNCHANGED <<view, step, changed>>

Respond ==
  /\ status = None /\ step = Len(view.calls)
  /\ status' = view.success
  /\ UNCHANGED <<view, step, changed, raised>>

ViewsNext == Return \/ Raise \/ Respond

(***************************************************************************)
(* Properties.                                                             *)
(***************************************************************************)
ViewsTypeOK ==
  /\ view \in AllViews
  /\ step \in 0 .. Len(view.calls)
  /\ changed \in BOOLEAN
  /\ status \in {None, 200, 201, 204, 400, 401, 404, 409, 500, 503}

(* The status tells the client whether its change was made: an error, that  *)
(* it was not; success, that it was.  A favorite is stored before its event *)
(* is published, and may be answered with the error of the bus; the         *)
(* deprecated import answers success for contacts it refused, all of them.  *)
AnswerTellsChange ==
  status # None =>
    /\ changed /\ status >= 400 => raised = "BusError"
    /\ ~changed /\ status < 400 =>
         \/ \A i \in DOMAIN view.calls : ~view.calls[i].writes
         \/ view.api = "deprecated" /\ raised = "BadContacts"

(* The errors that no view foresees: what the database or another service   *)
(* refuses, and what is gone between two reads of one request.             *)
Unforeseen ==
  {"AuthHTTPError", "BusError", "ContactCreationError", "ContactUpdateError", "GoogleHTTPError",
   "IntegrityError", "InvalidConfig", "InvalidJsonPatch", "PhonebookCreationError",
   "PhonebookUpdateError", "SourceGone", "SourceNotLoaded"}

PhonebookViews == {v \in AllViews : v.op \in {w.op : w \in {x \in AllViews : x.api = "deprecated"}}}

(* Every other error is answered with a status of its own, but for: a       *)
(* database that is away, which only the phonebook API answers 503, its     *)
(* imports apart; the file of an import whose charset is not one of text,   *)
(* or does not exist for the personal import, or not what the file is in,   *)
(* but for the personal import; a file whose header is not CSV, or another  *)
(* of its lines, which the phonebook API alone answers 400; a bad parameter *)
(* of the list of back-ends; and the edit of a phonebook source that names  *)
(* a phonebook of another tenant, or none.                                 *)
OnlyGapsAre500 ==
  status = 500 =>
    \/ raised \in Unforeseen
    \/ raised \in Db /\ (view \notin PhonebookViews \/ view.op = "contacts.import")
    \/ raised \in {"NotTextCharset", "HeaderCsvError"}
    \/ view.op = "contacts.import" /\ raised = "UnicodeDecodeError"
    \/ view.op = "personal.import" /\ raised = "UnknownCharset"
    \/ (view.op = "personal.import" \/ view.api = "deprecated") /\ raised = "CsvError"
    \/ view.op = "backends" /\ raised = "ValidationError"
    \/ view.op = "phonebook.source.edit" /\ raised = "NoSuchPhonebook"

(* A route of the deprecated phonebook API answers an error as the route    *)
(* that replaces it does.  The imports are apart: the deprecated one        *)
(* answers success when the contacts are not valid, and knows no empty file. *)
DeprecatedAgrees ==
  view.api = "deprecated" /\ raised # None /\ view.op # "contacts.import" =>
    \A v \in AllViews :
      /\ v.op = view.op /\ v.api = "new"
      /\ \E i \in DOMAIN v.calls : raised \in v.calls[i].raises
      => StatusOf(v, raised) = status

(* What a client may conclude from a status.                               *)
AnswersAreTrue == ViewsTypeOK /\ AnswerTellsChange /\ OnlyGapsAre500 /\ DeprecatedAgrees
=============================================================================
