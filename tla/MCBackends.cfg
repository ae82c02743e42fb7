CONSTANTS
  Texts <- MCTexts
  Lower <- MCLower
  Plain <- MCPlain
  Within <- MCWithin
  Columns <- MCColumns
  Filterable <- MCFilterable
  Filter <- MCFilter
  PageSize = 2
  SearchSize = 2
  NoId = 0
  None = None
  NoNumber = 0
  AskedSources <- MCSources
  AskedDirectories <- MCDirectories
  AskedExtens <- MCExtens
  AskedTerms <- MCTexts
  AskedPhones <- MCPhones
  AskedContacts <- MCContacts
  Readers = {t1, t2}
  MaxVersion = 3
  Searchers = {t1, t2}
  Connections = {1, 2, 3}
  NoConnection = 0
  Nobody = Nobody
  Persons = {1, 2, 3}
  ServerPage = 2
  MaxBookEdits = 2
  Users = {t1}
  Contacts = {c1, c2}
  Values = {1, 2, 3}
  Matched = {1, 2}
  Gone = Gone
  MaxTableEdits = 2
  Requests = {r1, r2, r3}
  Executors = {lookup, reverse}
  Sources = {s1}
  MaxThreads = 2
  Spare = 0
SPECIFICATION FairSpec
INVARIANTS
  AnswersAgree
  LdapRecovers
  FetchesAreWhole
PROPERTIES
  CsvFollowsFile
  PoolSuffices
CHECK_DEADLOCK FALSE
