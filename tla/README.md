# newswatch: a verification project

newswatch is a C++ program (2008; Boost, SQLite, TinyXML) that watches the RSS
feeds of newspapers, downloads every article it has not seen yet and stores it in
an SQLite file; other parts of the program may subscribe to new articles. This
directory holds TLA+ specifications of it, the TLC configurations that check them
on small instances, and proofs that TLAPS checks. Paths such as
`feed_watcher.cpp:215` are relative to `src/src/`.

    tlc -config FeedWatcher_safety.cfg MC_FeedWatcher     # one run
    tlapm FeedWatcherProofs.tla                           # one proof module

`PROJECT.json` lists the components, the runs, a plausible bug ("mutant") that
each property catches, the theorems, the hazards of the code and, under `map`, the
source lines that every definition stands for.

## 1. The system

| Part | State | Operations | Talks to |
|---|---|---|---|
| main and the watcher thread (`main.cpp`, `feed_watcher::watch`, `get_feeds`) | position in the loops, `m_items` per newspaper (in memory only) | start, one cycle over all feeds, sleep | everything below, sequentially |
| feed_leacher, xml_feed_visitor | the items of one feed document | download and parse a feed, visit its `item` elements | HTTP client, TinyXML |
| article_retriever | `m_article_content`, `loop_count` | fetch a page, follow redirects | http_client |
| asio_http_client, http_client | socket, endpoint iterator, status code, header and output streams | one GET, a chain of completion handlers | the network, the cookies |
| cookies (`configuration::m_cookies`) | one vector for the whole process | read from a file, set by responses, sent with requests | http_client |
| db_access, db_newspaper, db_article | one SQLite file and its handle | init, exist, insert, get_uid | SQLite |
| callback_handler, article_catcher, text_extractor | a vector of uids, a mutex and threads per handler | announce an article, read its uid in a thread | watcher thread, handler threads |
| runcom_parser | the configuration | read three files at start | configuration |
| SQLite, TinyXML (vendored) | the database file; the tree of a document | statements; parse, `FirstChild`, `GetText`, `Accept` | db_access; feed_leacher |
| loglite (`logging.hpp`) | sinks, masks | trace | every thread |
| word_counter, db_marker, symbol, gui, website | - | not part of a running watcher | - |

Behaviours that are hard, and where they are treated:

* **A long life with failures.** The watcher runs for months. A statement can be
  rejected, a download cut, a `std::string` thrown where only `std::exception` is
  caught (this ends the process: the exception leaves a `boost::thread`), or the
  process killed between any two statements; then it is started again on the file
  it left. `m_items` is lost, rows are not. (`FeedWatcher`)
* **Two records of what is known.** `m_items` and table `article` both decide
  whether an item is new; `m_items` belongs to a newspaper and is overwritten
  feed by feed. (`FeedWatcher`)
* **Initialisation that is not atomic.** `db_access::init` asks whether the file
  exists, creates it, and creates tables in later statements. (`FeedWatcher`)
* **Asynchronous requests** whose handlers can each fail, several endpoints,
  redirects in circles, and cookies that must flow between the requests of one
  chain and not between servers. (`HttpClient`, `ArticleRetriever`, `CookieJar`)
* **Feeds that are cut.** TinyXML keeps the part of a tree it could read, nobody asks
  for its error, and the visitor throws, or assigns a null text to a `std::string`, at
  an item that is not whole. (`FeedDocument`, `FeedItems`)
* **A database with several users.** `exist()` and `insert()` are two statements, in
  two processes or in threads whose mutex belongs to one article object; two
  processes may create the file together. (`SharedStore`, `DbStrings`)
* **The wall clock.** The next poll is due at a time of a clock that may be set, after a number
  of seconds that went through `atoi` into an unsigned int. (`WatchLoop`)
* **Input that is half right.** The semantic actions of the feeds grammar fill the
  configuration before the parse is known to succeed, and `main` goes on with
  whatever is there. (`Configuration`)
* **Shared memory.** The watcher pushes uids on vectors that handler threads pop
  under a mutex which the push does not take. (`CallbackHandler`)

What makes each part correct: the database only grows, by new titles, and
announcements follow it (watcher, database); a title is stored twice, or a uid read
back of another's row, only when writers without a common mutex overlapped (database);
a feed that was cut yields its items up to the cut (feed download); polls keep
their distance and go on (watch loop); a retrieval ends, with the page if
nothing was in the way (retriever); a connection is given up only after every
endpoint (HTTP client); a request carries the latest cookies of its own server and
no others (cookies); every article is read once by every handler, and nobody
waits for a handler that hangs (callbacks); the feeds before a mistake in the
feeds file are watched as written, and no feed is dropped in silence (configuration).

## 2. Modules

| Module | Lines of the program it stands for |
|---|---|
| `ArticleDb` | `db_access.cpp`: the statements, each of which commits or is rejected |
| `FeedItems` | the items `xml_feed_visitor` hands over, and what a cut leaves of them |
| `FeedWatcher` | `main`, `db_access::init`, `feed_watcher::get_feeds`, `feed_leacher`; extends `ArticleDb` and `FeedItems` with the process and its surroundings |
| `ArticleArchive` | abstract: an append-only archive of distinct titles, announced in order |
| `WatchLoop` | `feed_watcher::feed_watcher` and `feed_watcher::watch` |
| `FeedDocument` | `feed_leacher`, `xml_feed_visitor`, and what they use of TinyXML; extends `FeedItems` |
| `DbStrings` | `prepare_string_for_db` and SQLite's string literals |
| `SharedStore` | `db_access::init`, `insert_if_not_exist` and the statements of `get_feeds`, by several processes and threads; extends `DbStrings` |
| `CookieJar` | `add_cookie`, `extract_cookie_from_header`, `build_cookies_string`, `parse_cookies` |
| `HttpClient` | `asio_http_client` (one action per handler), `http_client::retrieve`; extends `CookieJar` |
| `ArticleRetriever` | `article_retriever`; extends `HttpClient` |
| `Retrieval` | abstract: what `get_feeds` relies on when it constructs an `article_retriever` |
| `CallbackHandler` | `callback_handler::new_article`, the two handlers and their threads |
| `Configuration` | `runcom_parser::parse`, `parse_feeds` and its semantic actions, `main.cpp:92-98` |
| `FeedWatcherProofs`, `WatchLoopProofs`, `FeedDocumentProofs`, `CallbackHandlerProofs`, `ConfigurationProofs` | theorems about the components |
| `ArticleRetrieverProofs`, `SharedStoreProofs` | the same, after theorems about the loops of `CookieJar` over cookies, and of `DbStrings` over the characters of a title |
| `Induction` | induction, recursion and loops over the natural numbers, as theorems about sets and functions |
| `MC_*` | instances for TLC |

Composition: `FeedWatcher` contains the retrieval as two atomic actions,
`Retrieve` and `RetrieveThrows`. `ArticleRetriever` has the same retrieval in
detail, and `ImplementsRetrieval` shows that its outcomes are the ones of
`Retrieval`, which `FeedWatcher` takes. The announcement is an atomic append to
`notified` in `FeedWatcher`; `CallbackHandler` opens it, and
`WatcherIsNotHeldUp` shows that the call returns. `Configuration` ends where
`FeedWatcher` starts: `m_medias` is the latter's constants `NFeeds` and `MediaOf`,
and a feed left without an address is one of its `BadFeeds`; by
`OnlyTheLastIsBroken` a damaged file makes at most the last feed bad, and by
`BeyondBadFeedNothingStored` a bad feed silences the ones behind it, of which there are none.
`FeedDocument` has the download of one feed in
detail: `OutcomeIsATruncation` shows that what is left of a cut feed is among
the `Truncations` that `Leech` and `LeechThrows` choose from. `WatchLoop` has the pause
between two cycles; its `PollsAgain` is what justifies the fairness of `Cycle`.
`SharedStore` has the database of `FeedWatcher` once more, for more than one writer: there
the premise of `UniqueTitles`, that nobody else writes the table, is gone.

### FeedWatcher

`pc` says which external effect the thread performs next; a computation without
one (a test, an increment) belongs to the action before or after it. The loops over
`m_medias` and `m_feeds` are one loop over `1 .. NFeeds` with `MediaOf`. An item is
a title and a kind of link. `published` is what the servers hold and changes at any
time; `badFeeds`, the feeds whose address does not parse, is chosen by `Init`. Correspondence:

| Action | Code |
|---|---|
| `Start`, `OpenDatabase`, `CreateNewspaperTable`, `CreateArticleTable`, `InitNewspapers` | `main.cpp:92-101`, `db_access.cpp:48-111` |
| `Leech`, `LeechThrows` | `feed_leacher::feed_leacher`, `xml_feed_visitor::VisitEnter` |
| `ScanKnown`, `ScanStored`, `ScanNew` | `feed_watcher.cpp:200-215`: in `m_items`; `exist()` 1 or -1; `exist()` 0 |
| `Retrieve`, `RetrieveThrows` | `feed_watcher.cpp:230-232` |
| `Insert`, `InsertFails`, `SelectUid` | `db_article::insert` and `feed_watcher.cpp:233-235` |
| `Refresh`, `Cycle` | `feed_watcher.cpp:240-246`, `165-181` |
| `Crash`, `Publish` | the operator, the servers |

A row is `[title, content, newspaperuid]`; its index is the uid, as SQLite gives
them to a table from which nothing is deleted. Titles are compared only, so they
are model values.

### WatchLoop

Time is counted in ticks, `TicksPerSecond` of them in a second, so the test on
`xtime.sec` and the deadline with its fraction are told apart. `Stamp` restarts the count at the
tick within the second: only differences matter, and the state space stays finite. `Tick` lets
time pass while the feeds are read or the thread sleeps, `SetClock` sets the clock,
`elapsed` and `jumped` remember both. `boost::thread::sleep` returns when the clock has
reached the deadline. A setting is a sequence of digits and other symbols, `Atoi` is
`atoi`, and the conversion to unsigned int is `% WordSize`.

### FeedDocument

A document is a sequence of start tags, texts and end tags. What arrives is one of
`Arrivals`: whole, cut in or behind a symbol, or with one symbol missing. A start tag may be cut
in its name or between its name and its `>`, where TinyXML already links the whole element; `at` is the
first symbol that is not read as it was written. `StreamIn` is
`TiXmlDocument::StreamIn`, which counts tags only; then each action reads one
symbol (`ReadElement`, `ReadText`, `ReadEndTag`, `WrongEndTag`, `EndOfText`) into
`nodes`, the elements in document order with their parents; then `Accept` visits them in this
order (`VisitOther`, `VisitItem`, `VisitThrows`, `VisitCrashes`). `crashed` stands for a
`std::string` that is assigned a null pointer.

### SharedStore and DbStrings

A process goes through `main` and `init` (`Look`, `Open`, `CreateDatabase`); a writer
through `exist()`, `insert()` and the SELECT of the uid. A writer with an `ObjectOf` is a thread inside
`insert_if_not_exist` on this article object and holds its `m_insert_mutex`; one with
`NoObject` is a watcher thread in `get_feeds`, which makes the same statements without a
lock. Nothing in the program calls `insert_if_not_exist` today; it is the interface meant for
threads, and two watchers started on one file need no caller at all. `asked`,
`row` and the writer of a row are history: they say which exist() a row goes back to.
Titles are sequences of quotes and other characters, because they pass through
`PrepareStringForDb` and `ReadLiteral`. Each of these two loops is a recursive function of
the pair of variables that the loop changes, since TLAPS knows functions of one argument only.

### HttpClient, ArticleRetriever

`stage` is the handler that runs next; `GoTo` starts an operation, `failed` means
that a handler returned without starting one, which ends `io_service::run`. A body
is a number of chunks that arrive in any portions. `m_status_code` is `Unset` until a status
line assigns it, and `StatusRead` is then any status: the constructor leaves it
uninitialised. `web` (what each address answers) and `up` (which endpoints accept)
are chosen by `Init` and constant, so that "where the redirects lead" has an
answer (`FinalPage`). A `netFaults` budget per retrieval covers every error of
every operation, the garbled status line and the early end of a body. The `Cookie:` line
is the set of the cookies in it: their order is the vector's and no property is about it.
`granted` is history: the last value a server has given each of its cookies.

### Configuration

A feeds file is a sequence of symbols: the words of the grammar, a quote, and the words a
name or an address consists of; white space, which the skipper skips, is left out, and `end` stands for
`end section`. In what a user writes no name and no address is empty (`WrittenAssumption`). `Init` takes a configuration the user means, writes it as `feeds.txt`
is written and damages it at one position. Each action is one semantic action of
the grammar with the literals around it; no alternative of the grammar is tried
twice, so none runs for a text that is given back.
`Restart` is another start of the program with other files.

### CallbackHandler

`push_back` and `pop_back` load and store the size in two steps. That is the mildest
outcome of the data race, undefined in C++; a reallocation could do worse, so what
`raced` guards is promised by the code, and what happens after it is only a sample. In `main.cpp`
the registration is commented out (123-129); the model registers the
handlers as those lines do.

## 3. What the runs show

| Run | Instance | States | Shows |
|---|---|---|---|
| watch_safety | 3 feeds, 2 newspapers, 3 titles, every address parses or the second does not, 1 cut download, 1 rejected statement, 1 kill | 926k | `UniqueTitles`, `NotificationsInOrder`, `CacheSound`, `EachLossHasAFault`, `BeyondBadFeedNothingStored`, `InterruptedInitIsFinal`, `ImplementsArchive` |
| watch_liveness | 2 feeds of one newspaper that may share a title, a third alone in its newspaper with one of these titles, 1 rejected statement, 1 cut | 103k | `EventuallyStored` |
| new_items_downloaded | as watch_safety, all addresses parse | violated | a failed `exist()` loses the item for as long as `m_items` remembers it |
| newspapers_stored | as watch_safety, all addresses parse | violated | the INSERT of a newspaper is always rejected |
| retrievals | 3 addresses on 2 servers, one with 2 endpoints; 2 addresses with every combination of page, empty page, gone and redirect, or 3 that set one cookie along redirects; a cookies file with a domain; 1 fault per retrieval, 5 rounds | 174k | `ArticleIsNoRedirect`, `UniqueCookies`, `LatestCookieSent`, `CookiesStayWithTheirServer`, `RetrievalEnds`, `EveryEndpointTried`, `ImplementsRetrieval` |
| page_moved | no network fault, servers down, 1 round | violated | the uninitialised status is taken for a 302 |
| damaged_feeds | 7 feeds files of up to 2 sections and 3 feeds, every position cut, dropped or preceded by a quote, 4 settings files | 11520 | `IntactFeedsAreConfigured`, `OnlyTheLastIsBroken`, `NoSilentLoss` |
| callback_threads | 2 handlers, 2 articles, one handler may hang anywhere | 7009 | `SizeIsWaitingThreads`, `ReadOnceUnlessRaced`, `ThreadsEnd`, `WatcherIsNotHeldUp` |
| every_article_caught | 1 handler, 3 articles | violated | the unlocked push loses one article and repeats another |
| feed_documents | 4 feeds of up to 3 items, every cut in and between symbols, every symbol missing | 5919 | `OutcomeIsATruncation`, `ItemsBeforeDamageSurvive`, `MissingSymbolLosesATail`, `CutBetweenItemsIsHarmless` |
| shared_store | 2 processes, a watcher thread in one and 2 threads with a common article object in the other, 2 titles with quotes, 1 rejected statement, 1 process that ends | 97k | `DuplicatesAreRaces`, `UidIsOfItsTitle`, `TitlesAreStoredAsTheyAre`, `SomebodyCreatesTheTables` |
| watch_loop | 9 settings, 3 ticks a second, a word of 512, cycles of up to 8 ticks, a clock set twice per cycle, by -4 or 3 ticks | 76k | `NeverTooEarly`, `NegativeSettingStops`, `PollsAgain` |

Every passing run except watch_liveness also checks the `TypeOK` of its module.

Why the bounds are enough. *watch_safety*: the interesting cases are an item in two
feeds of one newspaper, in feeds of two newspapers, twice in one document, an item
that disappears and returns, a link that does not parse, a title that a cut shortens to another
one, a bad address before, at and behind a feed, and a failure before, between and after
`exist()`, the INSERT and the SELECT; three titles and three feeds have all of them, and a
restart needs one kill or one throw. Budgets are counted, not timed: a failure may
strike at any step. The number of cycles is not bounded. *watch_liveness* has no
kill: nothing restarts the process. Its feeds are ones where the newspaper's cache forgets an item,
where it does only while the other feed has dropped it, and a newspaper of one feed, where a rejected
statement loses an item for good; without its premise about failures TLC refutes the property there. *retrievals*: two addresses are enough for every cycle of
redirects and for hint and title to agree or differ; the third sets a cookie on a server
the chain comes back to; the loop has its real bound 5. With one
fault per retrieval the outcomes "part", "empty", "other" and a throw all occur.
*damaged_feeds*: a damage can fall on a first, middle or last feed, in a first or last
section, in a section without feeds and in a file without sections; names have two words, so one can
lose a part; texts differ in their first word, so one read at the wrong place shows.
*callback_threads*: an overlap needs one push and one thread, a lost uid two articles, the
independence of handlers two of them; the finding needs a third article.
*feed_documents*: items first, in the middle and last, title before link and after, a
repeated field, fields nobody reads, and an item without link; one damage to each.
*shared_store*: a duplicate needs two writers, the mutex two threads that share it and one that
does not; titles differ in whether a quote is last and whether quotes stand together.
*watch_loop*: settings that are empty, zero, shorter and longer than a cycle, with white space, a
letter, or a sign; a jump of a whole second and one of more than a second, so
each of the two tests can come out either way because of it. `WordSize` only has to be larger than what
a cycle and the jumps can bridge; the theorems are about any word, 2^32 included.

Constants that are budgets: `MaxDbFaults`, `MaxNetFaults`, `MaxCrashes`,
`MaxArticles`, `MaxChunks`, `MaxWork`, `MaxJumps`. `MaxRedirects` is the code's own 5.

### Fairness

* `FeedWatcher!FairSpec`: weak fairness of the process's steps. The thread is
  sequential and waits for nothing but the network and a sleep. Downloads are assumed to end: `http_client`
  has no timeouts, so it is the servers that have to. `Start` is not
  fair, since nothing restarts newswatch; `Publish` is not fair.
* `WatchLoop!FairSpec`: weak fairness of the thread and of time. A `get_feeds` ends, as
  above; while the thread sleeps the clock goes on, and it is set finitely often in a cycle.
* `ArticleRetriever!FairSpec`: every asynchronous operation completes somehow.
* `CallbackHandler!FairSpec`: the scheduler runs the watcher and the threads of
  handlers that do not hang (weak fairness). Nothing is assumed of the mutex:
  every thread takes it once, so one that waits finds it free for good in the end.

`EventuallyStored` has a premise: the database stays usable and the item stays in
its feed from some point on, and either no statement is ever rejected or the newspaper has a feed that
stays without the item from some point on (`Forgotten`). A rejected `exist()` or `insert()` leaves the title in
`m_items`; only another feed of the newspaper, whose items overwrite `m_items`, makes the next cycle try
again. In a newspaper of one feed, or whose feeds all carry the item, it is lost for as
long as they do, which is finding 1. A page that SQLite rejects every time (a NUL byte in
it ends the statement early) counts as a rejected statement, of which there are
finitely many.

## 4. What is proved

TLAPS checks the theorems for every value of the constants: any number of feeds,
newspapers, titles, editions, bad addresses, faults, kills, processes, writers, settings,
ticks, handlers and articles. The assumptions are the named `ASSUME`s next to the
constants (the configuration is
well formed, null values are distinct), which TLC also evaluates in every run, and one
hypothesis of one theorem, `ServersAreNoDomains`, named below.

**Induction**

The installed provers cannot use an induction theorem that takes an operator, so
what a recursive definition computes seems out of reach. `Induction` gets around this: a property is given
as the *set* of the numbers that have it. A set that is not empty has a least number, because `<` is
well-founded (`WFMin` of WellFoundedInduction, which has no operator parameter), and this
gives `SetInduction`. From it follow `Recursion`, `Iteration` (N rounds, each a function of its
number and of the value so far) and `TailRecursion` (a loop with a measure): the function that a recursive
definition defines does exist, so its `CHOOSE` has the equation one wrote. The modules below
take their loops from there: the parts of a `Set-Cookie` header and the lines of the cookies file
(`Iteration`), the digits of a setting (`Iteration`), the characters of a title (`TailRecursion`). `FlattenSeq`
is a recursion as well: `FlattenAppend` is its step, and `FlattenPlaces` says where each element of
each sequence ends up, which is how the proofs find their way in a document.

**FeedWatcherProofs**

* `TypeCorrect`: `Spec => []TypeOK`.
* `Invariance`: `Spec => []Inv`. `UniqueTitles` is not inductive: a step of
  `Insert` appends whatever title the loop is at. What is missing is that the answer of
  `exist()` is still true then (`NotStoredYet`), and this holds since nothing
  but the thread itself writes the table. `NotificationsInOrder` needs that the
  row to be announced is the last one and that all earlier announcements are
  about earlier rows (`JustStored`); together with `UniqueTitles` the SELECT by title then
  finds exactly that row. `CacheSound` needs that the
  items behind the loop variable are stored (`ScannedAreStored`), because
  `Refresh` makes exactly those the cache, and that the cache is empty until
  `get_feeds` fills it (`MemoryStartsEmpty`). `EachLossHasAFault` counts: a step that loses the
  announcement of the last row (`OneLost`) is a kill or a rejected SELECT, every other step
  loses none (`NoneLost`); one that announces an item without uid is a rejected statement
  (`NoUidStep`), because an item only gets as far as `insert()` on a database that can be used
  (`NotStoredYet`).
* `TitlesAreUnique`, `AnnouncementsAreOrdered`, `CacheIsSound`,
  `LossesHaveFaults` are its consequences.
* `Refinement`: `Spec => ImplementsArchive`. The initial state maps to an
  empty archive; `Insert` is `Record` (from `NotStoredYet`), `SelectUid` is
  `Announce` (from `JustStored`), every other step stutters, kills included.
* `BadFeedsEndTheRun`: `Spec => []BeyondBadFeedNothingStored`. Its invariant says that the
  loop never gets past the first bad feed and that the items in hand were carried
  by the feed it is at, shortened by a cut at most (`OnlyCarried`).
* `InterruptedInit`: `Spec => InterruptedInitIsFinal`, because with a file on
  the disk no step reaches the two actions that create tables.

**SharedStoreProofs**

* `TypeCorrect`: `Spec => []TypeOK`.
* `OnlyRacesDuplicate`: `Spec => []DuplicatesAreRaces`. The invariant adds what a writer
  between `exist()` and `insert()` knows: any row with its title came after its `exist()`,
  from a writer that shares no mutex with it (`AnswersHold`), a thread in this part owns its object's mutex (`OwnersAreInside`), every
  row has the title its writer had (`RowsAreTitled`), and a writer about to read a uid has
  its own row in the table (`RowsAreRead`).
* `UidsAreOfTheirTitles`: `Spec => []UidIsOfItsTitle`, and `TitlesAreStored`:
  `Spec => []TitlesAreStoredAsTheyAre`. Both need that SQLite reads back every title as it is, which
  is `SqlReturns`.
* `TablesAreCreated`: `Spec => []SomebodyCreatesTheTables`, from `TablesFollow`: without a
  failure, a file without tables is one whose creator is on its way.

* `PrepareDoubles`: after its k-th character the loop of `prepare_string_for_db` has doubled the quotes of the first k
  characters and moved the others (`Doubled`). `Positions` says where each character goes; the loop
  skips what is no quote, so a character that is none is a step in which nothing changes (`FindsLater`).
* `SqlReturns`: `Sql(str) = str`. Reading the literal at the place behind character k, with
  the first k characters read, has the same result for every k (`ReadsOne`): for k = 0 this is the
  reading of the literal, for the last k its value is the string.

**WatchLoopProofs**

* `TypeCorrect`, and `PollsKeepTheirDistance`: `Spec => NeverTooEarly`, from `Timed`: the clock is
  the stamp plus what passed plus the jumps, the deadline is the stamp plus the watch
  time. The rest is arithmetic of `\div`, which is where an
  off-by-one in the test on whole seconds would show.
* `NegativeSettingsStop`: `Spec => NegativeSettingStops`, with `WatchTimeIsSet` and
  `(-n) % w >= w - n`. That the digits of a setting are a natural number is
  `MagnitudeIsNatural`, by iteration over the digits.

**CallbackHandlerProofs**

* `TypeCorrect`: `Spec => []TypeOK`, whatever overlaps.
* `Invariance`: `Spec => []Inv`, and from it `SizeMatchesThreads`: until a push overlaps an
  access, a vector has one uid for every thread that has yet to pop one. It
  is not inductive: a store writes back a size that was loaded earlier, so the
  invariant adds that this size is still current unless the access was
  overlapped (`LoadedIsCurrent`), that only one thread is inside
  (`InsideHoldsMutex`), and that the thread about to be created does not exist
  yet (`NotCreatedYet`). Counting uses the cardinality lemmas of
  FiniteSetTheorems.
* `EveryUidIsReadOnce`: `Spec => []ReadOnceUnlessRaced`, from `Slots`: without an overlap the vector
  holds distinct uids, threads read distinct ones, together these are all that were pushed, and
  only the last uid of the vector may have been read, by the thread that is inside `pop_back()`.

**ArticleRetrieverProofs**

* `Invariance`: `Spec => []Inv`. `ArticleIsNoRedirect` is not inductive: the loop
  judges a body by a status code that may be uninitialised. `BodyHasStatus` says
  that this cannot happen to a body that is there: `m_output` is filled only behind a
  status line, and the status is the answer's. For the endpoints,
  `PassedEndpointsDown` says what the iterator has left behind. `RequestOK`
  holds the few types both need.
* `NoRedirectIsStored` and `EndpointsAreTried` are its consequences; the
  second is an action property and also needs that only `HandleConnect` leaves
  stage `connect` for `failed`.

* `TypeCorrect`: `Spec => []TypeOK`, cookies included.
* `JarInvariance`: `Spec => []JarInv`. A request builds its `Cookie:` line from the vector as it
  is when the request starts, so the invariant speaks of the vector between requests: each cookie is
  there once (`JarOK`), what a server has given is in it with its last value
  (`GrantsAreKept`), everything else comes from the file (`OthersAreFiled`, `OnlyServersGive`), and the
  line of the request in flight was built from this (`RequestHasCookies`). One response is a loop of
  `add_cookie`; what it does to the vector is `ExtractCookiesKeeps`, what the
  file leaves in it `InitialCookiesAreFiled`.
* `CookiesAreUnique`, `LatestCookiesAreSent` and `CookiesStay` are its consequences: each pair of name and value that is
  sent is the last one this server gave, or a line of the file that it has not replaced. The last one has the hypothesis
  `ServersAreNoDomains`: no server that is asked is itself a domain that stands for another
  server with `www` in front of it, as `.lemonde.fr` with its leading dot is no host.
* `Refinement`: `Spec => ImplementsRetrieval`. The result of `Retrieval` is fixed when the
  chain of redirects ends, and the steps before stutter: `ChainInv` says that
  the rest of the chain from the present address leads where the whole chain leads
  (`TowardsTarget`), as long as nothing has disturbed the retrieval (`UndisturbedRequest`).

**FeedDocumentProofs**

Any number of items and fields, any texts, and a damage at any symbol. The assumptions: no text is one
of the markers for a missing title, link or text (`MarkersAssumption`), and what a cut leaves
of a link is no address or that of another page (`LinksAssumption`), as `FeedItems` has it.

* `TypeCorrect`: `Spec => []TypeOK`. It already needs the layout of a document (`DocumentLayout`) and what
  may arrive of it (`ArrivalIs`), because the names of tags and the texts are among the symbols.
* `ReadAsFarAsItGoes`: `Spec => []IInv`, the inductive invariant. None of the four properties is
  inductive: they speak of the end. `IInv` says where Parse is in the document the site
  published. *Before the damage* (`ExactAt`) each place between two symbols, such as inside field
  j of item i, has exactly one stack of open elements and exactly one tree, up to the names. *At a cut* the
  last item may have one field with a part of its name or text (`CutTree`); a start tag cut behind
  its name gives the tree of the whole tag (`WholeNameIs`), so the damage is at the next symbol. *Behind a missing symbol*
  (`WeakAt`) the stack is one of a few: a start tag that is missing makes the next end tag a wrong one and
  Parse gives up there; an end tag that is missing keeps an element open, and the
  fields or items behind it are read into it until an end tag does not fit. What survives is
  that the items met are the first ones of the feed, and that what stands directly under an item is the first
  of its fields (`AllFaithful`). The text `StreamIn` collects reaches up to the damage at least (`Gathered`), which rests on
  counting tags (`DocumentDepth`): before the end of a document its depth never returns to 0.
  For the visitor, `HandedOn` relates `m_feed_items` to the items passed.
* `CompleteItemsSurvive`, `OnlyATailIsLost`, `CutBetweenItems` and `OutcomesAreTruncations` are its
  consequences. Each needs that the first child of a name is the first field of this name (`FirstNamed`,
  `FirstTextIs`), also when the last field lost a part of its name or its text. The last theorem is what
  justifies the `Truncations` of `FeedWatcher` for feeds of every size.

**ConfigurationProofs**

Any number of sections and feeds, names and addresses of any length, a damage at any symbol, any settings files.

* `TypeCorrect`: `Spec => []TypeOK`. It needs where each part of the file stands (the layout of
  `Write`), and that the lines still to be read are the end of the settings.
* `FeedsBeforeDamageAreConfigured`: `Spec => []IntactFeedsAreConfigured`. The property speaks of the end of the
  parse; its invariant `KInv` says where the parse is in the file that was written. *Before the
  damage* (`Exact`) the parser stands at the place behind section i and feed j that its `pc` means, and the configuration is what is
  written up to there (`Configured`), without the address while that is still to come. *Behind it* (`Passed`) nothing is
  known of the parse but that the feeds before the damage are in the configuration and no action
  can change them any more (`Kept`), because the actions only append a section, append a feed or set the address of the
  last feed. A word that the damage hits is where the two meet: `WordIsRead` says which part of it is read.
* `RejectionBreaksOneFeed` and `AcceptanceLosesNoFeed`: `Spec => []OnlyTheLastIsBroken` and
  `Spec => []NoSilentLoss`. Here `Passed` is too weak: a parse that goes on behind the damage could add or
  hide feeds. The invariant `LInv` says where it can be instead. It is still `Exact`; or it is `InSync`, which only a
  missing text brings about: the parser then stands at the same place of the *written* file as it would
  without the damage, and every section has as many feeds as were written (`Counts`); or it is `Lost`: a
  quote too many or too few has exchanged what is inside quotes and what is outside, and wherever the
  next quote is, a text stands behind it and the grammar fits nowhere (`OutOfStep`, `Loose`). From `Lost` at most one
  more feed is added or changed before the file is rejected, the last one (`Only`). `DamagedWord` does the
  case split for a word and the quote behind it (out of step, one symbol shorter, or a quote doubled);
  `SectionWord`, `NameDamaged` and `AddressWord` apply it to the three places of the grammar where a word
  is read. That no name and no address is empty (`WrittenAssumption`) is used in every one of them: the
  text behind a quote is what stops a parser that has lost its step.

Only model-checked: the liveness properties, because the prover does not treat fairness. No safety
property of a component is left without a theorem.

## 5. Findings

1. `feed_watcher.cpp:215`: an error of `exist()` counts as "exists"; the new item
   is not downloaded although the comment at 195 says so.
2. `db_access.cpp:296`: no newspaper is ever stored, because `NULL` is in the
   column list; every article refers to newspaper 0, or to -1.
3. `http_client.cpp:248`: the status of a request that got no answer is
   uninitialised memory; read as 302 it ends the process.
4. `callback_handler.hpp:66`: the push is outside the mutex; articles are lost and
   repeated once two threads meet.

Worth knowing although not a contradiction of anything the repository says:
`InterruptedInitIsFinal` (a kill during the first start leaves a file that
rejects every statement for ever), `BeyondBadFeedNothingStored` (one bad address
silences every feed behind it), `NegativeSettingStops` (a watch time of `-1` polls once in
136 years), `DuplicatesAreRaces` (two watchers on one file do store an article twice), a
connection that closes inside an item, from `<item` on, ends the process while one that closes between two is not
noticed, a body that was cut is stored for good as the article, and
after five rounds the body of a redirect page is too.

## 6. Not modelled

The vendored `sqlite3.c`, its copy `sqlite3.cpp`, and TinyXML are 137000 of the 141000 lines of
source. They are modelled as far as the program's behaviour depends on them, which is a small
part of them, so the share of all lines that `map` covers is small too.

* SQLite: a statement is atomic and commits or is rejected, as SQLite's transactions promise; its locks
  appear as rejected statements. Of its parser only string literals are modelled.
* TinyXML: attributes, comments, CDATA, declarations, entities and encodings, which shift no
  element of a feed, and everything that writes a tree.
* The text of most things: pages, SQL, addresses, log lines. Titles are text in `SharedStore` only.
* `get`, `get_articles` (which asks for a column `NewspaperName` that table article does not
  have), `get_newspapers`, the two counters, `dump_all_articles` with
  `prepare_string_for_filename`, `db_marker`, `word_counter`: no path of the watcher calls
  them, and they change no row.
* `new_newspaper` callbacks: nothing registers for them.
* Settings other than the feeds file's name and the watch time, the inside of a text of the
  feeds file, and two damages of one file.
* Logging: main sets up the sinks before any thread starts, `trace` holds the logger's mutex, and
  no source file opens a scope, so the one structure that threads would share without
  a lock stays empty. What is left is formatting.
* The leak at `callback_handler.hpp:68`: threads pile up until the process ends. It harms by its
  size, which a small instance does not have.
* `gui/`, `website/`, `symbol`: separate, or unused.

## 7. State of the plan

Done: the watcher with its database, the pause between cycles, the feed document, the retrieval with
HTTP client and cookies, the callbacks, the shared database and the feeds file; theorems for every
safety property of the watcher, the pause, the feed document, the retrieval, the cookies, the callbacks, the
shared database and the feeds file.

Left: the optional fields of an item, and the parse of an address into server and page, should a
property ever depend on them.
