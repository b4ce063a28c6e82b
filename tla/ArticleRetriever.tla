-------------------------- MODULE ArticleRetriever -------------------------
(***************************************************************************)
(* article_retriever (feed_watcher.cpp): the page behind the link of an     *)
(* item, through redirects.  A redirect answer's Location: is fetched as a  *)
(* hint; when that is not the page itself its title names the next address *)
(* to fetch, and so on, at most five times.  One retrieval after another,   *)
(* as get_feeds asks for them, with the cookies of the process.             *)
(***************************************************************************)
EXTENDS HttpClient

CONSTANTS MaxRedirects   \* the bound of the loop in article_retriever, 5

ASSUME MaxRedirectsAssumption == MaxRedirects \in Nat

VARIABLES
  phase,       \* which retrieve of the constructor is running
  link,        \* the address it was constructed with
  loop_count,
  m_article_content  \* of which page, and how many chunks

retrieverVars == <<phase, link, loop_count, m_article_content>>
vars == <<httpVars, retrieverVars>>

Phases == {"none", "first", "hint", "new", "done", "thrown"}
Retrieving == phase \in {"first", "hint", "new"}
NoContent == [page |-> NoAddress, chunks |-> 0]

\* Every variable holds a value of its C++ type; the loop keeps its bound.
TypeOK ==
  /\ HttpTypeOK
  /\ phase \in Phases
  /\ Retrieving => stage # "none"
  /\ link \in Addresses \cup {NoAddress}
  /\ loop_count \in 0 .. MaxRedirects
  /\ m_article_content \in [page : Addresses \cup {NoAddress}, chunks : 0 .. MaxChunks]

Init ==
  /\ HttpInit
  /\ phase = "none" /\ link = NoAddress /\ loop_count = 0
  /\ m_article_content = NoContent

-----------------------------------------------------------------------------

\* The first retrieve.
Construct ==
  /\ phase \in {"none", "done"}
  /\ link' \in Addresses
  /\ Request(link')
  /\ phase' = "first"
  /\ loop_count' = 0 /\ m_article_content' = NoContent
  /\ netFaults' = 0
  /\ UNCHANGED <<surroundings, jar>>

\* address_extractor throws a std::string, which the constructor lets through.
ConstructThrows ==
  /\ phase \in {"none", "done"}
  /\ link' = NoAddress
  /\ phase' = "thrown"
  /\ loop_count' = 0 /\ m_article_content' = NoContent
  /\ netFaults' = 0
  /\ UNCHANGED <<surroundings, jar, request>>

Handle == Retrieving /\ Handlers /\ UNCHANGED retrieverVars

Content == IF m_output = 0 THEN NoContent ELSE [page |-> address, chunks |-> m_output]

AtLoopTest == phase \in {"first", "new"} /\ Over

\* (mutation) The loop would be entered once too often.
GoesOnOnceMore(status) == status = HTTP_REDIR /\ loop_count <= MaxRedirects

\* The condition of the loop, for the status of the last retrieve.
GoesOn(status) == status = HTTP_REDIR /\ loop_count < MaxRedirects

Returns(result) ==
  /\ phase' = "done"
  /\ m_article_content' = result
  /\ UNCHANGED <<link, loop_count>>

\* (mutation) The loop would be left as soon as there is some content.
LeaveLoopWithContent ==
  /\ AtLoopTest
  /\ \E status \in StatusRead : ~GoesOn(status) \/ m_output > 0
  /\ Returns(Content)
  /\ UNCHANGED httpVars

LeaveLoop ==
  /\ AtLoopTest
  /\ \E status \in StatusRead : ~GoesOn(status)
  /\ Returns(Content)
  /\ UNCHANGED httpVars

FollowLocation ==
  /\ AtLoopTest
  /\ \E status \in StatusRead : GoesOn(status)
  /\ m_header # NoAddress
  /\ Request(m_header)
  /\ phase' = "hint"
  /\ UNCHANGED <<surroundings, jar, netFaults, link, loop_count, m_article_content>>

\* Throws a std::string.
NoLocation ==
  /\ AtLoopTest
  /\ \E status \in StatusRead : GoesOn(status)
  /\ m_header = NoAddress
  /\ phase' = "thrown"
  /\ UNCHANGED <<httpVars, link, loop_count, m_article_content>>

\* (mutation) The constructor would return from inside the loop.
HintIsDropped ==
  /\ phase = "hint" /\ Over
  /\ HTTP_OK \in StatusRead
  /\ Returns(NoContent)
  /\ UNCHANGED httpVars

\* The hint is the page: break.
HintIsThePage ==
  /\ phase = "hint" /\ Over
  /\ HTTP_OK \in StatusRead
  /\ Returns(Content)
  /\ UNCHANGED httpVars

Title == IF m_output > 0 THEN answer.title ELSE NoAddress
HintIsNotThePage == phase = "hint" /\ Over /\ StatusRead # {HTTP_OK}

\* (mutation) loop_count would count the redirects that failed.
FollowTitleUncounted ==
  /\ HintIsNotThePage
  /\ Title # NoAddress
  /\ Request(Title)
  /\ phase' = "new"
  /\ UNCHANGED <<surroundings, jar, netFaults, link, loop_count, m_article_content>>

FollowTitle ==
  /\ HintIsNotThePage
  /\ Title # NoAddress
  /\ Request(Title)
  /\ phase' = "new"
  /\ loop_count' = loop_count + 1
  /\ UNCHANGED <<surroundings, jar, netFaults, link, m_article_content>>

\* Throws a std::string.
NoTitle ==
  /\ HintIsNotThePage
  /\ Title = NoAddress
  /\ phase' = "thrown"
  /\ UNCHANGED <<httpVars, link, loop_count, m_article_content>>

\* A std::exception, from asio or from a regular expression that is too
\* complex, is caught in the constructor: no content.
Caught ==
  /\ Retrieving
  /\ NetFault
  /\ Returns(NoContent)
  /\ UNCHANGED <<surroundings, jar, request>>

\* After "thrown" the process is gone; the next one reads the cookies file.
Restart ==
  /\ phase = "thrown"
  /\ stage' = "none" /\ address' = NoAddress /\ endpoint' = 0 /\ cookie' = {}
  /\ m_status_code' = Unset /\ m_header' = NoAddress /\ m_output' = 0
  /\ m_cookies' = InitialCookies /\ granted' = Ungranted
  /\ netFaults' = 0
  /\ phase' = "none" /\ link' = NoAddress /\ loop_count' = 0
  /\ m_article_content' = NoContent
  /\ UNCHANGED surroundings

Step ==
  \/ Handle \/ LeaveLoop \/ FollowLocation \/ NoLocation
  \/ HintIsThePage \/ FollowTitle \/ NoTitle \/ Caught

Next == Construct \/ ConstructThrows \/ Step \/ Restart

Spec == Init /\ [][Next]_vars

\* Every operation that was started completes, with its result or an error:
\* the network's part, since the client has no timeout.
FairSpec == Spec /\ WF_vars(Step)

-----------------------------------------------------------------------------
(* Properties *)

\* The vector has one cookie per website and name, however often servers set
\* one again: add_cookie keeps it so, nothing else does.
UniqueCookies ==
  \A i, j \in DOMAIN m_cookies :
    /\ m_cookies[i].website = m_cookies[j].website
    /\ m_cookies[i].name = m_cookies[j].name
    => i = j

Pairs(cookies) == {<<c.name, c.value>> : c \in cookies}

\* A request carries what its server last gave for each cookie, redirects,
\* failed reads and earlier articles in between notwithstanding.
LatestCookieSent ==
  stage = "resolve" =>
    \A name \in DOMAIN granted[server] :
      <<name, granted[server][name]>> \in Pairs(cookie)

\* And nothing else: no value that another server gave, and none that this one
\* has replaced.  What the server did not give is in the cookies file for it.
Replaced(c) == c.website = server /\ c.name \in DOMAIN granted[server]
CookiesStayWithTheirServer ==
  stage = "resolve" =>
    \A pair \in Pairs(cookie) :
      \/ pair[1] \in DOMAIN granted[server] /\ pair[2] = granted[server][pair[1]]
      \/ pair \in Pairs({c \in CookiesFor(CookieFile, server) : ~Replaced(c)})

\* The page stored as the article is never one that only says where the
\* article is, until the loop has given up.
ArticleIsNoRedirect ==
  phase = "done" /\ m_article_content # NoContent /\ loop_count < MaxRedirects =>
    web[m_article_content.page].status = HTTP_OK

\* http_client.cpp:41: "Each endpoint will be tried until we successfully
\* establish a connection": giving up means that they all failed.
EveryEndpointTried ==
  [][stage = "connect" /\ stage' = "failed" /\ netFaults' = 0
       => up[server] \cap 1 .. EndpointsOf[server] = {}]_vars

\* A retrieval that was begun ends, in a loop of redirects too.
RetrievalEnds == Retrieving ~> ~Retrieving

\* The page a retrieval from address a would deliver with n rounds of
\* redirects left and nothing failing; NoAddress if none.
Reached(a) == up[ServerOf[a]] \cap 1 .. EndpointsOf[ServerOf[a]] # {}
Answers(a, status) == a # NoAddress /\ Reached(a) /\ web[a].status = status /\ web[a].chunks > 0
FinalPage[n \in 0 .. MaxRedirects] ==
  [a \in Addresses \cup {NoAddress} |->
     LET hint == web[a].location
     IN IF Answers(a, HTTP_OK) THEN a
        ELSE IF n = 0 \/ ~Answers(a, HTTP_REDIR) THEN NoAddress
        ELSE IF Answers(hint, HTTP_OK) THEN hint
        ELSE IF Answers(hint, HTTP_REDIR) THEN FinalPage[n - 1][web[hint].title]
        ELSE NoAddress]

Target == FinalPage[MaxRedirects][link]
Kind(content) ==
  IF content = NoContent THEN "empty"
  ELSE IF content.page # Target THEN "other"
  ELSE IF content.chunks < web[Target].chunks THEN "part" ELSE "page"

Result ==
  CASE phase = "none" -> "none"
    [] Retrieving -> "pending"
    [] phase = "done" -> "returned"
    [] phase = "thrown" -> "threw"
Trouble == phase # "none" /\ (netFaults > 0 \/ Target = NoAddress)

\* To get_feeds all this is Retrieval: without a fault, and if the redirects
\* lead to a page, the article is that page, whole; only a fault or redirects
\* that lead nowhere make it throw.
Atomic == INSTANCE Retrieval WITH
  result <- Result, content <- Kind(m_article_content), trouble <- Trouble
ImplementsRetrieval == Atomic!Spec

-----------------------------------------------------------------------------
(* The inductive invariant behind ArticleIsNoRedirect and EveryEndpointTried *)

\* What a request works with: the next address is one, when it is used.
RequestOK ==
  /\ web \in Webs /\ up \in Ups
  /\ stage \in Stages /\ phase \in Phases
  /\ stage # "none" => address \in Addresses
  /\ Retrieving => stage # "none"
  /\ endpoint \in Nat /\ loop_count \in Nat /\ netFaults \in Nat /\ m_output \in Nat
  /\ m_status_code \in Statuses \cup {Unset}
  /\ m_header \in Addresses \cup {NoAddress}

\* A body is read only after a status line that is the answer's own, so no
\* uninitialised or garbled status goes with a body.
BodyHasStatus ==
  /\ stage \in {"none", "resolve", "connect", "write", "status", "headers"} => m_output = 0
  /\ stage \in {"headers", "content", "eof"} \/ m_output > 0 =>
       m_status_code = answer.status /\ m_status_code \in {HTTP_OK, HTTP_REDIR}

\* Without a fault the endpoints that were passed over are down.
PassedEndpointsDown ==
  Retrieving /\ stage = "connect" /\ netFaults = 0 =>
    \A e \in 1 .. endpoint - 1 : e \notin up[server]

\* Holds in every reachable state and is preserved by every step.
Inv == RequestOK /\ BodyHasStatus /\ PassedEndpointsDown /\ ArticleIsNoRedirect

-----------------------------------------------------------------------------
(* The inductive invariants behind TypeOK and the properties of cookies *)

\* The loop that fetched a hint may go on once more.
TypeInv == TypeOK /\ (phase = "hint" => loop_count < MaxRedirects)

JarOK ==
  /\ m_cookies \in Seq(Cookie)
  /\ UniqueCookies
  /\ granted \in [Sites -> Grants]

\* What a server gave is in the jar, with the last value it gave.
GrantsAreKept ==
  \A site \in Sites : \A name \in DOMAIN granted[site] :
    [website |-> site, name |-> name, value |-> granted[site][name]] \in Range(m_cookies)

\* What no server gave is a line of the cookies file.
OthersAreFiled ==
  \A c \in Range(m_cookies) : c.name \in DOMAIN granted[c.website] \/ c \in Range(CookieFile)

OnlyServersGive ==
  \A site \in Sites : DOMAIN granted[site] # {} => \E a \in Addresses : ServerOf[a] = site

\* The jar does not change between the making of a request and its sending.
RequestHasCookies == stage = "resolve" => cookie = CookiesFor(m_cookies, server)

\* Holds in every reachable state and, along with Inv, is preserved by every step.
JarInv == JarOK /\ GrantsAreKept /\ OthersAreFiled /\ OnlyServersGive /\ RequestHasCookies

-----------------------------------------------------------------------------
(* The inductive invariants behind ImplementsRetrieval *)

\* While nothing fails: what the client has of the answer to its request.
UndisturbedRequest ==
  Retrieving /\ netFaults = 0 =>
    /\ stage \in {"write", "status", "headers", "content", "eof"} => Reached(address)
    /\ stage \in {"content", "eof"} => m_header = answer.location
    /\ stage = "eof" => m_output = answer.chunks
    /\ stage = "failed" => ~Reached(address) \/ answer.status \notin {HTTP_OK, HTTP_REDIR}

\* And the rounds of the loop that are left lead to where all of them did.
TowardsTarget ==
  Retrieving /\ netFaults = 0 /\ Target # NoAddress =>
    /\ phase \in {"first", "new"} => FinalPage[MaxRedirects - loop_count][address] = Target
    /\ phase = "hint" =>
         IF Answers(address, HTTP_OK) THEN address = Target
         ELSE /\ Answers(address, HTTP_REDIR)
              /\ FinalPage[MaxRedirects - loop_count - 1][web[address].title] = Target

\* Along with Inv and TypeInv, preserved by every step.
ChainInv == UndisturbedRequest /\ TowardsTarget

-----------------------------------------------------------------------------
(* What the code's comments and messages say, and the code does not do *)

\* feed_watcher.cpp:52: "WARNING: Page moved": what the loop takes for a moved
\* page is an answer that said so.
PageMovedIsTrue ==
  [][FollowLocation \/ NoLocation => m_status_code = HTTP_REDIR]_vars
=============================================================================
