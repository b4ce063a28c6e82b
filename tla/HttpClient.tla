----------------------------- MODULE HttpClient ----------------------------
(***************************************************************************)
(* asio_http_client and http_client (http_client.cpp): one GET at a time,   *)
(* driven by a chain of completion handlers, against servers whose network  *)
(* refuses, cuts and delays.  A handler that does not start the next        *)
(* operation ends the request: io_service::run returns and http_client      *)
(* copies what there is, whether the request succeeded or not.              *)
(*                                                                         *)
(* A body is a number of chunks; only the first one matters to readers of   *)
(* a page (it holds the <TITLE>).                                          *)
(***************************************************************************)
EXTENDS CookieJar

CONSTANTS
  Addresses,    \* the addresses pages have, all of the form host/path
  NoAddress,
  ServerOf,     \* the host of an address
  EndpointsOf,  \* how many endpoints a host resolves to; 0: it does not
  Ups,          \* the endpoints that may be up, per host
  Webs,         \* what the addresses may answer
  MaxChunks,    \* bound: chunks of a body
  MaxNetFaults  \* bound: network faults in one article retrieval

HTTP_OK == 200
HTTP_REDIR == 302
HTTP_OTHER == 404         \* stands for every other status
Statuses == {HTTP_OK, HTTP_REDIR, HTTP_OTHER}
Unset == 0                \* the constructor leaves m_status_code as it is

\* An answer: where the Location: header and the title of the page point to,
\* the parts of its Set-Cookie lines, and the length of its body.
Answer == [status : Statuses, location : Addresses \cup {NoAddress},
           title : Addresses \cup {NoAddress}, cookies : Seq(Part),
           chunks : 0 .. MaxChunks]

ASSUME NoAddressAssumption == NoAddress \notin Addresses
ASSUME ServerOfAssumption == ServerOf \in [Addresses -> Sites]
ASSUME EndpointsAssumption == EndpointsOf \in [Sites -> Nat]
ASSUME UpsAssumption == Ups # {} /\ Ups \subseteq [Sites -> SUBSET (Nat \ {0})]
ASSUME WebsAssumption == Webs # {} /\ Webs \subseteq [Addresses -> Answer]
ASSUME ClientBoundsAssumption == MaxChunks \in Nat /\ MaxNetFaults \in Nat

VARIABLES
  web, up,        \* the surroundings, fixed for a behaviour
  stage,          \* the handler that runs next, or how the request ended
  address,        \* the address of the request
  endpoint,       \* the endpoint being connected
  cookie,         \* the cookies in the Cookie: line of the request
  m_status_code,
  m_header,       \* the address after Location: in m_header_stream
  m_output,       \* chunks in m_output_stream
  m_cookies,
  granted,        \* history: the last value a server gave a cookie since start
  netFaults

surroundings == <<web, up>>
jar == <<m_cookies, granted>>
request == <<stage, address, endpoint, cookie, m_status_code, m_header, m_output>>
httpVars == <<surroundings, jar, request, netFaults>>

Stages == {"none", "resolve", "connect", "write", "status", "headers", "content", "eof", "failed"}
Over == stage \in {"eof", "failed"}
Grants == UNION {[given -> Values] : given \in SUBSET Names}
Ungranted == [site \in Sites |-> [name \in {} |-> {}]]

HttpTypeOK ==
  /\ web \in Webs /\ up \in Ups
  /\ stage \in Stages
  /\ address \in Addresses \cup {NoAddress}
  /\ stage # "none" => address # NoAddress
  /\ endpoint \in Nat
  /\ stage = "connect" => endpoint \in 1 .. EndpointsOf[ServerOf[address]]
  /\ cookie \in SUBSET Cookie
  /\ m_status_code \in Statuses \cup {Unset}
  /\ m_header \in Addresses \cup {NoAddress}
  /\ m_output \in 0 .. MaxChunks
  /\ m_cookies \in Seq(Cookie)
  /\ granted \in [Sites -> Grants]
  /\ netFaults \in 0 .. MaxNetFaults

HttpInit ==
  /\ web \in Webs /\ up \in Ups
  /\ stage = "none" /\ address = NoAddress /\ endpoint = 0 /\ cookie = {}
  /\ m_status_code = Unset /\ m_header = NoAddress /\ m_output = 0
  /\ m_cookies = InitialCookies /\ granted = Ungranted
  /\ netFaults = 0

server == ServerOf[address]
answer == web[address]

-----------------------------------------------------------------------------

NetFault == netFaults < MaxNetFaults /\ netFaults' = netFaults + 1
NoNetFault == UNCHANGED netFaults

\* The constructor: the request line with its cookies, and async_resolve.
Request(a) ==
  /\ address' = a
  /\ stage' = "resolve" /\ endpoint' = 0
  /\ cookie' = CookiesFor(m_cookies, ServerOf[a])
  /\ m_status_code' = Unset /\ m_header' = NoAddress /\ m_output' = 0

\* What a handler that only starts the next operation leaves alone.
response == <<m_status_code, m_header, m_output>>
GoTo(next) ==
  stage' = next /\ UNCHANGED <<surroundings, jar, address, cookie, response>>

HandleResolve ==
  /\ stage = "resolve"
  /\ \/ /\ EndpointsOf[server] > 0 /\ NoNetFault
        /\ endpoint' = 1
        /\ GoTo("connect")
     \/ /\ (EndpointsOf[server] = 0 /\ NoNetFault) \/ NetFault
        /\ GoTo("failed") /\ UNCHANGED endpoint

\* (mutation) The end of the list would be seen one endpoint too early.
HasNextTooFew == endpoint + 1 < EndpointsOf[server]

\* endpoint_iterator, advanced when its endpoint was given to async_connect.
HasNext == endpoint < EndpointsOf[server]

HandleConnect ==
  /\ stage = "connect"
  /\ \/ /\ endpoint \in up[server] /\ NoNetFault
        /\ GoTo("write") /\ UNCHANGED endpoint
     \/ /\ (endpoint \notin up[server] /\ NoNetFault) \/ NetFault
        /\ IF HasNext
           THEN GoTo("connect") /\ endpoint' = endpoint + 1
           ELSE GoTo("failed") /\ UNCHANGED endpoint

HandleWriteRequest ==
  /\ stage = "write"
  /\ (GoTo("status") /\ NoNetFault) \/ (GoTo("failed") /\ NetFault)
  /\ UNCHANGED endpoint

\* m_status_code is only assigned when a status line arrives; a line that is
\* no HTTP status line may leave any number in it.
HandleReadStatusLine ==
  /\ stage = "status"
  /\ \/ /\ m_status_code' = answer.status /\ NoNetFault
        /\ stage' = IF answer.status \in {HTTP_OK, HTTP_REDIR} THEN "headers" ELSE "failed"
     \/ /\ m_status_code' \in Statuses \cup {Unset} /\ NetFault
        /\ stage' = "failed"
  /\ UNCHANGED <<surroundings, jar, address, endpoint, cookie, m_header, m_output>>

Give(before, name, value) ==
  [k \in DOMAIN before \cup {name} |-> IF k = name THEN value ELSE before[k]]

\* What a server has given once it has given these parts too: a later value
\* of a name replaces an earlier one.
Given(before, parts) ==
  LET given[n \in 0 .. Len(parts)] ==
        IF n = 0 THEN before
        ELSE IF parts[n] = Flag THEN given[n - 1]
        ELSE Give(given[n - 1], parts[n].name, parts[n].value)
  IN given[Len(parts)]

\* (mutation) Only the cookies of a page that is there would be kept.
HandleReadHeadersOfPage ==
  /\ stage = "headers"
  /\ \/ /\ NoNetFault
        /\ m_header' = answer.location
        /\ m_cookies' = IF m_status_code = HTTP_OK
                        THEN ExtractCookies(m_cookies, server, answer.cookies) ELSE m_cookies
        /\ granted' = [granted EXCEPT ![server] = Given(@, answer.cookies)]
        /\ m_output' \in 0 .. answer.chunks
        /\ stage' = "content"
     \/ /\ NetFault
        /\ stage' = "failed"
        /\ UNCHANGED <<jar, m_header, m_output>>
  /\ UNCHANGED <<surroundings, address, endpoint, cookie, m_status_code>>

\* The headers and the part of the body that arrived with them.
HandleReadHeaders ==
  /\ stage = "headers"
  /\ \/ /\ NoNetFault
        /\ m_header' = answer.location
        /\ m_cookies' = ExtractCookies(m_cookies, server, answer.cookies)
        /\ granted' = [granted EXCEPT ![server] = Given(@, answer.cookies)]
        /\ m_output' \in 0 .. answer.chunks
        /\ stage' = "content"
     \/ /\ NetFault
        /\ stage' = "failed"
        /\ UNCHANGED <<jar, m_header, m_output>>
  /\ UNCHANGED <<surroundings, address, endpoint, cookie, m_status_code>>

\* More of the body; its end; the connection closed before its end; or an
\* error, after which what was read stays in m_output_stream.
HandleReadContent ==
  /\ stage = "content"
  /\ \/ /\ NoNetFault
        /\ m_output' \in m_output + 1 .. answer.chunks
        /\ UNCHANGED stage
     \/ /\ (m_output = answer.chunks /\ NoNetFault) \/ NetFault
        /\ stage' = "eof" /\ UNCHANGED m_output
     \/ /\ NetFault
        /\ stage' = "failed" /\ UNCHANGED m_output
  /\ UNCHANGED <<surroundings, jar, address, endpoint, cookie, m_status_code, m_header>>

Handlers ==
  \/ HandleResolve \/ HandleConnect \/ HandleWriteRequest
  \/ HandleReadStatusLine \/ HandleReadHeaders \/ HandleReadContent

\* The status http_client::retrieve copies.  An m_status_code that was never
\* assigned holds what the stack held there, often an earlier response's.
StatusRead == IF m_status_code = Unset THEN Statuses ELSE {m_status_code}
=============================================================================
