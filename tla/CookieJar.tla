----------------------------- MODULE CookieJar -----------------------------
(***************************************************************************)
(* configuration::m_cookies: the cookies of the cookies file and those      *)
(* servers have set since, kept in one vector for the whole process         *)
(* (globals.h), read and written by every request (http_client.cpp).       *)
(***************************************************************************)
EXTENDS Integers, SequencesExt

CONSTANTS
  Sites,    \* servers, and the domains that the cookies file names
  Names,    \* names of cookies, and of cookie attributes such as path
  Values,
  WwwOf,    \* "www" + site: the server a domain like ".lemonde.fr" is for;
            \* the site itself when that names no server
  Flag,     \* a part of Set-Cookie without "=", such as secure
  CookieFile  \* the lines of the cookies file

Cookie == [website : Sites, name : Names, value : Values]
Part == [name : Names, value : Values] \cup {Flag}

ASSUME WwwOfAssumption == WwwOf \in [Sites -> Sites]
ASSUME FlagIsNoPair == Flag \notin [name : Names, value : Values]
ASSUME CookieFileAssumption == CookieFile \in Seq(Cookie)

\* (mutation) Every cookie would be pushed back.
AddCookieAppends(cookies, website, name, value) ==
  Append(cookies, [website |-> website, name |-> name, value |-> value])

\* configuration::add_cookie: the first cookie of that website and name gets
\* the value; there is one more when there was none.
AddCookie(cookies, website, name, value) ==
  LET i == SelectInSeq(cookies, LAMBDA c : c.website = website /\ c.name = name)
  IN IF i # 0
     THEN [cookies EXCEPT ![i].value = value]
     ELSE Append(cookies, [website |-> website, name |-> name, value |-> value])

\* asio_http_client::extract_cookie_from_header: every name=value part of the
\* Set-Cookie lines is a cookie, attributes included.
ExtractCookies(cookies, server, parts) ==
  LET extracted[n \in 0 .. Len(parts)] ==
        IF n = 0 THEN cookies
        ELSE IF parts[n] = Flag THEN extracted[n - 1]
        ELSE AddCookie(extracted[n - 1], server, parts[n].name, parts[n].value)
  IN extracted[Len(parts)]

\* (mutation) Every server would get every cookie.
CookiesForAnyone(cookies, server) == Range(cookies)

\* asio_http_client::build_cookies_string; their order is left out.
CookiesFor(cookies, server) ==
  {c \in Range(cookies) : c.website = server \/ WwwOf[c.website] = server}

\* The cookies once parse_cookies has read the file.
InitialCookies ==
  LET parsed[n \in 0 .. Len(CookieFile)] ==
        IF n = 0 THEN <<>>
        ELSE AddCookie(parsed[n - 1], CookieFile[n].website,
                       CookieFile[n].name, CookieFile[n].value)
  IN parsed[Len(CookieFile)]
=============================================================================
