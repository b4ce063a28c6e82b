------------------------ MODULE MC_ArticleRetriever ------------------------
(***************************************************************************)
(* Instances of ArticleRetriever for TLC.                                  *)
(***************************************************************************)
EXTENDS ArticleRetriever

CONSTANTS a1, a2, a3, s1, s2, d1, id, path, v0, v1, v2, v3, v4

Page(cookies, n) == [status |-> HTTP_OK, location |-> NoAddress, title |-> NoAddress,
                     cookies |-> cookies, chunks |-> n]
Gone == [status |-> HTTP_OTHER, location |-> NoAddress, title |-> NoAddress,
         cookies |-> <<>>, chunks |-> 1]
Moved(location, title, cookies) ==
  [status |-> HTTP_REDIR, location |-> location, title |-> title,
   cookies |-> cookies, chunks |-> 1]

Set(name, value) == [name |-> name, value |-> value]
Line(website, name, value) == [website |-> website, name |-> name, value |-> value]

\* Three pages on two servers: a1 and a2 on s1, which resolves to two endpoints
\* of which any are up, a3 on s2; d1 is a domain that the cookies file names.
Servers == [a \in {a1, a2, a3} |-> IF a = a3 THEN s2 ELSE s1]
Endpoints == [s \in {s1, s2, d1} |-> IF s = s1 THEN 2 ELSE IF s = s2 THEN 1 ELSE 0]
SomeUp == {[s \in {s1, s2, d1} |-> IF s = s1 THEN U ELSE {1}] : U \in SUBSET {1, 2}}

\* Redirects: a1 and a3 are each a page, gone, or redirect anywhere.
Anywhere == {a1, a3, NoAddress}
AnyAnswer ==
  {Page(<<>>, 2), Page(<<>>, 0), Gone} \cup
  UNION {{Moved(location, title, <<>>) : location \in Anywhere} : title \in Anywhere}
RedirectWebs ==
  {(a1 :> first @@ a2 :> Gone @@ a3 :> second) : first \in AnyAnswer, second \in AnyAnswer}

\* Cookies: a1 and a2 set the same cookie to different values, a2 along with a
\* redirect to a3, which sets it for s2; the file has it for the domain d1 of s1
\* and for s2.  Each of them gives it values of its own.
File == <<Line(d1, id, v0), Line(s2, id, v3)>>
Domain == [s \in {s1, s2, d1} |-> IF s = d1 THEN s1 ELSE s]
CookieWebs ==
  {(a1 :> Page(<<Set(id, v1), Flag, Set(path, v1)>>, 1)
      @@ a2 :> Moved(a3, NoAddress, parts)
      @@ a3 :> Moved(a1, a1, <<Set(id, v4)>>)) :
     parts \in {<<>>, <<Set(id, v2)>>, <<Set(id, v1), Set(id, v2)>>}}

AllWebs == RedirectWebs \cup CookieWebs
=============================================================================
