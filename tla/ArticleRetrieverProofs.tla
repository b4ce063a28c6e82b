---------------------- MODULE ArticleRetrieverProofs ----------------------
(***************************************************************************)
(* TLAPS proofs about ArticleRetriever, for any addresses, servers, webs of *)
(* redirects and numbers of faults: what is stored as an article is never a *)
(* redirect page unless the loop gave up, a connection is given up only     *)
(* after every endpoint, a request carries the latest cookies of its own    *)
(* server and no others, and a retrieval has the outcomes of Retrieval.     *)
(***************************************************************************)
EXTENDS ArticleRetriever, Induction

-----------------------------------------------------------------------------
(* The cookies: what add_cookie does to the vector, and that a loop of calls *)
(* of it leaves each cookie once, with its last value.                       *)

\* What one call works with.
OneOfEach(cookies) ==
  /\ cookies \in Seq(Cookie)
  /\ \A i, j \in DOMAIN cookies :
       cookies[i].website = cookies[j].website /\ cookies[i].name = cookies[j].name => i = j

CookieOf(site, name, value) == [website |-> site, name |-> name, value |-> value]
Others(cookies, site, name) ==
  {c \in Range(cookies) : ~(c.website = site /\ c.name = name)}

\* The index that add_cookie's loop stops at.
LEMMA FirstIndex ==
  ASSUME NEW cookies \in Seq(Cookie), NEW site, NEW name
  PROVE  LET i == SelectInSeq(cookies, LAMBDA c : c.website = site /\ c.name = name)
         IN \/ /\ i \in DOMAIN cookies
               /\ cookies[i].website = site /\ cookies[i].name = name
            \/ /\ i = 0
               /\ \A k \in DOMAIN cookies : ~(cookies[k].website = site /\ cookies[k].name = name)
<1> DEFINE I == {k \in 1 .. Len(cookies) : cookies[k].website = site /\ cookies[k].name = name}
           i == SelectInSeq(cookies, LAMBDA c : c.website = site /\ c.name = name)
<1>1. i = IF I # {} THEN CHOOSE x \in I : \A y \in I : x <= y ELSE 0
  BY DEF SelectInSeq, Min
<1>2. DOMAIN cookies = 1 .. Len(cookies)
  OBVIOUS
<1>3. CASE I = {}
  BY <1>1, <1>2, <1>3
<1>4. CASE I # {}
  <2>1. I \subseteq Nat
    OBVIOUS
  <2> HIDE DEF I
  <2>2. \E x \in I : \A y \in I : x <= y
    BY <1>4, <2>1, LeastNatural
  <2>3. i \in I
    BY <1>1, <1>4, <2>2
  <2> QED BY <1>2, <2>3 DEF I
<1> QED BY <1>3, <1>4

\* add_cookie: the cookie of that website and name is there with that value,
\* every other cookie is as it was, and each is there once.
LEMMA AddCookieAdds ==
  ASSUME NEW cookies, OneOfEach(cookies), NEW site \in Sites, NEW name \in Names,
         NEW value \in Values
  PROVE  LET added == AddCookie(cookies, site, name, value)
         IN /\ OneOfEach(added)
            /\ Range(added) = Others(cookies, site, name) \cup {CookieOf(site, name, value)}
<1> DEFINE i == SelectInSeq(cookies, LAMBDA c : c.website = site /\ c.name = name)
           new == CookieOf(site, name, value)
           added == AddCookie(cookies, site, name, value)
<1>1. /\ cookies \in Seq(Cookie)
      /\ DOMAIN cookies = 1 .. Len(cookies) /\ Len(cookies) \in Nat
      /\ \A k \in DOMAIN cookies : cookies[k] \in Cookie
  BY DEF OneOfEach
<1>2. \/ /\ i \in DOMAIN cookies
         /\ cookies[i].website = site /\ cookies[i].name = name
      \/ /\ i = 0
         /\ \A k \in DOMAIN cookies : ~(cookies[k].website = site /\ cookies[k].name = name)
  BY <1>1, FirstIndex
<1>3. added = IF i # 0 THEN [cookies EXCEPT ![i].value = value] ELSE Append(cookies, new)
  BY DEF AddCookie, CookieOf
<1>4. new \in Cookie /\ new.website = site /\ new.name = name
  BY DEF CookieOf, Cookie
<1> HIDE DEF i, added
<1>5. CASE i # 0
  <2>1. i \in DOMAIN cookies /\ cookies[i].website = site /\ cookies[i].name = name
    BY <1>2, <1>5
  <2>2. [cookies[i] EXCEPT !.value = value] = new
    <3>1. cookies[i] \in Cookie
      BY <1>1, <2>1
    <3> QED BY <2>1, <3>1 DEF CookieOf, Cookie
  <2>3. added = [cookies EXCEPT ![i] = new]
    BY <1>3, <1>5, <2>2
  <2>4. /\ added \in Seq(Cookie) /\ DOMAIN added = DOMAIN cookies
        /\ \A k \in DOMAIN cookies : added[k] = IF k = i THEN new ELSE cookies[k]
    BY <1>1, <1>4, <2>1, <2>3
  <2> HIDE DEF new
  <2>5. OneOfEach(added)
    BY <1>4, <2>1, <2>4 DEF OneOfEach
  <2>6. \A k \in DOMAIN cookies :
          k = i <=> cookies[k].website = site /\ cookies[k].name = name
    BY <2>1 DEF OneOfEach
  <2>7. Range(added) = Others(cookies, site, name) \cup {new}
    BY <2>1, <2>4, <2>6 DEF Others, Range
  <2> QED BY <2>5, <2>7 DEF added, new
<1>6. CASE i = 0
  <2>1. \A k \in DOMAIN cookies : ~(cookies[k].website = site /\ cookies[k].name = name)
    BY <1>1, <1>2, <1>6
  <2>2. /\ added \in Seq(Cookie) /\ DOMAIN added = 1 .. Len(cookies) + 1
        /\ \A k \in DOMAIN cookies : added[k] = cookies[k]
        /\ added[Len(cookies) + 1] = new
    BY <1>1, <1>3, <1>4, <1>6
  <2>3. \A k \in DOMAIN added : k \in DOMAIN cookies \/ k = Len(cookies) + 1
    BY <1>1, <2>2
  <2> HIDE DEF new
  <2>4. OneOfEach(added)
    <3> SUFFICES ASSUME NEW k \in DOMAIN added, NEW l \in DOMAIN added,
                        added[k].website = added[l].website, added[k].name = added[l].name
                 PROVE  k = l
      BY <2>2 DEF OneOfEach
    <3> QED BY <1>4, <2>1, <2>2, <2>3 DEF OneOfEach
  <2>5. Range(added) = Others(cookies, site, name) \cup {new}
    <3>1. Others(cookies, site, name) = Range(cookies)
      BY <2>1 DEF Others, Range
    <3>2. DOMAIN added = DOMAIN cookies \cup {Len(cookies) + 1}
      BY <1>1, <2>2
    <3>3. Range(added) = {added[k] : k \in DOMAIN cookies} \cup {new}
      BY <2>2, <3>2 DEF Range
    <3>4. {added[k] : k \in DOMAIN cookies} = Range(cookies)
      BY <2>2 DEF Range
    <3> QED BY <3>1, <3>3, <3>4
  <2> QED BY <2>4, <2>5 DEF added, new
<1> QED BY <1>5, <1>6

-----------------------------------------------------------------------------
(* The loops: their rounds *)

Jars == {cookies \in Seq(Cookie) : OneOfEach(cookies)}

LEMMA AddCookieJar ==
  ASSUME NEW cookies \in Jars, NEW site \in Sites, NEW name \in Names, NEW value \in Values
  PROVE  AddCookie(cookies, site, name, value) \in Jars
  BY AddCookieAdds DEF Jars, OneOfEach

\* Every part is a cookie or is skipped.
LEMMA PartOK ==
  ASSUME NEW parts \in Seq(Part), NEW n \in 1 .. Len(parts), parts[n] # Flag
  PROVE  parts[n].name \in Names /\ parts[n].value \in Values
<1>1. parts[n] \in Part
  OBVIOUS
<1> QED BY <1>1 DEF Part

\* The vector after each part that extract_cookie_from_header looks at.
Extracted(cookies, site, parts, extracted) ==
  extracted = [n \in 0 .. Len(parts) |->
                 IF n = 0 THEN cookies
                 ELSE IF parts[n] = Flag THEN extracted[n - 1]
                 ELSE AddCookie(extracted[n - 1], site, parts[n].name, parts[n].value)]

LEMMA ExtractedExists ==
  ASSUME NEW cookies \in Jars, NEW site \in Sites, NEW parts \in Seq(Part)
  PROVE  \E extracted : /\ extracted \in [0 .. Len(parts) -> Jars]
                        /\ Extracted(cookies, site, parts, extracted)
<1> DEFINE N == Len(parts)
           After(n, before) ==
             IF n \in 1 .. N /\ parts[n] # Flag
             THEN AddCookie(before, site, parts[n].name, parts[n].value) ELSE before
           round == [pair \in Nat \X Jars |-> After(pair[1], pair[2])]
<1>1. N \in Nat
  OBVIOUS
<1>2. \A n \in Nat, before \in Jars : After(n, before) \in Jars
  BY PartOK, AddCookieJar
<1> HIDE DEF After
<1>3. round \in [Nat \X Jars -> Jars]
  BY <1>2
<1>4. \A n \in Nat, before \in Jars : round[<<n, before>>] = After(n, before)
  OBVIOUS
<1> HIDE DEF round
<1>5. PICK f : Rounds(f, N, Jars, cookies, round)
  BY <1>1, <1>3, Iteration
<1>6. ASSUME NEW n \in 0 .. N, n # 0
      PROVE  f[n] = IF parts[n] = Flag THEN f[n - 1]
                    ELSE AddCookie(f[n - 1], site, parts[n].name, parts[n].value)
  <2>1. n \in Nat /\ n \in 1 .. N /\ n - 1 \in 0 .. N
    BY <1>1, <1>6
  <2>2. f[n] = round[<<n, f[n - 1]>>] /\ f[n - 1] \in Jars
    BY <1>5, <1>6, <2>1 DEF Rounds
  <2> QED BY <1>4, <2>1, <2>2 DEF After
<1>7. Extracted(cookies, site, parts, f)
  BY <1>5, <1>6 DEF Rounds, Extracted
<1> QED BY <1>5, <1>7 DEF Rounds

LEMMA ExtractCookiesRounds ==
  ASSUME NEW cookies \in Jars, NEW site \in Sites, NEW parts \in Seq(Part)
  PROVE  \E extracted : /\ Extracted(cookies, site, parts, extracted)
                        /\ ExtractCookies(cookies, site, parts) = extracted[Len(parts)]
<1> DEFINE f == CHOOSE extracted : Extracted(cookies, site, parts, extracted)
<1>1. Extracted(cookies, site, parts, f)
  BY ExtractedExists
<1>2. ExtractCookies(cookies, site, parts) = f[Len(parts)]
  BY Zenon DEF ExtractCookies, Extracted
<1> QED BY <1>1, <1>2

\* What the server has given after each part.
GivenAfter(before, parts, given) ==
  given = [n \in 0 .. Len(parts) |->
             IF n = 0 THEN before
             ELSE IF parts[n] = Flag THEN given[n - 1]
             ELSE Give(given[n - 1], parts[n].name, parts[n].value)]

\* One more value is given.
LEMMA GiveOne ==
  ASSUME NEW before \in Grants, NEW name \in Names, NEW value \in Values
  PROVE  LET after == Give(before, name, value)
         IN /\ after \in Grants
            /\ DOMAIN after = DOMAIN before \cup {name}
            /\ \A k \in DOMAIN after : after[k] = IF k = name THEN value ELSE before[k]
<1>1. PICK given \in SUBSET Names : before \in [given -> Values]
  BY DEF Grants
<1>2. Give(before, name, value) \in [given \cup {name} -> Values]
  BY <1>1 DEF Give
<1>3. given \cup {name} \in SUBSET Names
  OBVIOUS
<1> QED BY <1>2, <1>3 DEF Grants, Give

LEMMA GivenExists ==
  ASSUME NEW before \in Grants, NEW parts \in Seq(Part)
  PROVE  \E given : /\ given \in [0 .. Len(parts) -> Grants]
                    /\ GivenAfter(before, parts, given)
<1> DEFINE N == Len(parts)
           After(n, grants) ==
             IF n \in 1 .. N /\ parts[n] # Flag
             THEN Give(grants, parts[n].name, parts[n].value) ELSE grants
           round == [pair \in Nat \X Grants |-> After(pair[1], pair[2])]
<1>1. N \in Nat
  OBVIOUS
<1>2. \A n \in Nat, grants \in Grants : After(n, grants) \in Grants
  BY PartOK, GiveOne
<1> HIDE DEF After
<1>3. round \in [Nat \X Grants -> Grants]
  BY <1>2
<1>4. \A n \in Nat, grants \in Grants : round[<<n, grants>>] = After(n, grants)
  OBVIOUS
<1> HIDE DEF round
<1>5. PICK f : Rounds(f, N, Grants, before, round)
  BY <1>1, <1>3, Iteration
<1>6. ASSUME NEW n \in 0 .. N, n # 0
      PROVE  f[n] = IF parts[n] = Flag THEN f[n - 1]
                    ELSE Give(f[n - 1], parts[n].name, parts[n].value)
  <2>1. n \in Nat /\ n \in 1 .. N /\ n - 1 \in 0 .. N
    BY <1>1, <1>6
  <2>2. f[n] = round[<<n, f[n - 1]>>] /\ f[n - 1] \in Grants
    BY <1>5, <1>6, <2>1 DEF Rounds
  <2> QED BY <1>4, <2>1, <2>2 DEF After
<1>7. GivenAfter(before, parts, f)
  BY <1>5, <1>6 DEF Rounds, GivenAfter
<1> QED BY <1>5, <1>7 DEF Rounds

LEMMA GivenRounds ==
  ASSUME NEW before \in Grants, NEW parts \in Seq(Part)
  PROVE  \E given : /\ GivenAfter(before, parts, given)
                    /\ Given(before, parts) = given[Len(parts)]
<1> DEFINE f == CHOOSE given : GivenAfter(before, parts, given)
<1>1. GivenAfter(before, parts, f)
  BY GivenExists
<1>2. Given(before, parts) = f[Len(parts)]
  BY Zenon DEF Given, GivenAfter
<1> QED BY <1>1, <1>2

\* The vector after each line of the cookies file, and what it takes from it.
Parsed(parsed) ==
  parsed = [n \in 0 .. Len(CookieFile) |->
              IF n = 0 THEN <<>>
              ELSE AddCookie(parsed[n - 1], CookieFile[n].website,
                             CookieFile[n].name, CookieFile[n].value)]

FiledJars == {cookies \in Jars : Range(cookies) \subseteq Range(CookieFile)}

LEMMA AddFiledCookie ==
  ASSUME NEW before \in FiledJars, NEW n \in 1 .. Len(CookieFile)
  PROVE  AddCookie(before, CookieFile[n].website, CookieFile[n].name, CookieFile[n].value)
           \in FiledJars
<1> DEFINE line == CookieFile[n]
           after == AddCookie(before, line.website, line.name, line.value)
<1>1. line \in Cookie /\ line \in Range(CookieFile)
  BY CookieFileAssumption DEF Range
<1>2. line.website \in Sites /\ line.name \in Names /\ line.value \in Values
  BY <1>1 DEF Cookie
<1>3. CookieOf(line.website, line.name, line.value) = line
  BY <1>1 DEF Cookie, CookieOf
<1> HIDE DEF line
<1>4. before \in Jars /\ Range(before) \subseteq Range(CookieFile)
  BY DEF FiledJars
<1>5. after \in Jars
  BY <1>2, <1>4, AddCookieJar
<1>6. Range(after) = Others(before, line.website, line.name) \cup {line}
  BY <1>2, <1>3, <1>4, AddCookieAdds DEF Jars
<1> HIDE DEF after
<1>7. after \in FiledJars
  BY <1>1, <1>4, <1>5, <1>6 DEF FiledJars, Others
<1> QED BY <1>7 DEF after, line

LEMMA ParsedExists ==
  \E parsed : parsed \in [0 .. Len(CookieFile) -> FiledJars] /\ Parsed(parsed)
<1> DEFINE N == Len(CookieFile)
           After(n, before) ==
             IF n \in 1 .. N
             THEN AddCookie(before, CookieFile[n].website, CookieFile[n].name, CookieFile[n].value)
             ELSE before
           round == [pair \in Nat \X FiledJars |-> After(pair[1], pair[2])]
<1>1. N \in Nat
  BY CookieFileAssumption
<1>2. \A n \in Nat, before \in FiledJars : After(n, before) \in FiledJars
  BY AddFiledCookie
<1> HIDE DEF After
<1>3. round \in [Nat \X FiledJars -> FiledJars]
  BY <1>2
<1>4. \A n \in Nat, before \in FiledJars : round[<<n, before>>] = After(n, before)
  OBVIOUS
<1> HIDE DEF round
<1>5. <<>> \in FiledJars
  BY DEF FiledJars, Jars, OneOfEach, Range
<1>6. PICK f : Rounds(f, N, FiledJars, <<>>, round)
  BY <1>1, <1>3, <1>5, Iteration
<1>7. ASSUME NEW n \in 0 .. N, n # 0
      PROVE  f[n] = AddCookie(f[n - 1], CookieFile[n].website,
                              CookieFile[n].name, CookieFile[n].value)
  <2>1. n \in Nat /\ n \in 1 .. N /\ n - 1 \in 0 .. N
    BY <1>1, <1>7
  <2>2. f[n] = round[<<n, f[n - 1]>>] /\ f[n - 1] \in FiledJars
    BY <1>6, <1>7, <2>1 DEF Rounds
  <2> QED BY <1>4, <2>1, <2>2 DEF After
<1>8. Parsed(f)
  BY <1>6, <1>7 DEF Rounds, Parsed
<1> QED BY <1>6, <1>8 DEF Rounds

-----------------------------------------------------------------------------
(* The loops: their results *)

\* A value a server gave is in the vector; what no server gave is of the file.
Kept(cookies, grants) ==
  /\ \A site \in Sites : \A name \in DOMAIN grants[site] :
       CookieOf(site, name, grants[site][name]) \in Range(cookies)
  /\ \A c \in Range(cookies) : c.name \in DOMAIN grants[c.website] \/ c \in Range(CookieFile)

\* What parse_cookies makes of the file.
THEOREM InitialCookiesAreFiled ==
  InitialCookies \in Jars /\ Range(InitialCookies) \subseteq Range(CookieFile)
<1> DEFINE f == CHOOSE parsed : Parsed(parsed)
<1>1. Parsed(f)
  BY ParsedExists
<1>2. InitialCookies = f[Len(CookieFile)]
  BY Zenon DEF InitialCookies, Parsed
<1> HIDE DEF f
<1>3. Len(CookieFile) \in Nat
  BY CookieFileAssumption
<1> DEFINE S == {n \in Nat : n <= Len(CookieFile) => f[n] \in FiledJars}
<1>4. 0 \in S
  <2>1. f[0] = <<>>
    BY <1>1, <1>3 DEF Parsed
  <2>2. <<>> \in FiledJars
    BY DEF FiledJars, Jars, OneOfEach, Range
  <2> QED BY <2>1, <2>2
<1>5. ASSUME NEW n \in Nat, n \in S PROVE n + 1 \in S
  <2>1. SUFFICES ASSUME n + 1 <= Len(CookieFile) PROVE f[n + 1] \in FiledJars
    OBVIOUS
  <2>2. n + 1 \in 1 .. Len(CookieFile) /\ n + 1 \in 0 .. Len(CookieFile) /\ n + 1 - 1 = n
    BY <1>3, <2>1
  <2>3. f[n] \in FiledJars
    BY <1>3, <1>5, <2>1
  <2>4. f[n + 1] = AddCookie(f[n], CookieFile[n + 1].website,
                             CookieFile[n + 1].name, CookieFile[n + 1].value)
    BY <1>1, <2>2 DEF Parsed
  <2> QED BY <2>2, <2>3, <2>4, AddFiledCookie
<1> HIDE DEF S
<1>6. Len(CookieFile) \in S
  BY <1>3, <1>4, <1>5, SetInduction
<1> QED BY <1>2, <1>3, <1>6 DEF S, FiledJars

\* One cookie that a server sets.
LEMMA AddCookieKeeps ==
  ASSUME NEW cookies \in Jars, NEW grants \in [Sites -> Grants], Kept(cookies, grants),
         NEW site \in Sites, NEW name \in Names, NEW value \in Values
  PROVE  Kept(AddCookie(cookies, site, name, value),
              [grants EXCEPT ![site] = Give(grants[site], name, value)])
<1> DEFINE added == AddCookie(cookies, site, name, value)
           after == Give(grants[site], name, value)
           new == CookieOf(site, name, value)
<1>1. Range(added) = Others(cookies, site, name) \cup {new}
  BY AddCookieAdds DEF Jars
<1>2. /\ after \in Grants /\ DOMAIN after = DOMAIN grants[site] \cup {name}
      /\ \A k \in DOMAIN after : after[k] = IF k = name THEN value ELSE grants[site][k]
  BY GiveOne
<1>3. new.website = site /\ new.name = name
  BY DEF CookieOf
<1> HIDE DEF added, after
<1> DEFINE given == [grants EXCEPT ![site] = after]
<1>4. \A s \in Sites : given[s] = IF s = site THEN after ELSE grants[s]
  OBVIOUS
<1>5. ASSUME NEW c \in Range(cookies) PROVE c.website \in Sites
  <2>1. cookies \in Seq(Cookie)
    BY DEF Jars
  <2>2. c \in Cookie
    BY <2>1 DEF Range
  <2> QED BY <2>2 DEF Cookie
<1> HIDE DEF given
<1>6. ASSUME NEW s \in Sites, NEW k \in DOMAIN given[s]
      PROVE  CookieOf(s, k, given[s][k]) \in Range(added)
  <2>1. CASE s = site /\ k = name
    BY <1>1, <1>2, <1>4, <1>6, <2>1
  <2>2. CASE ~(s = site /\ k = name)
    <3>1. k \in DOMAIN grants[s] /\ given[s][k] = grants[s][k]
      BY <1>2, <1>4, <1>6, <2>2
    <3>2. CookieOf(s, k, grants[s][k]) \in Range(cookies)
      BY <3>1 DEF Kept
    <3>3. CookieOf(s, k, grants[s][k]).website = s /\ CookieOf(s, k, grants[s][k]).name = k
      BY DEF CookieOf
    <3> QED BY <1>1, <2>2, <3>1, <3>2, <3>3 DEF Others
  <2> QED BY <2>1, <2>2
<1> HIDE DEF new
<1>7. ASSUME NEW c \in Range(added)
      PROVE  c.name \in DOMAIN given[c.website] \/ c \in Range(CookieFile)
  <2>1. CASE c = new
    BY <1>2, <1>3, <1>4, <2>1
  <2>2. CASE c # new
    <3>1. c \in Range(cookies)
      BY <1>1, <1>7, <2>2 DEF Others
    <3>2. c.name \in DOMAIN grants[c.website] \/ c \in Range(CookieFile)
      BY <3>1 DEF Kept
    <3> QED BY <1>2, <1>4, <1>5, <3>1, <3>2
  <2> QED BY <2>1, <2>2
<1>8. Kept(added, given)
  BY <1>6, <1>7 DEF Kept
<1> QED BY <1>8 DEF added, given, after

\* All the cookies of a response: the vector stays a jar, and keeps what its
\* server gives now and what all servers gave before.
THEOREM ExtractCookiesKeeps ==
  ASSUME NEW cookies \in Jars, NEW grants \in [Sites -> Grants], Kept(cookies, grants),
         NEW site \in Sites, NEW parts \in Seq(Part)
  PROVE  /\ ExtractCookies(cookies, site, parts) \in Jars
         /\ Given(grants[site], parts) \in Grants
         /\ Kept(ExtractCookies(cookies, site, parts),
                 [grants EXCEPT ![site] = Given(grants[site], parts)])
<1> DEFINE N == Len(parts)
<1>1. N \in Nat
  OBVIOUS
<1>2. PICK f : Extracted(cookies, site, parts, f) /\ ExtractCookies(cookies, site, parts) = f[N]
  BY ExtractCookiesRounds
<1>3. grants[site] \in Grants
  OBVIOUS
<1>4. PICK g : GivenAfter(grants[site], parts, g) /\ Given(grants[site], parts) = g[N]
  BY <1>3, GivenRounds
<1> DEFINE With(given) == [grants EXCEPT ![site] = given]
           Holds(n) == f[n] \in Jars /\ g[n] \in Grants /\ Kept(f[n], With(g[n]))
           S == {n \in Nat : n <= N => Holds(n)}
<1>5. 0 \in S
  <2>1. f[0] = cookies /\ g[0] = grants[site]
    BY <1>1, <1>2, <1>4 DEF Extracted, GivenAfter
  <2>2. With(grants[site]) = grants
    OBVIOUS
  <2> QED BY <1>3, <2>1, <2>2
<1>6. ASSUME NEW n \in Nat, n \in S PROVE n + 1 \in S
  <2>1. SUFFICES ASSUME n + 1 <= N PROVE Holds(n + 1)
    OBVIOUS
  <2>2. n + 1 \in 1 .. N /\ n + 1 \in 0 .. N /\ n + 1 - 1 = n /\ n + 1 # 0
    BY <1>1, <2>1
  <2>3. Holds(n)
    BY <1>1, <1>6, <2>1
  <2> DEFINE part == parts[n + 1]
  <2>4. f[n + 1] = IF part = Flag THEN f[n] ELSE AddCookie(f[n], site, part.name, part.value)
    BY <1>2, <2>2 DEF Extracted
  <2>5. g[n + 1] = IF part = Flag THEN g[n] ELSE Give(g[n], part.name, part.value)
    BY <1>4, <2>2 DEF GivenAfter
  <2>6. part # Flag => part.name \in Names /\ part.value \in Values
    BY <2>2, PartOK
  <2> HIDE DEF part
  <2>7. CASE part = Flag
    BY <2>3, <2>4, <2>5, <2>7
  <2>8. CASE part # Flag
    <3> DEFINE given == With(g[n])
    <3>1. f[n] \in Jars /\ g[n] \in Grants /\ part.name \in Names /\ part.value \in Values
      BY <2>3, <2>6, <2>8
    <3>2. given \in [Sites -> Grants] /\ given[site] = g[n] /\ Kept(f[n], given)
      BY <2>3
    <3>3. With(g[n + 1]) = [given EXCEPT ![site] = g[n + 1]]
      OBVIOUS
    <3>4. f[n + 1] = AddCookie(f[n], site, part.name, part.value)
      BY <2>4, <2>8
    <3>5. g[n + 1] = Give(g[n], part.name, part.value)
      BY <2>5, <2>8
    <3> HIDE DEF given, With
    <3>6. f[n + 1] \in Jars
      BY <3>1, <3>4, AddCookieJar
    <3>7. g[n + 1] \in Grants
      <4>1. Give(g[n], part.name, part.value) \in Grants
        BY <3>1, GiveOne
      <4> QED BY <3>5, <4>1
    <3>8. Kept(AddCookie(f[n], site, part.name, part.value),
               [given EXCEPT ![site] = Give(given[site], part.name, part.value)])
      BY <3>1, <3>2, AddCookieKeeps
    <3>9. Kept(f[n + 1], With(g[n + 1]))
      BY <3>2, <3>3, <3>4, <3>5, <3>8
    <3> QED BY <3>6, <3>7, <3>9
  <2> QED BY <2>7, <2>8
<1> HIDE DEF S
<1>7. N \in S
  BY <1>1, <1>5, <1>6, SetInduction
<1>8. Holds(N)
  BY <1>1, <1>7 DEF S
<1> QED BY <1>2, <1>4, <1>8

-----------------------------------------------------------------------------
(* The retrieval *)

\* The assumptions on the constants, in one fact.
LEMMA Assumed ==
  /\ NoAddress \notin Addresses
  /\ ServerOf \in [Addresses -> Sites]
  /\ EndpointsOf \in [Sites -> Nat]
  /\ MaxNetFaults \in Nat /\ MaxRedirects \in Nat
  BY NoAddressAssumption, ServerOfAssumption, EndpointsAssumption,
     ClientBoundsAssumption, MaxRedirectsAssumption

\* The fields of an answer that the client uses.
LEMMA AnswerFields ==
  ASSUME web \in Webs, address \in Addresses
  PROVE  /\ answer.status \in Statuses
         /\ answer.location \in Addresses \cup {NoAddress}
         /\ answer.title \in Addresses \cup {NoAddress}
         /\ answer.cookies \in Seq(Part)
         /\ answer.chunks \in Nat /\ answer.chunks <= MaxChunks
<1>1. answer \in Answer
  BY WebsAssumption DEF answer
<1> QED BY <1>1, ClientBoundsAssumption DEF Answer

LEMMA InvInit == Init => Inv
  BY Assumed
     DEF Init, HttpInit, Inv, RequestOK, BodyHasStatus, PassedEndpointsDown, ArticleIsNoRedirect,
         Stages, Phases, Retrieving, NoContent

-----------------------------------------------------------------------------
(* Requests: the next address is one, and nothing of the last answer is left *)

LEMMA InvRequest ==
  ASSUME Inv, NEW a \in Addresses, Request(a), UNCHANGED surroundings,
         phase' \in {"first", "hint", "new"}, loop_count' \in Nat, netFaults' \in Nat
  PROVE  Inv'
<1> USE DEF Request, surroundings
<1>1. RequestOK'
  BY DEF Inv, RequestOK, Stages, Phases, Retrieving
<1>2. BodyHasStatus'
  BY DEF BodyHasStatus
<1>3. PassedEndpointsDown' /\ ArticleIsNoRedirect'
  BY DEF PassedEndpointsDown, ArticleIsNoRedirect
<1> QED BY <1>1, <1>2, <1>3 DEF Inv

LEMMA InvConstruct == Inv /\ Construct => Inv'
  BY InvRequest DEF Construct

LEMMA InvFollowLocation == Inv /\ FollowLocation => Inv'
<1> SUFFICES ASSUME Inv, FollowLocation PROVE Inv'
  OBVIOUS
<1>1. m_header \in Addresses
  BY DEF FollowLocation, Inv, RequestOK
<1> QED BY <1>1, InvRequest DEF FollowLocation, Inv, RequestOK

LEMMA InvFollowTitle == Inv /\ FollowTitle => Inv'
<1> SUFFICES ASSUME Inv, FollowTitle PROVE Inv'
  OBVIOUS
<1>1. address \in Addresses /\ web \in Webs
  BY DEF FollowTitle, HintIsNotThePage, Over, Inv, RequestOK
<1>2. Title \in Addresses
  BY <1>1, AnswerFields DEF FollowTitle, Title
<1> QED BY <1>2, InvRequest DEF FollowTitle, Inv, RequestOK

-----------------------------------------------------------------------------
(* Results: the content goes with the status it is judged by *)

\* The operands of Inv that speak of the request are kept by a step that leaves
\* the request alone and begins none.
LEMMA RequestKept ==
  ASSUME Inv, UNCHANGED <<surroundings, request, loop_count>>,
         phase' \in {"done", "thrown"}, netFaults' \in Nat
  PROVE  RequestOK' /\ BodyHasStatus' /\ PassedEndpointsDown'
<1> USE DEF surroundings, request
<1>1. RequestOK'
  BY DEF Inv, RequestOK, Phases, Retrieving
<1>2. BodyHasStatus'
  BY DEF Inv, BodyHasStatus, answer
<1>3. PassedEndpointsDown'
  BY DEF PassedEndpointsDown, Retrieving
<1> QED BY <1>1, <1>2, <1>3

LEMMA InvLeaveLoop == Inv /\ LeaveLoop => Inv'
<1> SUFFICES ASSUME Inv, LeaveLoop PROVE Inv'
  OBVIOUS
<1> USE DEF LeaveLoop, Returns, httpVars
<1>1. RequestOK' /\ BodyHasStatus' /\ PassedEndpointsDown'
  BY RequestKept DEF Inv, RequestOK
<1>2. ASSUME m_output # 0, loop_count < MaxRedirects
      PROVE  web[address].status = HTTP_OK
  <2>1. m_status_code = web[address].status /\ m_status_code \in {HTTP_OK, HTTP_REDIR}
    BY <1>2 DEF Inv, RequestOK, BodyHasStatus, answer
  <2>2. StatusRead = {m_status_code}
    BY <2>1 DEF StatusRead, Unset, HTTP_OK, HTTP_REDIR
  <2>3. m_status_code # HTTP_REDIR
    BY <1>2, <2>2 DEF GoesOn
  <2> QED BY <2>1, <2>3
<1>3. ArticleIsNoRedirect'
  BY <1>2 DEF ArticleIsNoRedirect, Content, surroundings
<1> QED BY <1>1, <1>3 DEF Inv

LEMMA InvHintIsThePage == Inv /\ HintIsThePage => Inv'
<1> SUFFICES ASSUME Inv, HintIsThePage PROVE Inv'
  OBVIOUS
<1> USE DEF HintIsThePage, Returns, httpVars
<1>1. RequestOK' /\ BodyHasStatus' /\ PassedEndpointsDown'
  BY RequestKept DEF Inv, RequestOK
<1>2. ASSUME m_output # 0
      PROVE  web[address].status = HTTP_OK
  <2>1. m_status_code = web[address].status /\ m_status_code \in {HTTP_OK, HTTP_REDIR}
    BY <1>2 DEF Inv, RequestOK, BodyHasStatus, answer
  <2> QED BY <2>1 DEF StatusRead, Unset, HTTP_OK, HTTP_REDIR
<1>3. ArticleIsNoRedirect'
  BY <1>2 DEF ArticleIsNoRedirect, Content, surroundings
<1> QED BY <1>1, <1>3 DEF Inv

LEMMA InvThrown == Inv /\ (NoLocation \/ NoTitle) => Inv'
<1> SUFFICES ASSUME Inv, NoLocation \/ NoTitle PROVE Inv'
  OBVIOUS
<1> USE DEF NoLocation, NoTitle, httpVars
<1>1. RequestOK' /\ BodyHasStatus' /\ PassedEndpointsDown'
  BY RequestKept DEF Inv, RequestOK
<1>2. ArticleIsNoRedirect'
  BY DEF ArticleIsNoRedirect
<1> QED BY <1>1, <1>2 DEF Inv

LEMMA InvConstructThrows == Inv /\ ConstructThrows => Inv'
<1> SUFFICES ASSUME Inv, ConstructThrows PROVE Inv'
  OBVIOUS
<1> USE DEF ConstructThrows, surroundings, request
<1>1. RequestOK'
  BY DEF Inv, RequestOK, Phases, Retrieving
<1>2. BodyHasStatus'
  BY DEF Inv, BodyHasStatus, answer
<1>3. PassedEndpointsDown' /\ ArticleIsNoRedirect'
  BY DEF PassedEndpointsDown, ArticleIsNoRedirect, Retrieving
<1> QED BY <1>1, <1>2, <1>3 DEF Inv

LEMMA InvCaught == Inv /\ Caught => Inv'
<1> SUFFICES ASSUME Inv, Caught PROVE Inv'
  OBVIOUS
<1> USE DEF Caught, Returns, NetFault
<1>1. RequestOK' /\ BodyHasStatus' /\ PassedEndpointsDown'
  BY RequestKept DEF Inv, RequestOK
<1>2. ArticleIsNoRedirect'
  BY DEF ArticleIsNoRedirect
<1> QED BY <1>1, <1>2 DEF Inv

LEMMA InvRestart == Inv /\ Restart => Inv'
<1> SUFFICES ASSUME Inv, Restart PROVE Inv'
  OBVIOUS
<1> USE DEF Restart, surroundings
<1>1. RequestOK'
  BY DEF Inv, RequestOK, Stages, Phases, Retrieving
<1>2. BodyHasStatus' /\ PassedEndpointsDown' /\ ArticleIsNoRedirect'
  BY DEF BodyHasStatus, PassedEndpointsDown, ArticleIsNoRedirect, Retrieving
<1> QED BY <1>1, <1>2 DEF Inv

-----------------------------------------------------------------------------
(* The handlers *)

\* A handler changes no operand of ArticleIsNoRedirect.
LEMMA ArticleKept ==
  ASSUME Inv, UNCHANGED <<web, retrieverVars>>
  PROVE  ArticleIsNoRedirect'
  BY DEF Inv, ArticleIsNoRedirect, retrieverVars

\* What every handler finds: a request under way, to a server that is known.
LEMMA Asked ==
  ASSUME Inv, Retrieving
  PROVE  /\ address \in Addresses /\ server \in Sites
         /\ EndpointsOf[server] \in Nat /\ netFaults \in Nat
  BY Assumed DEF Inv, RequestOK, server

LEMMA InvResolve ==
  ASSUME Inv, Retrieving, HandleResolve, UNCHANGED retrieverVars
  PROVE  Inv'
<1> USE DEF HandleResolve, GoTo, NoNetFault, NetFault, surroundings, response
<1>1. RequestOK'
  BY Asked DEF Inv, RequestOK, Stages, Retrieving, retrieverVars
<1>2. BodyHasStatus'
  BY DEF Inv, BodyHasStatus, RequestOK, answer
<1>3. PassedEndpointsDown'
  BY DEF PassedEndpointsDown
<1>4. ArticleIsNoRedirect'
  BY ArticleKept
<1> QED BY <1>1, <1>2, <1>3, <1>4 DEF Inv

\* The next endpoint is tried after one that is down, unless there was a fault.
LEMMA InvConnect ==
  ASSUME Inv, Retrieving, HandleConnect, UNCHANGED retrieverVars
  PROVE  Inv'
<1> USE DEF HandleConnect, GoTo, NoNetFault, NetFault, surroundings, response
<1>1. RequestOK'
  BY Asked DEF Inv, RequestOK, Stages, Retrieving, retrieverVars
<1>2. BodyHasStatus'
  BY DEF Inv, BodyHasStatus, RequestOK, answer
<1>3. PassedEndpointsDown'
  <2> SUFFICES ASSUME stage' = "connect", netFaults' = 0, NEW e \in 1 .. endpoint' - 1
               PROVE  e \notin up[server]
    BY DEF PassedEndpointsDown, server
  <2>1. endpoint \in Nat /\ netFaults \in Nat
    BY DEF Inv, RequestOK
  <2>2. netFaults = 0 /\ endpoint \notin up[server] /\ endpoint' = endpoint + 1
    BY <2>1
  <2>3. e \in 1 .. endpoint - 1 \/ e = endpoint
    BY <2>1, <2>2
  <2> QED BY <2>2, <2>3 DEF Inv, PassedEndpointsDown
<1>4. ArticleIsNoRedirect'
  BY ArticleKept
<1> QED BY <1>1, <1>2, <1>3, <1>4 DEF Inv

LEMMA InvWriteRequest ==
  ASSUME Inv, Retrieving, HandleWriteRequest, UNCHANGED retrieverVars
  PROVE  Inv'
<1> USE DEF HandleWriteRequest, GoTo, NoNetFault, NetFault, surroundings, response
<1>1. RequestOK'
  BY Asked DEF Inv, RequestOK, Stages, Retrieving, retrieverVars
<1>2. BodyHasStatus'
  BY DEF Inv, BodyHasStatus, RequestOK, answer
<1>3. PassedEndpointsDown'
  BY DEF PassedEndpointsDown
<1>4. ArticleIsNoRedirect'
  BY ArticleKept
<1> QED BY <1>1, <1>2, <1>3, <1>4 DEF Inv

\* The only place where m_status_code is assigned.
LEMMA InvReadStatusLine ==
  ASSUME Inv, Retrieving, HandleReadStatusLine, UNCHANGED retrieverVars
  PROVE  Inv'
<1> USE DEF HandleReadStatusLine, NoNetFault, NetFault, surroundings
<1>1. answer.status \in Statuses
  BY AnswerFields, Asked DEF Inv, RequestOK
<1>2. RequestOK'
  BY <1>1, Asked DEF Inv, RequestOK, Stages, Retrieving, retrieverVars
<1>3. BodyHasStatus'
  BY DEF Inv, BodyHasStatus, RequestOK, answer
<1>4. PassedEndpointsDown'
  BY DEF PassedEndpointsDown
<1>5. ArticleIsNoRedirect'
  BY ArticleKept
<1> QED BY <1>2, <1>3, <1>4, <1>5 DEF Inv

LEMMA InvReadHeaders ==
  ASSUME Inv, Retrieving, HandleReadHeaders, UNCHANGED retrieverVars
  PROVE  Inv'
<1> USE DEF HandleReadHeaders, NoNetFault, NetFault, surroundings
<1>1. answer.location \in Addresses \cup {NoAddress} /\ answer.chunks \in Nat
  BY AnswerFields, Asked DEF Inv, RequestOK
<1>2. m_output' \in Nat /\ m_header' \in Addresses \cup {NoAddress}
  BY <1>1 DEF Inv, RequestOK
<1>3. RequestOK'
  BY <1>2, Asked DEF Inv, RequestOK, Stages, Retrieving, retrieverVars
<1>4. BodyHasStatus'
  BY DEF Inv, BodyHasStatus, RequestOK, answer
<1>5. PassedEndpointsDown'
  BY DEF PassedEndpointsDown
<1>6. ArticleIsNoRedirect'
  BY ArticleKept
<1> QED BY <1>3, <1>4, <1>5, <1>6 DEF Inv

LEMMA InvReadContent ==
  ASSUME Inv, Retrieving, HandleReadContent, UNCHANGED retrieverVars
  PROVE  Inv'
<1> USE DEF HandleReadContent, NoNetFault, NetFault, surroundings
<1>1. answer.chunks \in Nat
  BY AnswerFields, Asked DEF Inv, RequestOK
<1>2. m_output' \in Nat
  BY <1>1 DEF Inv, RequestOK
<1>3. RequestOK'
  BY <1>2, Asked DEF Inv, RequestOK, Stages, Retrieving, retrieverVars
<1>4. BodyHasStatus'
  BY DEF Inv, BodyHasStatus, RequestOK, answer
<1>5. PassedEndpointsDown'
  BY DEF PassedEndpointsDown
<1>6. ArticleIsNoRedirect'
  BY ArticleKept
<1> QED BY <1>3, <1>4, <1>5, <1>6 DEF Inv

LEMMA InvHandle == Inv /\ Handle => Inv'
  BY InvResolve, InvConnect, InvWriteRequest, InvReadStatusLine, InvReadHeaders, InvReadContent
     DEF Handle, Handlers

-----------------------------------------------------------------------------
(* The theorems *)

LEMMA InvStutter == Inv /\ UNCHANGED vars => Inv'
<1> SUFFICES ASSUME Inv, UNCHANGED vars PROVE Inv'
  OBVIOUS
<1> USE DEF vars, httpVars, surroundings, request, retrieverVars
<1>1. RequestOK' /\ BodyHasStatus'
  BY DEF Inv, RequestOK, BodyHasStatus, Retrieving, answer
<1>2. PassedEndpointsDown' /\ ArticleIsNoRedirect'
  BY DEF Inv, PassedEndpointsDown, ArticleIsNoRedirect, Retrieving, server
<1> QED BY <1>1, <1>2 DEF Inv

LEMMA InvNext == Inv /\ [Next]_vars => Inv'
  BY InvConstruct, InvConstructThrows, InvHandle, InvLeaveLoop, InvFollowLocation, InvThrown,
     InvHintIsThePage, InvFollowTitle, InvCaught, InvRestart, InvStutter
     DEF Next, Step

\* The inductive invariant holds whatever the servers answer and the network does.
THEOREM Invariance == Spec => []Inv
  BY InvInit, InvNext, PTL DEF Spec

\* The article that get_feeds stores is never the body of a redirect, unless
\* all rounds of the loop are used up.
THEOREM NoRedirectIsStored == Spec => []ArticleIsNoRedirect
<1>1. Inv => ArticleIsNoRedirect
  BY DEF Inv
<1> QED BY <1>1, Invariance, PTL

\* Giving up on a connection, without a fault, means that every endpoint of
\* the server was down.
LEMMA GivingUp ==
  ASSUME Inv, [Next]_vars, stage = "connect", stage' = "failed", netFaults' = 0
  PROVE  up[server] \cap 1 .. EndpointsOf[server] = {}
<1>1. Retrieving /\ HandleConnect
  BY DEF Next, Step, Construct, ConstructThrows, Request, Handle, Handlers, HandleResolve,
         HandleWriteRequest, HandleReadStatusLine, HandleReadHeaders, HandleReadContent,
         LeaveLoop, AtLoopTest, Over, FollowLocation, NoLocation, HintIsThePage,
         HintIsNotThePage, FollowTitle, NoTitle, Caught, Restart, vars, httpVars, request
<1>2. endpoint \in Nat /\ netFaults \in Nat /\ EndpointsOf[server] \in Nat
  BY <1>1, Asked DEF Inv, RequestOK
<1>3. netFaults = 0 /\ endpoint \notin up[server] /\ ~HasNext
  BY <1>1, <1>2 DEF HandleConnect, GoTo, NoNetFault, NetFault
<1>4. \A e \in 1 .. EndpointsOf[server] : e \in 1 .. endpoint - 1 \/ e = endpoint
  BY <1>2, <1>3 DEF HasNext
<1>5. \A e \in 1 .. endpoint - 1 : e \notin up[server]
  BY <1>1, <1>3 DEF Inv, PassedEndpointsDown
<1> QED BY <1>3, <1>4, <1>5

\* Each endpoint is tried until one accepts, for any list of endpoints.
THEOREM EndpointsAreTried == Spec => EveryEndpointTried
<1>1. Inv /\ [Next]_vars =>
        [stage = "connect" /\ stage' = "failed" /\ netFaults' = 0
           => up[server] \cap 1 .. EndpointsOf[server] = {}]_vars
  BY GivingUp
<1> QED BY <1>1, Invariance, PTL DEF Spec, EveryEndpointTried

-----------------------------------------------------------------------------
(* The jar *)

LEMMA JarIsJar == JarOK => m_cookies \in Jars
  BY DEF JarOK, UniqueCookies, Jars, OneOfEach

LEMMA JarIsKept == GrantsAreKept /\ OthersAreFiled <=> Kept(m_cookies, granted)
  BY DEF GrantsAreKept, OthersAreFiled, Kept, CookieOf

\* A process begins with the cookies of the file, and nothing granted.
LEMMA Beginning ==
  /\ InitialCookies \in Jars /\ Range(InitialCookies) \subseteq Range(CookieFile)
  /\ Ungranted \in [Sites -> Grants]
  /\ \A site \in Sites : DOMAIN Ungranted[site] = {}
<1>1. \A site \in Sites : Ungranted[site] \in Grants /\ DOMAIN Ungranted[site] = {}
  BY DEF Ungranted, Grants
<1> QED BY <1>1, InitialCookiesAreFiled DEF Ungranted

LEMMA JarInvInit == Init => JarInv
  BY Beginning
     DEF Init, HttpInit, JarInv, JarOK, UniqueCookies, Jars, OneOfEach, GrantsAreKept,
         OthersAreFiled, OnlyServersGive, RequestHasCookies

LEMMA JarInvRestart == Restart => JarInv'
  BY Beginning
     DEF Restart, JarInv, JarOK, UniqueCookies, Jars, OneOfEach, GrantsAreKept,
         OthersAreFiled, OnlyServersGive, RequestHasCookies

\* Only the headers of a response and the start of a process change the jar,
\* and only a new request changes what is sent.
LEMMA JarSteps ==
  ASSUME [Next]_vars
  PROVE  \/ /\ UNCHANGED jar
            /\ \/ \E a : Request(a)
               \/ stage' # "resolve"
               \/ UNCHANGED <<stage, address, cookie>>
         \/ Retrieving /\ HandleReadHeaders
         \/ Restart
  BY DEF Next, Step, Construct, ConstructThrows, Handle, Handlers, HandleResolve, HandleConnect,
         HandleWriteRequest, HandleReadStatusLine, HandleReadContent, GoTo, LeaveLoop,
         FollowLocation, NoLocation, HintIsThePage, FollowTitle, NoTitle, Caught, vars, httpVars,
         request, jar

\* The headers: their cookies are the last that their server gave.
LEMMA JarReadHeaders ==
  ASSUME Inv, JarInv, Retrieving, HandleReadHeaders
  PROVE  JarInv'
<1>1. RequestHasCookies'
  BY DEF HandleReadHeaders, RequestHasCookies
<1>2. CASE UNCHANGED jar
  BY <1>1, <1>2
     DEF JarInv, JarOK, UniqueCookies, GrantsAreKept, OthersAreFiled, OnlyServersGive, jar
<1>3. CASE /\ m_cookies' = ExtractCookies(m_cookies, server, answer.cookies)
           /\ granted' = [granted EXCEPT ![server] = Given(granted[server], answer.cookies)]
  <2>1. address \in Addresses /\ server = ServerOf[address] /\ server \in Sites
    BY Asked DEF server
  <2>2. answer.cookies \in Seq(Part)
    BY <2>1, AnswerFields DEF Inv, RequestOK
  <2>3. m_cookies \in Jars /\ granted \in [Sites -> Grants] /\ Kept(m_cookies, granted)
    BY JarIsJar, JarIsKept DEF JarInv, JarOK
  <2>4. /\ m_cookies' \in Jars /\ Given(granted[server], answer.cookies) \in Grants
        /\ Kept(m_cookies', granted')
    BY <1>3, <2>1, <2>2, <2>3, ExtractCookiesKeeps
  <2>5. granted' \in [Sites -> Grants]
    BY <1>3, <2>3, <2>4
  <2>6. JarOK'
    BY <2>4, <2>5 DEF JarOK, UniqueCookies, Jars, OneOfEach
  <2>7. GrantsAreKept' /\ OthersAreFiled'
    BY <2>4 DEF GrantsAreKept, OthersAreFiled, Kept, CookieOf
  <2>8. OnlyServersGive'
    <3>1. \A site \in Sites : site = server \/ granted'[site] = granted[site]
      BY <1>3, <2>3
    <3> QED BY <2>1, <3>1 DEF JarInv, OnlyServersGive
  <2> QED BY <1>1, <2>6, <2>7, <2>8 DEF JarInv
<1> QED BY <1>2, <1>3 DEF HandleReadHeaders

LEMMA JarInvNext == Inv /\ JarInv /\ [Next]_vars => JarInv'
<1> SUFFICES ASSUME Inv, JarInv, [Next]_vars PROVE JarInv'
  OBVIOUS
<1>1. CASE UNCHANGED jar /\ \E a : Request(a)
  <2>1. RequestHasCookies'
    BY <1>1 DEF Request, RequestHasCookies, jar, server
  <2> QED BY <1>1, <2>1
          DEF JarInv, JarOK, UniqueCookies, GrantsAreKept, OthersAreFiled, OnlyServersGive, jar
<1>2. CASE UNCHANGED jar /\ (stage' # "resolve" \/ UNCHANGED <<stage, address, cookie>>)
  <2>1. RequestHasCookies'
    BY <1>2 DEF JarInv, RequestHasCookies, jar, server
  <2> QED BY <1>2, <2>1
          DEF JarInv, JarOK, UniqueCookies, GrantsAreKept, OthersAreFiled, OnlyServersGive, jar
<1>3. CASE Retrieving /\ HandleReadHeaders
  BY <1>3, JarReadHeaders
<1>4. CASE Restart
  BY <1>4, JarInvRestart
<1> QED BY <1>1, <1>2, <1>3, <1>4, JarSteps

\* Whatever servers set and however often, in redirects, failed reads and
\* restarts: the jar holds what they gave last and the rest of the file.
THEOREM JarInvariance == Spec => [](Inv /\ JarInv)
<1>1. Init => Inv /\ JarInv
  BY InvInit, JarInvInit
<1>2. Inv /\ JarInv /\ [Next]_vars => (Inv /\ JarInv)'
  BY InvNext, JarInvNext
<1> QED BY <1>1, <1>2, PTL DEF Spec

\* The vector of cookies has one cookie per website and name.
THEOREM CookiesAreUnique == Spec => []UniqueCookies
<1>1. JarInv => UniqueCookies
  BY DEF JarInv, JarOK
<1> QED BY <1>1, JarInvariance, PTL

\* A request carries the last value its server gave for each cookie.
THEOREM LatestCookiesAreSent == Spec => []LatestCookieSent
<1>1. ASSUME Inv, JarInv PROVE LatestCookieSent
  <2> SUFFICES ASSUME stage = "resolve", NEW name \in DOMAIN granted[server]
               PROVE  <<name, granted[server][name]>> \in Pairs(cookie)
    BY DEF LatestCookieSent
  <2> DEFINE c == CookieOf(server, name, granted[server][name])
  <2>1. server \in Sites
    BY Assumed, <1>1 DEF Inv, RequestOK, server
  <2>2. c \in Range(m_cookies)
    BY <1>1, <2>1 DEF JarInv, GrantsAreKept, CookieOf
  <2>3. c.website = server /\ c.name = name /\ c.value = granted[server][name]
    BY DEF CookieOf
  <2> HIDE DEF c
  <2>4. c \in cookie
    BY <1>1, <2>2, <2>3 DEF JarInv, RequestHasCookies, CookiesFor
  <2> QED BY <2>3, <2>4 DEF Pairs
<1>2. Inv /\ JarInv => LatestCookieSent
  BY <1>1
<1> QED BY <1>2, JarInvariance, PTL

\* No server is what another becomes with "www" in front of it, as the domain
\* ".lemonde.fr" becomes a server.
ServersAreNoDomains == \A a \in Addresses : WwwOf[ServerOf[a]] = ServerOf[a]

\* Then what is sent is what the server gave last, and lines of the cookies file
\* for it that it has not replaced: no value of another server.
THEOREM CookiesStay ==
  ASSUME ServersAreNoDomains
  PROVE  Spec => []CookiesStayWithTheirServer
<1>1. ASSUME Inv, JarInv PROVE CookiesStayWithTheirServer
  <2> DEFINE filed == {c \in CookiesFor(CookieFile, server) : ~Replaced(c)}
  <2> SUFFICES ASSUME stage = "resolve", NEW c \in cookie
               PROVE  \/ c.name \in DOMAIN granted[server] /\ c.value = granted[server][c.name]
                      \/ <<c.name, c.value>> \in Pairs(filed)
    BY DEF CookiesStayWithTheirServer, Pairs
  <2>1. c \in Range(m_cookies) /\ (c.website = server \/ WwwOf[c.website] = server)
    BY <1>1 DEF JarInv, RequestHasCookies, CookiesFor
  <2>2. c.website \in Sites
    <3>1. m_cookies \in Seq(Cookie)
      BY <1>1 DEF JarInv, JarOK
    <3>2. c \in Cookie
      BY <2>1, <3>1 DEF Range
    <3> QED BY <3>2 DEF Cookie
  <2>3. CASE c.name \in DOMAIN granted[c.website]
    <3>1. PICK a \in Addresses : ServerOf[a] = c.website
      BY <1>1, <2>2, <2>3 DEF JarInv, OnlyServersGive
    <3>2. c.website = server
      BY <2>1, <3>1 DEF ServersAreNoDomains
    <3> DEFINE d == CookieOf(server, c.name, granted[server][c.name])
    <3>3. d \in Range(m_cookies)
      BY <1>1, <2>2, <2>3, <3>2 DEF JarInv, GrantsAreKept, CookieOf
    <3>4. d.website = server /\ d.name = c.name /\ d.value = granted[server][c.name]
      BY DEF CookieOf
    <3> HIDE DEF d
    <3>5. d = c
      BY <1>1, <2>1, <3>2, <3>3, <3>4 DEF JarInv, JarOK, UniqueCookies, Range
    <3> QED BY <2>3, <3>2, <3>4, <3>5
  <2>4. CASE c.name \notin DOMAIN granted[c.website]
    <3>1. c \in Range(CookieFile)
      BY <1>1, <2>1, <2>4 DEF JarInv, OthersAreFiled
    <3>2. c \in CookiesFor(CookieFile, server) /\ ~Replaced(c)
      BY <2>1, <2>4, <3>1 DEF CookiesFor, Replaced
    <3> QED BY <3>2 DEF Pairs
  <2> QED BY <2>3, <2>4
<1>2. Inv /\ JarInv => CookiesStayWithTheirServer
  BY <1>1
<1>3. Spec => [](Inv /\ JarInv)
  BY JarInvariance
<1> QED BY <1>2, <1>3, PTL

-----------------------------------------------------------------------------
(* Types *)

LEMMA TypeInit == Init => TypeInv
<1> SUFFICES ASSUME Init PROVE TypeInv
  OBVIOUS
<1>1. m_cookies \in Seq(Cookie) /\ granted \in [Sites -> Grants]
  BY JarInvInit DEF JarInv, JarOK
<1> QED BY <1>1, Assumed, ClientBoundsAssumption
        DEF Init, HttpInit, TypeInv, TypeOK, HttpTypeOK, Stages, Phases, Retrieving, NoContent

\* What TypeInv says of the request, and of the retrieval.
LEMMA TypeRequest ==
  ASSUME TypeInv, JarOK, JarOK', NEW a \in Addresses, Request(a), UNCHANGED surroundings,
         netFaults' \in 0 .. MaxNetFaults
  PROVE  HttpTypeOK' /\ stage' # "none"
<1>1. cookie' \in SUBSET Cookie
  <2>1. Range(m_cookies) \subseteq Cookie
    BY DEF JarOK, Range
  <2> QED BY <2>1 DEF Request, CookiesFor
<1> QED BY <1>1, Assumed, ClientBoundsAssumption
        DEF Request, HttpTypeOK, JarOK, TypeInv, TypeOK, Stages, surroundings

LEMMA TypeHandle ==
  ASSUME TypeInv, Inv, JarOK', Handle
  PROVE  TypeInv'
<1>1. /\ address \in Addresses /\ server \in Sites /\ server = ServerOf[address]
      /\ EndpointsOf[server] \in Nat
  BY Asked DEF Handle, server
<1>2. /\ answer.status \in Statuses /\ answer.location \in Addresses \cup {NoAddress}
      /\ answer.chunks \in Nat /\ answer.chunks <= MaxChunks
  BY <1>1, AnswerFields DEF Inv, RequestOK
<1>3. MaxNetFaults \in Nat /\ MaxChunks \in Nat
  BY ClientBoundsAssumption
<1>4. m_cookies' \in Seq(Cookie) /\ granted' \in [Sites -> Grants]
  BY DEF JarOK
<1>5. netFaults' \in 0 .. MaxNetFaults
  BY <1>3 DEF Handle, Handlers, HandleResolve, HandleConnect, HandleWriteRequest,
              HandleReadStatusLine, HandleReadHeaders, HandleReadContent, NetFault, NoNetFault,
              TypeInv, TypeOK, HttpTypeOK
<1>6. HttpTypeOK' /\ stage' # "none"
  <2> USE <1>1, <1>2, <1>3, <1>4, <1>5 DEF TypeInv, TypeOK, HttpTypeOK, Stages, surroundings
  <2>1. CASE HandleResolve
    BY <2>1 DEF HandleResolve, GoTo, response, server
  <2>2. CASE HandleConnect
    BY <2>2 DEF HandleConnect, GoTo, response, server, HasNext
  <2>3. CASE HandleWriteRequest
    BY <2>3 DEF HandleWriteRequest, GoTo, response
  <2>4. CASE HandleReadStatusLine
    BY <2>4 DEF HandleReadStatusLine
  <2>5. CASE HandleReadHeaders
    BY <2>5 DEF HandleReadHeaders
  <2>6. CASE HandleReadContent
    BY <2>6 DEF HandleReadContent
  <2> QED BY <2>1, <2>2, <2>3, <2>4, <2>5, <2>6 DEF Handle, Handlers
<1> QED BY <1>6 DEF Handle, retrieverVars, TypeInv, TypeOK, Retrieving

LEMMA TypeNext ==
  ASSUME TypeInv, Inv, JarOK, JarOK', [Next]_vars
  PROVE  TypeInv'
<1> USE DEF TypeInv, TypeOK
<1>1. /\ MaxNetFaults \in Nat /\ MaxChunks \in Nat /\ MaxRedirects \in Nat
      /\ NoContent \in [page : Addresses \cup {NoAddress}, chunks : 0 .. MaxChunks]
  BY ClientBoundsAssumption, MaxRedirectsAssumption DEF NoContent
<1>2. Content \in [page : Addresses \cup {NoAddress}, chunks : 0 .. MaxChunks]
  BY <1>1 DEF Content, HttpTypeOK
<1>3. m_cookies' \in Seq(Cookie) /\ granted' \in [Sites -> Grants]
  BY DEF JarOK
<1>4. CASE Construct
  <2>1. HttpTypeOK' /\ stage' # "none"
    BY <1>1, <1>4, TypeRequest DEF Construct
  <2> QED BY <1>1, <1>4, <2>1 DEF Construct, Phases
<1>5. CASE ConstructThrows
  BY <1>1, <1>3, <1>5
     DEF ConstructThrows, HttpTypeOK, Phases, Retrieving, surroundings, request, server
<1>6. CASE Handle
  BY <1>6, TypeHandle
<1>7. CASE LeaveLoop \/ HintIsThePage
  BY <1>2, <1>3, <1>7
     DEF LeaveLoop, HintIsThePage, Returns, HttpTypeOK, Phases, Retrieving, httpVars, surroundings,
         request, jar, server
<1>8. CASE FollowLocation
  <2>1. m_header \in Addresses
    BY <1>8 DEF FollowLocation, HttpTypeOK
  <2>2. HttpTypeOK' /\ stage' # "none"
    BY <1>8, <2>1, TypeRequest DEF FollowLocation, HttpTypeOK
  <2>3. loop_count < MaxRedirects
    BY <1>8 DEF FollowLocation, GoesOn
  <2> QED BY <1>8, <2>2, <2>3 DEF FollowLocation, Phases
<1>9. CASE NoLocation \/ NoTitle
  BY <1>3, <1>9
     DEF NoLocation, NoTitle, HttpTypeOK, Phases, Retrieving, httpVars, surroundings, request, jar,
         server
<1>10. CASE FollowTitle
  <2>1. address \in Addresses /\ web \in Webs
    BY <1>10 DEF FollowTitle, HintIsNotThePage, Over, Inv, RequestOK
  <2>2. Title \in Addresses
    BY <1>10, <2>1, AnswerFields DEF FollowTitle, Title
  <2>3. HttpTypeOK' /\ stage' # "none"
    BY <1>10, <2>2, TypeRequest DEF FollowTitle, HttpTypeOK
  <2>4. loop_count + 1 \in 0 .. MaxRedirects
    BY <1>1, <1>10 DEF FollowTitle, HintIsNotThePage
  <2> QED BY <1>10, <2>3, <2>4 DEF FollowTitle, Phases
<1>11. CASE Caught
  BY <1>1, <1>3, <1>11
     DEF Caught, Returns, NetFault, HttpTypeOK, Phases, Retrieving, surroundings, request, jar,
         server
<1>12. CASE Restart
  BY <1>1, <1>3, <1>12
     DEF Restart, HttpTypeOK, Stages, Phases, Retrieving, surroundings
<1>13. CASE UNCHANGED vars
  BY <1>3, <1>13
     DEF vars, retrieverVars, HttpTypeOK, Retrieving, httpVars, surroundings, request, jar, server
<1> QED BY <1>4, <1>5, <1>6, <1>7, <1>8, <1>9, <1>10, <1>11, <1>12, <1>13 DEF Next, Step

LEMMA TypeInvariance == Spec => [](TypeInv /\ Inv)
<1>1. Init => TypeInv
  BY TypeInit
<1>2. TypeInv /\ (Inv /\ JarInv) /\ (Inv /\ JarInv)' /\ [Next]_vars => TypeInv'
  BY TypeNext DEF JarInv
<1> QED BY <1>1, <1>2, JarInvariance, PTL DEF Spec

\* Every variable keeps its type, and the loop its bound.
THEOREM TypeCorrect == Spec => []TypeOK
<1>1. TypeInv => TypeOK
  BY DEF TypeInv
<1> QED BY <1>1, TypeInvariance, PTL

-----------------------------------------------------------------------------
(* Where the redirects lead *)

Pages == Addresses \cup {NoAddress}

\* One round of the redirects from a; from leads on from each page.
PageFrom(from, last, a) ==
  LET hint == web[a].location
  IN IF Answers(a, HTTP_OK) THEN a
     ELSE IF last \/ ~Answers(a, HTTP_REDIR) THEN NoAddress
     ELSE IF Answers(hint, HTTP_OK) THEN hint
     ELSE IF Answers(hint, HTTP_REDIR) THEN from[web[hint].title]
     ELSE NoAddress

LeadsTo(f) ==
  f = [n \in 0 .. MaxRedirects |-> [a \in Pages |-> PageFrom(f[n - 1], n = 0, a)]]

LEMMA PageFromIsPage ==
  ASSUME web \in Webs, NEW from, NEW last, last \/ from \in [Pages -> Pages], NEW a \in Pages
  PROVE  PageFrom(from, last, a) \in Pages
<1>1. \A b \in Addresses : web[b] \in Answer
  BY WebsAssumption
<1>2. \A b \in Addresses : web[b].location \in Pages /\ web[b].title \in Pages
  BY <1>1 DEF Answer, Pages
<1> QED BY <1>2 DEF PageFrom, Answers, Pages

LEMMA LeadsToExists ==
  ASSUME web \in Webs
  PROVE  \E f : f \in [0 .. MaxRedirects -> [Pages -> Pages]] /\ LeadsTo(f)
<1> DEFINE V == [Pages -> Pages]
           Round(from, last) == [a \in Pages |-> PageFrom(from, last, a)]
           round == [pair \in Nat \X V |-> Round(pair[2], FALSE)]
<1>1. \A from \in V : Round(from, FALSE) \in V
  BY PageFromIsPage
<1>2. Round(NoAddress, TRUE) \in V
  BY PageFromIsPage
<1> HIDE DEF V, Round
<1>3. round \in [Nat \X V -> V]
  BY <1>1
<1>4. \A n \in Nat, from \in V : round[<<n, from>>] = Round(from, FALSE)
  OBVIOUS
<1> HIDE DEF round
<1>5. PICK f : Rounds(f, MaxRedirects, V, Round(NoAddress, TRUE), round)
  BY <1>2, <1>3, MaxRedirectsAssumption, Iteration
<1>6. ASSUME NEW n \in 0 .. MaxRedirects PROVE f[n] = Round(f[n - 1], n = 0)
  <2>1. CASE n = 0
    <3>1. f[0] = Round(NoAddress, TRUE)
      BY <1>5, <2>1 DEF Rounds
    <3>2. Round(NoAddress, TRUE) = Round(f[0 - 1], TRUE)
      BY DEF Round, PageFrom
    <3> QED BY <2>1, <3>1, <3>2
  <2>2. CASE n # 0
    <3>1. n \in Nat /\ n - 1 \in 0 .. MaxRedirects /\ (n = 0) = FALSE
      BY <2>2, MaxRedirectsAssumption
    <3>2. f[n - 1] \in V /\ f[n] = round[<<n, f[n - 1]>>]
      BY <1>5, <2>2, <3>1 DEF Rounds
    <3> QED BY <1>4, <3>1, <3>2
  <2> QED BY <2>1, <2>2
<1>7. LeadsTo(f)
  BY <1>5, <1>6 DEF Rounds, LeadsTo, Round
<1> QED BY <1>5, <1>7 DEF Rounds, V

\* What the definition of FinalPage defines.
LEMMA FinalPageIs ==
  ASSUME web \in Webs, NEW n \in 0 .. MaxRedirects, NEW a \in Pages
  PROVE  FinalPage[n][a] = PageFrom(FinalPage[n - 1], n = 0, a)
<1> DEFINE f == CHOOSE f : LeadsTo(f)
<1>1. LeadsTo(f)
  BY LeadsToExists
<1>2. FinalPage = f
  BY Zenon DEF FinalPage, LeadsTo, PageFrom, Pages
<1> HIDE DEF f
<1>3. \A k \in 0 .. MaxRedirects : f[k] = [b \in Pages |-> PageFrom(f[k - 1], k = 0, b)]
  BY <1>1, Zenon DEF LeadsTo
<1>4. f[n][a] = PageFrom(f[n - 1], n = 0, a)
  BY <1>3, Zenon
<1> QED BY <1>2, <1>4

LEMMA FinalPageKept ==
  ASSUME UNCHANGED surroundings
  PROVE  FinalPage' = FinalPage
  BY DEF surroundings, FinalPage, Answers, Reached

\* No rounds lead anywhere from no address.
LEMMA FromNowhere ==
  ASSUME web \in Webs, NEW n \in 0 .. MaxRedirects
  PROVE  FinalPage[n][NoAddress] = NoAddress
  BY FinalPageIs DEF PageFrom, Answers, Pages

-----------------------------------------------------------------------------
(* A retrieval that nothing disturbs *)

\* A page that is there has been read, as it is, once its request is over.
LEMMA AnswerRead ==
  ASSUME Inv, UndisturbedRequest, Retrieving, Over, netFaults = 0,
         Answers(address, HTTP_OK) \/ Answers(address, HTTP_REDIR)
  PROVE  /\ m_output > 0 /\ m_output = web[address].chunks
         /\ m_header = web[address].location
         /\ StatusRead = {web[address].status}
<1>1. stage = "eof"
  BY DEF Over, UndisturbedRequest, Answers, answer
<1>2. /\ m_output = web[address].chunks /\ m_output > 0
      /\ m_header = web[address].location
  BY <1>1 DEF UndisturbedRequest, Answers, answer
<1>3. m_status_code = web[address].status /\ m_status_code # Unset
  BY <1>1 DEF Inv, BodyHasStatus, answer, HTTP_OK, HTTP_REDIR, Unset
<1> QED BY <1>2, <1>3 DEF StatusRead

LEMMA UndisturbedInit == Init => ChainInv
  BY DEF Init, HttpInit, ChainInv, UndisturbedRequest, TowardsTarget, Retrieving

LEMMA UndisturbedHandle ==
  ASSUME TypeInv, Inv, UndisturbedRequest, Handle
  PROVE  UndisturbedRequest'
<1> SUFFICES ASSUME netFaults' = 0 PROVE UndisturbedRequest'
  BY DEF UndisturbedRequest
<1>1. netFaults \in Nat /\ endpoint \in Nat /\ EndpointsOf[server] \in Nat
  BY Asked DEF Handle, Inv, RequestOK
<1>2. netFaults = 0 /\ ~NetFault
  BY <1>1 DEF NetFault, Handle, Handlers, HandleResolve, HandleConnect, HandleWriteRequest,
              HandleReadStatusLine, HandleReadHeaders, HandleReadContent, NoNetFault
<1>3. Retrieving /\ UNCHANGED <<web, up, address>> /\ server = ServerOf[address]
  BY DEF Handle, Handlers, HandleResolve, HandleConnect, HandleWriteRequest, HandleReadStatusLine,
         HandleReadHeaders, HandleReadContent, GoTo, surroundings, server
<1>4. Reached(address)' <=> Reached(address)
  BY <1>3 DEF Reached
<1> USE <1>2, <1>3, <1>4 DEF UndisturbedRequest, answer
<1>5. CASE HandleResolve
  <2>1. EndpointsOf[server] = 0 => ~Reached(address)
    BY DEF Reached
  <2> QED BY <1>5, <2>1 DEF HandleResolve, GoTo
<1>6. CASE HandleConnect
  <2>1. CASE stage' = "connect"
    BY <2>1
  <2>2. CASE stage' = "write"
    <3>1. endpoint \in up[server] /\ endpoint \in 1 .. EndpointsOf[server]
      BY <1>6, <2>2 DEF HandleConnect, GoTo, TypeInv, TypeOK, HttpTypeOK
    <3> QED BY <2>2, <3>1 DEF Reached
  <2>3. CASE stage' = "failed"
    <3>1. stage = "connect" /\ endpoint \notin up[server] /\ ~HasNext
      BY <1>6, <2>3 DEF HandleConnect, GoTo
    <3>2. \A e \in 1 .. EndpointsOf[server] : e \in 1 .. endpoint - 1 \/ e = endpoint
      BY <1>1, <3>1 DEF HasNext
    <3>3. \A e \in 1 .. endpoint - 1 : e \notin up[server]
      BY <3>1 DEF Inv, PassedEndpointsDown
    <3> QED BY <2>3, <3>1, <3>2, <3>3 DEF Reached
  <2> QED BY <1>6, <2>1, <2>2, <2>3 DEF HandleConnect, GoTo
<1>7. CASE HandleWriteRequest
  BY <1>7 DEF HandleWriteRequest, GoTo
<1>8. CASE HandleReadStatusLine
  BY <1>8 DEF HandleReadStatusLine
<1>9. CASE HandleReadHeaders
  BY <1>9 DEF HandleReadHeaders
<1>10. CASE HandleReadContent
  BY <1>10 DEF HandleReadContent
<1> QED BY <1>5, <1>6, <1>7, <1>8, <1>9, <1>10 DEF Handle, Handlers

\* A new request has met nothing yet.
LEMMA UndisturbedNext ==
  ASSUME TypeInv, Inv, UndisturbedRequest, [Next]_vars
  PROVE  UndisturbedRequest'
<1>1. CASE \E a : Request(a)
  BY <1>1 DEF Request, UndisturbedRequest
<1>2. CASE phase' \in {"none", "done", "thrown"}
  BY <1>2 DEF UndisturbedRequest, Retrieving
<1>3. CASE Handle
  BY <1>3, UndisturbedHandle
<1>4. CASE UNCHANGED vars
  BY <1>4 DEF UndisturbedRequest, vars, httpVars, surroundings, request, retrieverVars, Retrieving,
              Reached, answer
<1> QED BY <1>1, <1>2, <1>3, <1>4
        DEF Next, Step, Construct, ConstructThrows, LeaveLoop, Returns, FollowLocation, NoLocation,
            HintIsThePage, FollowTitle, NoTitle, Caught, Restart

\* What the rounds of the loop leave alone.
LEMMA ChainKept ==
  ASSUME UNCHANGED <<surroundings, link>>
  PROVE  /\ FinalPage' = FinalPage /\ Target' = Target
         /\ \A a : Answers(a, HTTP_OK)' <=> Answers(a, HTTP_OK)
         /\ \A a : Answers(a, HTTP_REDIR)' <=> Answers(a, HTTP_REDIR)
  BY FinalPageKept DEF surroundings, Target, Answers, Reached

LEMMA TowardsHandle ==
  ASSUME TypeInv, TowardsTarget, Handle
  PROVE  TowardsTarget'
<1>1. UNCHANGED <<surroundings, address, phase, loop_count, link>>
  BY DEF Handle, Handlers, HandleResolve, HandleConnect, HandleWriteRequest, HandleReadStatusLine,
         HandleReadHeaders, HandleReadContent, GoTo, retrieverVars, surroundings
<1>2. netFaults \in Nat /\ (netFaults' = 0 => netFaults = 0)
  BY DEF TypeInv, TypeOK, HttpTypeOK, Handle, Handlers, HandleResolve, HandleConnect,
         HandleWriteRequest, HandleReadStatusLine, HandleReadHeaders, HandleReadContent,
         NetFault, NoNetFault
<1>3. /\ FinalPage' = FinalPage /\ Target' = Target
      /\ Answers(address, HTTP_OK)' <=> Answers(address, HTTP_OK)
      /\ Answers(address, HTTP_REDIR)' <=> Answers(address, HTTP_REDIR)
  BY <1>1, ChainKept DEF surroundings, Answers, Reached
<1> QED BY <1>1, <1>2, <1>3 DEF TowardsTarget, Retrieving, surroundings

\* The last round has a page to deliver or a redirect to follow.
LEMMA AtLoopTestLeads ==
  ASSUME TypeInv, Inv, ChainInv, AtLoopTest, netFaults = 0, Target # NoAddress
  PROVE  \/ Answers(address, HTTP_OK) /\ address = Target
         \/ /\ Answers(address, HTTP_REDIR) /\ loop_count < MaxRedirects
            /\ m_header # NoAddress
            /\ IF Answers(m_header, HTTP_OK) THEN m_header = Target
               ELSE /\ Answers(m_header, HTTP_REDIR)
                    /\ FinalPage[MaxRedirects - loop_count - 1][web[m_header].title] = Target
<1> DEFINE n == MaxRedirects - loop_count
<1>1. n \in 0 .. MaxRedirects /\ (n # 0 => loop_count < MaxRedirects)
  BY MaxRedirectsAssumption DEF TypeInv, TypeOK
<1>2. Retrieving /\ address \in Pages /\ web \in Webs
  BY DEF AtLoopTest, Retrieving, Over, Inv, RequestOK, Pages
<1>3. FinalPage[n][address] = Target
  BY <1>2 DEF ChainInv, TowardsTarget, AtLoopTest
<1>4. Target = PageFrom(FinalPage[n - 1], n = 0, address)
  BY <1>1, <1>2, <1>3, FinalPageIs
<1>5. CASE Answers(address, HTTP_OK)
  BY <1>4, <1>5 DEF PageFrom
<1>6. CASE ~Answers(address, HTTP_OK)
  <2>1. n # 0 /\ Answers(address, HTTP_REDIR)
    BY <1>4, <1>6 DEF PageFrom
  <2>2. m_header = web[address].location
    BY <1>2, <2>1, AnswerRead DEF AtLoopTest, ChainInv
  <2> HIDE DEF n
  <2>3. IF Answers(m_header, HTTP_OK) THEN m_header = Target
        ELSE Answers(m_header, HTTP_REDIR) /\ FinalPage[n - 1][web[m_header].title] = Target
    BY <1>4, <1>6, <2>1, <2>2 DEF PageFrom
  <2> QED BY <1>1, <2>1, <2>3 DEF n, Answers
<1> QED BY <1>5, <1>6

\* A redirect that is the last to be followed is not taken for a page.
LEMMA AtHintLeads ==
  ASSUME TypeInv, Inv, ChainInv, phase = "hint", Over, netFaults = 0, Target # NoAddress
  PROVE  /\ m_output > 0 /\ m_output = web[address].chunks
         /\ \/ Answers(address, HTTP_OK) /\ address = Target /\ StatusRead = {HTTP_OK}
            \/ /\ StatusRead = {HTTP_REDIR}
               /\ web[address].title # NoAddress
               /\ FinalPage[MaxRedirects - loop_count - 1][web[address].title] = Target
<1> DEFINE n == MaxRedirects - loop_count - 1
<1>1. n \in 0 .. MaxRedirects
  BY MaxRedirectsAssumption DEF TypeInv, TypeOK
<1>2. Retrieving /\ web \in Webs
  BY DEF Retrieving, Inv, RequestOK
<1>3. IF Answers(address, HTTP_OK) THEN address = Target
      ELSE Answers(address, HTTP_REDIR) /\ FinalPage[n][web[address].title] = Target
  BY <1>2 DEF ChainInv, TowardsTarget
<1>4. /\ m_output > 0 /\ m_output = web[address].chunks
      /\ StatusRead = {web[address].status}
  BY <1>2, <1>3, AnswerRead DEF ChainInv
<1>5. FinalPage[n][NoAddress] = NoAddress
  BY <1>1, <1>2, FromNowhere
<1> HIDE DEF n
<1>6. web[address].title # NoAddress \/ Answers(address, HTTP_OK)
  BY <1>3, <1>5
<1> QED BY <1>3, <1>4, <1>6 DEF Answers, n

LEMMA TowardsNext ==
  ASSUME TypeInv, Inv, ChainInv, [Next]_vars
  PROVE  TowardsTarget'
<1>1. CASE Construct
  <2>1. phase' = "first" /\ loop_count' = 0 /\ address' = link'
    BY <1>1 DEF Construct, Request
  <2>2. MaxRedirects - 0 = MaxRedirects
    BY MaxRedirectsAssumption
  <2> QED BY <2>1, <2>2 DEF TowardsTarget, Target
<1>2. CASE phase' \in {"none", "done", "thrown"}
  BY <1>2 DEF TowardsTarget, Retrieving
<1>3. CASE Handle
  BY <1>3, TowardsHandle DEF ChainInv
<1>4. CASE FollowLocation
  <2>1. /\ address' = m_header /\ phase' = "hint"
        /\ UNCHANGED <<surroundings, netFaults, link, loop_count>>
    BY <1>4 DEF FollowLocation, Request
  <2>2. FinalPage' = FinalPage /\ Target' = Target
    BY <2>1, ChainKept DEF surroundings
  <2>3. SUFFICES ASSUME netFaults = 0, Target # NoAddress
                 PROVE  IF Answers(m_header, HTTP_OK) THEN m_header = Target
                        ELSE /\ Answers(m_header, HTTP_REDIR)
                             /\ FinalPage[MaxRedirects - loop_count - 1][web[m_header].title] = Target
    BY <2>1, <2>2 DEF TowardsTarget, surroundings, Answers, Reached
  <2>4. ~(Answers(address, HTTP_OK))
    <3>1. HTTP_REDIR \in StatusRead
      BY <1>4 DEF FollowLocation, GoesOn
    <3>2. ASSUME Answers(address, HTTP_OK) PROVE StatusRead = {HTTP_OK}
      BY <1>4, <2>3, <3>2, AnswerRead
         DEF FollowLocation, AtLoopTest, Retrieving, ChainInv, Answers
    <3> QED BY <3>1, <3>2 DEF HTTP_OK, HTTP_REDIR
  <2> QED BY <1>4, <2>3, <2>4, AtLoopTestLeads DEF FollowLocation
<1>5. CASE FollowTitle
  <2>1. /\ address' = Title /\ phase' = "new" /\ loop_count' = loop_count + 1
        /\ UNCHANGED <<surroundings, netFaults, link>>
    BY <1>5 DEF FollowTitle, Request
  <2>2. FinalPage' = FinalPage /\ Target' = Target
    BY <2>1, ChainKept DEF surroundings
  <2>3. SUFFICES ASSUME netFaults = 0, Target # NoAddress
                 PROVE  FinalPage[MaxRedirects - (loop_count + 1)][Title] = Target
    BY <2>1, <2>2 DEF TowardsTarget, surroundings
  <2>4. /\ m_output > 0
        /\ FinalPage[MaxRedirects - loop_count - 1][web[address].title] = Target
    BY <1>5, <2>3, AtHintLeads DEF FollowTitle, HintIsNotThePage
  <2>5. MaxRedirects - (loop_count + 1) = MaxRedirects - loop_count - 1
    BY MaxRedirectsAssumption DEF TypeInv, TypeOK
  <2> QED BY <2>4, <2>5 DEF Title, answer
<1>6. CASE UNCHANGED vars
  <2>1. UNCHANGED <<surroundings, link, address, phase, loop_count, netFaults>>
    BY <1>6 DEF vars, httpVars, surroundings, request, retrieverVars
  <2>2. FinalPage' = FinalPage /\ Target' = Target
    BY <2>1, ChainKept DEF surroundings
  <2> QED BY <2>1, <2>2 DEF ChainInv, TowardsTarget, Retrieving, surroundings, Answers, Reached
<1> QED BY <1>1, <1>2, <1>3, <1>4, <1>5, <1>6
        DEF Next, Step, ConstructThrows, LeaveLoop, Returns, NoLocation, HintIsThePage, NoTitle,
            Caught, Restart

-----------------------------------------------------------------------------
(* The refinement *)

LEMMA InitAtomic == Init => Atomic!Init
  BY DEF Init, Atomic!Init, Result, Retrieving, Kind, Trouble

\* The abstract state after steps that leave some of its operands alone.
LEMMA KindOfNoContent ==
  ASSUME m_article_content' = NoContent
  PROVE  Kind(m_article_content)' = "empty"
  BY DEF Kind, NoContent

LEMMA KindKept ==
  ASSUME UNCHANGED <<surroundings, link, m_article_content>>
  PROVE  Kind(m_article_content)' = Kind(m_article_content)
  BY ChainKept DEF Kind, NoContent, surroundings

LEMMA TroubleKept ==
  ASSUME UNCHANGED <<surroundings, link, netFaults>>, phase # "none", phase' # "none"
  PROVE  Trouble' = Trouble /\ (Trouble <=> netFaults > 0 \/ Target = NoAddress)
  BY ChainKept DEF Trouble

LEMMA HandleAtomic ==
  ASSUME TypeInv, Inv, Handle
  PROVE  Atomic!Upset \/ UNCHANGED <<Result, Kind(m_article_content), Trouble>>
<1>1. UNCHANGED <<surroundings, link, phase, m_article_content>> /\ Retrieving
  BY DEF Handle, Handlers, HandleResolve, HandleConnect, HandleWriteRequest, HandleReadStatusLine,
         HandleReadHeaders, HandleReadContent, GoTo, retrieverVars, surroundings
<1>2. netFaults \in Nat /\ (netFaults' = netFaults \/ netFaults' = netFaults + 1)
  BY DEF TypeInv, TypeOK, HttpTypeOK, Handle, Handlers, HandleResolve, HandleConnect,
         HandleWriteRequest, HandleReadStatusLine, HandleReadHeaders, HandleReadContent,
         NetFault, NoNetFault
<1>3. Result = "pending" /\ Result' = "pending" /\ phase # "none"
  BY <1>1 DEF Result, Retrieving
<1>4. Kind(m_article_content)' = Kind(m_article_content)
  BY <1>1, KindKept
<1>5. CASE netFaults' = netFaults
  BY <1>1, <1>3, <1>4, <1>5, TroubleKept
<1>6. CASE netFaults' = netFaults + 1
  <2>1. Trouble'
    BY <1>1, <1>2, <1>3, <1>6 DEF Trouble
  <2>2. Trouble' = TRUE
    BY <2>1 DEF Trouble
  <2> QED BY <1>3, <1>4, <2>2 DEF Atomic!Upset
<1> QED BY <1>2, <1>5, <1>6

\* Without trouble, what is returned is the page.
LEMMA ReturnAtomic ==
  ASSUME TypeInv, Inv, ChainInv, LeaveLoop \/ HintIsThePage
  PROVE  Atomic!Return
<1>1. /\ Retrieving /\ phase' = "done" /\ m_article_content' = Content
      /\ UNCHANGED <<surroundings, link, netFaults>>
  BY DEF LeaveLoop, HintIsThePage, AtLoopTest, Retrieving, Returns, httpVars
<1>2. Result = "pending" /\ Result' = "returned" /\ phase # "none"
  BY <1>1 DEF Result, Retrieving
<1>3. Trouble' = Trouble /\ (Trouble <=> netFaults > 0 \/ Target = NoAddress)
  BY <1>1, <1>2, TroubleKept
<1>4. Kind(m_article_content)' \in Atomic!Contents
  BY DEF Kind, Atomic!Contents
<1>5. ASSUME ~Trouble PROVE Kind(m_article_content)' = "page"
  <2>1. netFaults = 0 /\ Target # NoAddress
    BY <1>3, <1>5 DEF TypeInv, TypeOK, HttpTypeOK
  <2>2. Answers(address, HTTP_OK) /\ address = Target /\ m_output > 0 /\ m_output = web[address].chunks
    <3>1. CASE LeaveLoop
      <4>1. Answers(address, HTTP_OK) \/ Answers(address, HTTP_REDIR)
        BY <2>1, <3>1, AtLoopTestLeads DEF LeaveLoop
      <4>2. /\ m_output > 0 /\ m_output = web[address].chunks
            /\ StatusRead = {web[address].status}
        BY <1>1, <2>1, <3>1, <4>1, AnswerRead DEF LeaveLoop, AtLoopTest, ChainInv
      <4>3. ~(Answers(address, HTTP_REDIR) /\ loop_count < MaxRedirects)
        BY <3>1, <4>2 DEF LeaveLoop, GoesOn, Answers
      <4> QED BY <2>1, <3>1, <4>2, <4>3, AtLoopTestLeads DEF LeaveLoop
    <3>2. CASE HintIsThePage
      BY <2>1, <3>2, AtHintLeads DEF HintIsThePage, HTTP_OK, HTTP_REDIR
    <3> QED BY <3>1, <3>2
  <2>3. Content = [page |-> address, chunks |-> web[address].chunks] /\ Content # NoContent
    BY <2>2 DEF Content, NoContent
  <2>4. Target' = Target /\ web' = web
    BY <1>1, ChainKept DEF surroundings
  <2>5. web[address].chunks \in Nat
    BY <2>2 DEF Inv, RequestOK
  <2> QED BY <1>1, <2>2, <2>3, <2>4, <2>5 DEF Kind
<1> QED BY <1>2, <1>3, <1>4, <1>5 DEF Atomic!Return

\* Only trouble makes it throw.
LEMMA ThrowAtomic ==
  ASSUME TypeInv, Inv, ChainInv, NoLocation \/ NoTitle
  PROVE  Atomic!Throw
<1>1. /\ Retrieving /\ phase' = "thrown"
      /\ UNCHANGED <<surroundings, link, netFaults, m_article_content>>
  BY DEF NoLocation, NoTitle, AtLoopTest, HintIsNotThePage, Retrieving, httpVars
<1>2. Result = "pending" /\ Result' = "threw" /\ phase # "none"
  BY <1>1 DEF Result, Retrieving
<1>3. Trouble' = Trouble /\ (Trouble <=> netFaults > 0 \/ Target = NoAddress)
  BY <1>1, <1>2, TroubleKept
<1>4. Kind(m_article_content)' = Kind(m_article_content)
  BY <1>1, KindKept
<1>5. Trouble
  <2>1. SUFFICES ASSUME netFaults = 0, Target # NoAddress PROVE FALSE
    BY <1>3 DEF TypeInv, TypeOK, HttpTypeOK
  <2>2. CASE NoLocation
    <3>1. Answers(address, HTTP_OK)
      BY <2>1, <2>2, AtLoopTestLeads DEF NoLocation
    <3>2. StatusRead = {HTTP_OK}
      BY <1>1, <2>1, <2>2, <3>1, AnswerRead DEF NoLocation, AtLoopTest, ChainInv, Answers
    <3> QED BY <2>2, <3>2 DEF NoLocation, GoesOn, HTTP_OK, HTTP_REDIR
  <2>3. CASE NoTitle
    BY <2>1, <2>3, AtHintLeads DEF NoTitle, HintIsNotThePage, Title, answer
  <2> QED BY <2>2, <2>3
<1> QED BY <1>2, <1>3, <1>4, <1>5 DEF Atomic!Throw

LEMMA NextAtomic ==
  ASSUME TypeInv, Inv, ChainInv, [Next]_vars
  PROVE  [Atomic!Next]_<<Result, Kind(m_article_content), Trouble>>
<1> USE DEF Atomic!Next
<1>1. CASE Construct
  <2>1. Result \in {"none", "returned"} /\ Result' = "pending"
    BY <1>1 DEF Construct, Result, Retrieving
  <2>2. Kind(m_article_content)' = "empty"
    BY <1>1, KindOfNoContent DEF Construct
  <2>3. Trouble' \in BOOLEAN
    BY DEF Trouble
  <2> QED BY <2>1, <2>2, <2>3 DEF Atomic!Begin
<1>2. CASE ConstructThrows
  <2>1. Result \in {"none", "returned"} /\ Result' = "threw"
    BY <1>2 DEF ConstructThrows, Result, Retrieving
  <2>2. Kind(m_article_content)' = "empty"
    BY <1>2, KindOfNoContent DEF ConstructThrows
  <2>3. Target' = NoAddress
    <3>1. FinalPage' = FinalPage /\ link' = NoAddress /\ web \in Webs
      BY <1>2, FinalPageKept DEF ConstructThrows, Inv, RequestOK
    <3> QED BY <3>1, FromNowhere, MaxRedirectsAssumption DEF Target
  <2>4. Trouble'
    BY <1>2, <2>3 DEF ConstructThrows, Trouble
  <2> QED BY <2>1, <2>2, <2>4 DEF Atomic!Refuse
<1>3. CASE Handle
  BY <1>3, HandleAtomic
<1>4. CASE LeaveLoop \/ HintIsThePage
  BY <1>4, ReturnAtomic
<1>5. CASE NoLocation \/ NoTitle
  BY <1>5, ThrowAtomic
<1>6. CASE FollowLocation \/ FollowTitle
  <2>1. /\ UNCHANGED <<surroundings, link, netFaults, m_article_content>>
        /\ Retrieving /\ phase' \in {"hint", "new"}
    BY <1>6 DEF FollowLocation, FollowTitle, AtLoopTest, HintIsNotThePage, Retrieving
  <2>2. Result' = Result /\ phase # "none" /\ phase' # "none"
    BY <2>1 DEF Result, Retrieving
  <2> QED BY <2>1, <2>2, KindKept, TroubleKept
<1>7. CASE Caught
  <2>1. /\ Retrieving /\ phase' = "done" /\ m_article_content' = NoContent
        /\ netFaults' = netFaults + 1 /\ netFaults \in Nat
    BY <1>7 DEF Caught, Returns, NetFault, TypeInv, TypeOK, HttpTypeOK
  <2>2. Result = "pending" /\ Result' = "returned"
    BY <2>1 DEF Result, Retrieving
  <2>3. Trouble' /\ Kind(m_article_content)' = "empty"
    BY <2>1, KindOfNoContent DEF Trouble
  <2> QED BY <2>2, <2>3 DEF Atomic!Return, Atomic!Contents
<1>8. CASE Restart
  <2>1. Result = "threw" /\ Result' = "none"
    BY <1>8 DEF Restart, Result, Retrieving
  <2>2. Kind(m_article_content)' = "empty" /\ Trouble' = FALSE
    BY <1>8, KindOfNoContent DEF Restart, Trouble
  <2> QED BY <2>1, <2>2 DEF Atomic!Restart
<1>9. CASE UNCHANGED vars
  <2>1. UNCHANGED <<surroundings, link, phase, netFaults, m_article_content>>
    BY <1>9 DEF vars, httpVars, retrieverVars
  <2>2. Kind(m_article_content)' = Kind(m_article_content)
    BY <2>1, KindKept
  <2>3. Result' = Result /\ Trouble' = Trouble
    BY <2>1, ChainKept DEF Result, Retrieving, Trouble
  <2> QED BY <2>2, <2>3
<1> QED BY <1>1, <1>2, <1>3, <1>4, <1>5, <1>6, <1>7, <1>8, <1>9 DEF Next, Step

\* For any web of redirects and any faults: to whoever constructs it, an
\* article_retriever is one step that delivers the page.
THEOREM Refinement == Spec => ImplementsRetrieval
<1>1. Init => ChainInv
  BY UndisturbedInit
<1>2. TypeInv /\ Inv /\ ChainInv /\ [Next]_vars => ChainInv'
  BY UndisturbedNext, TowardsNext DEF ChainInv
<1>3. TypeInv /\ Inv /\ ChainInv /\ [Next]_vars
        => [Atomic!Next]_<<Result, Kind(m_article_content), Trouble>>
  BY NextAtomic
<1>4. Spec => [](TypeInv /\ Inv)
  BY TypeInvariance
<1> QED BY <1>1, <1>2, <1>3, <1>4, InitAtomic, PTL DEF Spec, ImplementsRetrieval, Atomic!Spec
=============================================================================
