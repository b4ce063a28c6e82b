------------------------- MODULE ConfigurationProofs -------------------------
(***************************************************************************)
(* TLAPS proofs about Configuration, for any configurations, names and      *)
(* addresses of any length, any damage of the feeds file and any settings   *)
(* files.                                                                  *)
(***************************************************************************)
EXTENDS Configuration, Induction, FiniteSetTheorems

Symbol == Texts \cup Keywords

LEMMA WordParts ==
  ASSUME NEW t \in Word
  PROVE  /\ t \in Seq(Texts) /\ t \in Seq(Symbol) /\ Len(t) \in Nat /\ Len(t) >= 1
         /\ \A x \in 1 .. Len(t) : t[x] \in Texts
  BY DEF Word, Symbol

LEMMA KeywordsAreSymbols ==
  /\ "section" \in Symbol /\ "quote" \in Symbol /\ "=" \in Symbol /\ "end" \in Symbol
  /\ \A t \in Texts : t # "section" /\ t # "quote" /\ t # "=" /\ t # "end"
  BY TextsAssumption DEF Keywords, Symbol

\* Every section that is written has a name, every feed a name and an address.
WrittenMedia == [m_media_name : Word, m_feeds : Seq(WrittenFeed)]

LEMMA WrittenParts ==
  ASSUME NEW medias \in Written
  PROVE  /\ medias \in Seq(WrittenMedia) /\ Len(medias) \in Nat /\ DOMAIN medias = 1 .. Len(medias)
         /\ \A i \in 1 .. Len(medias) : medias[i] \in WrittenMedia
<1>1. medias \in Seq(WrittenMedia)
  BY WrittenAssumption DEF WrittenMedia
<1> QED BY <1>1, ElementOf

LEMMA MediaParts ==
  ASSUME NEW m \in WrittenMedia
  PROVE  /\ m.m_media_name \in Word /\ m.m_feeds \in Seq(WrittenFeed)
         /\ Len(m.m_feeds) \in Nat /\ DOMAIN m.m_feeds = 1 .. Len(m.m_feeds)
         /\ \A j \in 1 .. Len(m.m_feeds) : m.m_feeds[j] \in WrittenFeed
  BY DEF WrittenMedia

LEMMA FeedParts ==
  ASSUME NEW f \in WrittenFeed
  PROVE  f.m_feed_name \in Word /\ f.m_feed_address \in Word
  BY DEF WrittenFeed

-----------------------------------------------------------------------------
\* The words of t stand in s behind its first k symbols.
TextAt(s, k, t) == \A x \in 1 .. Len(t) : s[k + x] = t[x]

\* w is s and t, one behind the other.
Joined(w, s, t) ==
  /\ Len(w) = Len(s) + Len(t)
  /\ \A x \in 1 .. Len(s) : w[x] = s[x]
  /\ \A x \in 1 .. Len(t) : w[Len(s) + x] = t[x]

LEMMA Concatenated ==
  ASSUME NEW S, NEW s \in Seq(S), NEW t \in Seq(S)
  PROVE  s \o t \in Seq(S) /\ Joined(s \o t, s, t)
<1>1. /\ s \o t \in Seq(S) /\ Len(s \o t) = Len(s) + Len(t)
      /\ \A i \in 1 .. Len(s) + Len(t) :
           (s \o t)[i] = IF i <= Len(s) THEN s[i] ELSE t[i - Len(s)]
  BY ConcatProperties, Zenon
<1>2. Len(s) \in Nat /\ Len(t) \in Nat
  OBVIOUS
<1> DEFINE u == s \o t
<1>3. \A i \in 1 .. Len(s) + Len(t) : u[i] = IF i <= Len(s) THEN s[i] ELSE t[i - Len(s)]
  BY <1>1
<1> HIDE DEF u
<1>4. \A x \in 1 .. Len(s) : u[x] = s[x]
  BY <1>2, <1>3
<1>5. ASSUME NEW x \in 1 .. Len(t) PROVE u[Len(s) + x] = t[x]
  <2>1. /\ Len(s) + x \in 1 .. Len(s) + Len(t) /\ ~(Len(s) + x <= Len(s))
        /\ Len(s) + x - Len(s) = x
    BY <1>2
  <2> QED BY <1>3, <2>1
<1> QED BY <1>1, <1>4, <1>5 DEF Joined, u

LEMMA QuotedIs ==
  ASSUME NEW t \in Word
  PROVE  /\ Quoted(t) \in Seq(Symbol) /\ Len(Quoted(t)) = Len(t) + 2
         /\ Quoted(t)[1] = "quote" /\ TextAt(Quoted(t), 1, t) /\ Quoted(t)[Len(t) + 2] = "quote"
<1> DEFINE q == <<"quote">>
<1>1. /\ q \in Seq(Symbol) /\ Len(q) = 1 /\ q[1] = "quote" /\ t \in Seq(Symbol)
      /\ Len(t) \in Nat
  BY WordParts, KeywordsAreSymbols
<1> HIDE DEF q
<1>2. /\ q \o t \in Seq(Symbol) /\ Len(q \o t) = 1 + Len(t)
      /\ (q \o t)[1] = "quote" /\ \A x \in 1 .. Len(t) : (q \o t)[1 + x] = t[x]
  <2>1. q \o t \in Seq(Symbol) /\ Joined(q \o t, q, t)
    BY <1>1, Concatenated, Zenon
  <2> QED BY <1>1, <2>1 DEF Joined
<1> DEFINE u == q \o t
<1>3. u \in Seq(Symbol)
  BY <1>2
<1> HIDE DEF u
<1>4. /\ u \o q \in Seq(Symbol) /\ Len(u \o q) = Len(u) + 1
      /\ \A x \in 1 .. Len(u) : (u \o q)[x] = u[x]
      /\ (u \o q)[Len(u) + 1] = "quote"
  <2>1. u \o q \in Seq(Symbol) /\ Joined(u \o q, u, q)
    BY <1>1, <1>3, Concatenated, Zenon
  <2> QED BY <1>1, <2>1 DEF Joined
<1>5. Len(u) = 1 + Len(t) /\ u[1] = "quote" /\ \A x \in 1 .. Len(t) : u[1 + x] = t[x]
  BY <1>2 DEF u
<1>6. Quoted(t) = u \o q
  BY DEF Quoted, u, q
<1>7. Len(u) \in Nat /\ 1 \in 1 .. Len(u) /\ \A x \in 1 .. Len(t) : 1 + x \in 1 .. Len(u)
  BY <1>1, <1>5
<1>8. Quoted(t)[1] = "quote" /\ \A x \in 1 .. Len(t) : Quoted(t)[1 + x] = t[x]
  BY <1>4, <1>5, <1>6, <1>7
<1>9. Len(u) + 1 = Len(t) + 2
  BY <1>1, <1>5
<1> QED BY <1>4, <1>6, <1>7, <1>8, <1>9 DEF TextAt

\* "name" = "address", each behind the other.
LEMMA WriteFeedIs ==
  ASSUME NEW f \in WrittenFeed
  PROVE  LET n == Len(f.m_feed_name)
             a == Len(f.m_feed_address)
             w == WriteFeed(f)
         IN /\ w \in Seq(Symbol) /\ Len(w) = n + 4 + a + 1 /\ n \in Nat /\ a \in Nat
            /\ w[1] = "quote" /\ TextAt(w, 1, f.m_feed_name) /\ w[n + 2] = "quote"
            /\ w[n + 3] = "=" /\ w[n + 4] = "quote"
            /\ TextAt(w, n + 4, f.m_feed_address) /\ w[n + 4 + a + 1] = "quote"
<1> DEFINE n == Len(f.m_feed_name)
           a == Len(f.m_feed_address)
           q == Quoted(f.m_feed_name)
           r == Quoted(f.m_feed_address)
           e == <<"=">>
           u == q \o e
           w == WriteFeed(f)
<1>1. /\ q \in Seq(Symbol) /\ Len(q) = n + 2 /\ n \in Nat
      /\ q[1] = "quote" /\ TextAt(q, 1, f.m_feed_name) /\ q[n + 2] = "quote"
  BY FeedParts, WordParts, QuotedIs
<1>2. /\ r \in Seq(Symbol) /\ Len(r) = a + 2 /\ a \in Nat
      /\ r[1] = "quote" /\ TextAt(r, 1, f.m_feed_address) /\ r[a + 2] = "quote"
  BY FeedParts, WordParts, QuotedIs
<1>3. e \in Seq(Symbol) /\ Len(e) = 1 /\ e[1] = "="
  BY KeywordsAreSymbols
<1> HIDE DEF q, r, e, n, a
<1>4. /\ u \in Seq(Symbol) /\ Len(u) = n + 3 /\ u[n + 3] = "="
      /\ \A x \in 1 .. n + 2 : u[x] = q[x]
  <2>1. u \in Seq(Symbol) /\ Joined(u, q, e)
    BY <1>1, <1>3, Concatenated, Zenon
  <2>2. 1 \in 1 .. 1 /\ (n + 2) + 1 = n + 3
    BY <1>1
  <2> HIDE DEF u
  <2> QED BY <1>1, <1>3, <2>1, <2>2 DEF Joined
<1>5. w = u \o r
  BY DEF WriteFeed, u, q, r, e
<1> HIDE DEF u, w
<1>6. /\ w \in Seq(Symbol) /\ Len(w) = n + 3 + (a + 2)
      /\ \A x \in 1 .. n + 3 : w[x] = u[x]
      /\ \A x \in 1 .. a + 2 : w[n + 3 + x] = r[x]
  <2>1. w \in Seq(Symbol) /\ Joined(w, u, r)
    BY <1>2, <1>4, <1>5, Concatenated, Zenon
  <2> QED BY <1>2, <1>4, <2>1 DEF Joined
<1>7. \A x \in 1 .. n + 2 : w[x] = q[x]
  BY <1>1, <1>4, <1>6
<1>8. w[1] = "quote" /\ w[n + 2] = "quote" /\ w[n + 3] = "="
  <2>1. 1 \in 1 .. n + 2 /\ n + 2 \in 1 .. n + 2 /\ n + 3 \in 1 .. n + 3
    BY <1>1
  <2> QED BY <1>1, <1>4, <1>6, <1>7, <2>1
<1>9. w[n + 4] = "quote" /\ w[n + 4 + a + 1] = "quote"
  <2>1. 1 \in 1 .. a + 2 /\ a + 2 \in 1 .. a + 2 /\ n + 3 + 1 = n + 4 /\ n + 3 + (a + 2) = n + 4 + a + 1
    BY <1>1, <1>2
  <2> QED BY <1>2, <1>6, <2>1
<1>10. \A x \in 1 .. n : w[1 + x] = f.m_feed_name[x]
  <2> TAKE x \in 1 .. n
  <2>1. 1 + x \in 1 .. n + 2
    BY <1>1
  <2>2. q[1 + x] = f.m_feed_name[x]
    BY <1>1 DEF TextAt, n
  <2> QED BY <1>7, <2>1, <2>2
<1>11. \A x \in 1 .. a : w[n + 4 + x] = f.m_feed_address[x]
  <2> TAKE x \in 1 .. a
  <2>1. 1 + x \in 1 .. a + 2 /\ n + 3 + (1 + x) = n + 4 + x
    BY <1>1, <1>2
  <2>2. r[1 + x] = f.m_feed_address[x]
    BY <1>2 DEF TextAt, a
  <2> QED BY <1>6, <2>1, <2>2
<1>12. Len(w) = n + 4 + a + 1
  BY <1>1, <1>2, <1>6
<1> QED BY <1>1, <1>2, <1>6, <1>8, <1>9, <1>10, <1>11, <1>12 DEF TextAt, n, a, w

\* t stands between quotes in s behind its first k symbols.
QuotedAt(s, k, t) ==
  s[k + 1] = "quote" /\ TextAt(s, k + 1, t) /\ s[k + Len(t) + 2] = "quote"

Feeds(m) == [j \in DOMAIN m.m_feeds |-> WriteFeed(m.m_feeds[j])]
Sections(medias) == [i \in DOMAIN medias |-> WriteMedia(medias[i])]

LEMMA FeedsAre ==
  ASSUME NEW m \in WrittenMedia
  PROVE  /\ Feeds(m) \in Seq(Seq(Symbol)) /\ Len(Feeds(m)) = Len(m.m_feeds)
         /\ \A j \in 1 .. Len(m.m_feeds) : Feeds(m)[j] = WriteFeed(m.m_feeds[j])
         /\ \A j \in 1 .. Len(m.m_feeds) : Feeds(m)[j] \in Seq(Symbol)
         /\ FlattenSeq(Feeds(m)) \in Seq(Symbol)
         /\ Len(FlattenSeq(Feeds(m))) \in Nat
<1> DEFINE g == Feeds(m)
           s == m.m_feeds
<1>1. /\ Len(s) \in Nat /\ DOMAIN s = 1 .. Len(s)
      /\ \A j \in 1 .. Len(s) : s[j] \in WrittenFeed
  BY MediaParts
<1>2. \A j \in 1 .. Len(s) : g[j] = WriteFeed(s[j])
  BY <1>1 DEF Feeds
<1>3. \A j \in 1 .. Len(s) : g[j] \in Seq(Symbol)
  BY <1>1, <1>2, WriteFeedIs
<1>4. g = [j \in DOMAIN s |-> g[j]]
  BY DEF Feeds
<1> HIDE DEF g, s
<1>5. g \in Seq(Seq(Symbol)) /\ Len(g) = Len(s)
  BY <1>1, <1>3, <1>4, MapIsSeq
<1>6. FlattenSeq(g) \in Seq(Symbol)
  BY <1>5, FlattenPlaces
<1>7. Len(FlattenSeq(g)) \in Nat
  BY <1>6
<1> QED BY <1>2, <1>3, <1>5, <1>6, <1>7 DEF g, s

LEMMA WriteMediaIs ==
  ASSUME NEW m \in WrittenMedia
  PROVE  LET w == WriteMedia(m)
             l == Len(m.m_media_name)
             f == FlattenSeq(Feeds(m))
         IN /\ w \in Seq(Symbol) /\ Len(w) = l + 3 + Len(f) + 1 /\ l \in Nat /\ Len(f) \in Nat
            /\ w[1] = "section" /\ QuotedAt(w, 1, m.m_media_name)
            /\ TextAt(w, l + 3, f) /\ w[l + 3 + Len(f) + 1] = "end"
<1> DEFINE w == WriteMedia(m)
           l == Len(m.m_media_name)
           f == FlattenSeq(Feeds(m))
           s == <<"section">>
           q == Quoted(m.m_media_name)
           e == <<"end">>
           u == s \o q
           v == u \o f
<1>1. /\ q \in Seq(Symbol) /\ Len(q) = l + 2 /\ l \in Nat
      /\ q[1] = "quote" /\ TextAt(q, 1, m.m_media_name) /\ q[l + 2] = "quote"
  BY MediaParts, WordParts, QuotedIs
<1>2. f \in Seq(Symbol) /\ Len(f) \in Nat
  BY FeedsAre
<1>3. /\ s \in Seq(Symbol) /\ Len(s) = 1 /\ s[1] = "section"
      /\ e \in Seq(Symbol) /\ Len(e) = 1 /\ e[1] = "end"
  BY KeywordsAreSymbols
<1>4. w = v \o e
  BY DEF WriteMedia, Feeds
<1> HIDE DEF w, l, f, s, q, e
<1>5. u \in Seq(Symbol) /\ Joined(u, s, q)
  BY <1>1, <1>3, Concatenated, Zenon
<1> HIDE DEF u
<1>6. v \in Seq(Symbol) /\ Joined(v, u, f)
  BY <1>2, <1>5, Concatenated, Zenon
<1> HIDE DEF v
<1>7. w \in Seq(Symbol) /\ Joined(w, v, e)
  BY <1>3, <1>4, <1>6, Concatenated, Zenon
<1>8. /\ Len(u) = l + 3 /\ u[1] = "section"
      /\ \A x \in 1 .. l + 2 : u[1 + x] = q[x]
  BY <1>1, <1>3, <1>5 DEF Joined
<1>9. /\ Len(v) = l + 3 + Len(f) /\ \A x \in 1 .. l + 3 : v[x] = u[x]
      /\ \A x \in 1 .. Len(f) : v[l + 3 + x] = f[x]
  BY <1>6, <1>8 DEF Joined
<1>10. /\ Len(w) = l + 3 + Len(f) + 1 /\ w[l + 3 + Len(f) + 1] = "end"
       /\ \A x \in 1 .. l + 3 + Len(f) : w[x] = v[x]
  <2>1. 1 \in 1 .. Len(e)
    BY <1>3
  <2> QED BY <1>3, <1>7, <1>9, <2>1 DEF Joined
<1>11. \A x \in 1 .. l + 3 : w[x] = u[x]
  BY <1>1, <1>2, <1>9, <1>10
<1>12. \A x \in 1 .. Len(f) : w[l + 3 + x] = f[x]
  <2> TAKE x \in 1 .. Len(f)
  <2>1. l + 3 + x \in 1 .. l + 3 + Len(f)
    BY <1>1, <1>2
  <2> QED BY <1>9, <1>10, <2>1
<1>13. w[1] = "section"
  <2>1. 1 \in 1 .. l + 3
    BY <1>1
  <2> QED BY <1>8, <1>11, <2>1
<1>14. \A x \in 1 .. l + 2 : w[1 + x] = q[x]
  <2> TAKE x \in 1 .. l + 2
  <2>1. 1 + x \in 1 .. l + 3
    BY <1>1
  <2> QED BY <1>8, <1>11, <2>1
<1>15. QuotedAt(w, 1, m.m_media_name)
  <2>1. w[1 + 1] = "quote"
    <3>1. 1 \in 1 .. l + 2
      BY <1>1
    <3> QED BY <1>1, <1>14, <3>1
  <2>2. w[1 + l + 2] = "quote"
    <3>1. l + 2 \in 1 .. l + 2 /\ 1 + (l + 2) = 1 + l + 2
      BY <1>1
    <3> QED BY <1>1, <1>14, <3>1
  <2>3. \A x \in 1 .. l : w[1 + 1 + x] = m.m_media_name[x]
    <3> TAKE x \in 1 .. l
    <3>1. 1 + x \in 1 .. l + 2 /\ 1 + (1 + x) = 1 + 1 + x
      BY <1>1
    <3>2. q[1 + x] = m.m_media_name[x]
      BY <1>1 DEF TextAt, l
    <3> QED BY <1>14, <3>1, <3>2
  <2> QED BY <2>1, <2>2, <2>3 DEF QuotedAt, TextAt, l
<1> QED BY <1>1, <1>2, <1>7, <1>10, <1>12, <1>13, <1>15 DEF TextAt, w, l, f

LEMMA SectionsAre ==
  ASSUME NEW medias \in Seq(WrittenMedia)
  PROVE  /\ Sections(medias) \in Seq(Seq(Symbol)) /\ Len(Sections(medias)) = Len(medias)
         /\ \A i \in 1 .. Len(medias) : Sections(medias)[i] = WriteMedia(medias[i])
         /\ \A i \in 1 .. Len(medias) : medias[i] \in WrittenMedia
         /\ Write(medias) = FlattenSeq(Sections(medias))
<1> DEFINE g == Sections(medias)
<1>1. /\ Len(medias) \in Nat /\ DOMAIN medias = 1 .. Len(medias)
      /\ \A i \in 1 .. Len(medias) : medias[i] \in WrittenMedia
  BY ElementOf
<1>2. \A i \in 1 .. Len(medias) : g[i] = WriteMedia(medias[i])
  BY <1>1 DEF Sections
<1>3. \A i \in 1 .. Len(medias) : g[i] \in Seq(Symbol)
  BY <1>1, <1>2, WriteMediaIs
<1>4. g = [i \in DOMAIN medias |-> g[i]] /\ Write(medias) = FlattenSeq(g)
  BY DEF Sections, Write
<1> HIDE DEF g
<1>5. g \in Seq(Seq(Symbol)) /\ Len(g) = Len(medias)
  BY <1>1, <1>3, <1>4, MapIsSeq
<1> QED BY <1>1, <1>2, <1>4, <1>5 DEF g

-----------------------------------------------------------------------------
(* Where the sections and the feeds of a file end *)

SectionEnd(medias, i) == Before(Sections(medias), i)
FeedEnd(medias, i, j) ==
  SectionEnd(medias, i - 1) + Len(medias[i].m_media_name) + 3 + Before(Feeds(medias[i]), j)
\* Behind the quote that the address of feed j of section i begins with.
AddressStart(medias, i, j) ==
  FeedEnd(medias, i, j - 1) + Len(medias[i].m_feeds[j].m_feed_name) + 4

LEMMA SectionEnds ==
  ASSUME NEW medias \in Seq(WrittenMedia)
  PROVE  /\ Write(medias) \in Seq(Symbol) /\ Len(medias) \in Nat
         /\ SectionEnd(medias, 0) = 0
         /\ SectionEnd(medias, Len(medias)) = Len(Write(medias))
         /\ \A i \in 0 .. Len(medias) : SectionEnd(medias, i) \in Nat
         /\ \A i \in 0 .. Len(medias) : \A k \in i .. Len(medias) :
              SectionEnd(medias, i) <= SectionEnd(medias, k)
         /\ \A i \in 1 .. Len(medias) :
              /\ SectionEnd(medias, i) = SectionEnd(medias, i - 1) + Len(WriteMedia(medias[i]))
              /\ TextAt(Write(medias), SectionEnd(medias, i - 1), WriteMedia(medias[i]))
<1> DEFINE g == Sections(medias)
<1>1. /\ g \in Seq(Seq(Symbol)) /\ Len(g) = Len(medias) /\ Write(medias) = FlattenSeq(g)
      /\ \A i \in 1 .. Len(medias) : g[i] = WriteMedia(medias[i])
      /\ Len(medias) \in Nat
  BY SectionsAre
<1>2. \A k : SectionEnd(medias, k) = Before(g, k)
  BY DEF SectionEnd
<1> HIDE DEF g
<1>3. /\ FlattenSeq(g) \in Seq(Symbol)
      /\ \A k \in 0 .. Len(g) : Before(g, k) \in Nat
      /\ Before(g, 0) = 0
      /\ Before(g, Len(g)) = Len(FlattenSeq(g))
      /\ \A k \in 1 .. Len(g) :
           /\ Before(g, k) = Before(g, k - 1) + Len(g[k])
           /\ \A m \in 1 .. Len(g[k]) : FlattenSeq(g)[Before(g, k - 1) + m] = g[k][m]
  BY <1>1, FlattenPlaces
<1>4. \A i \in 0 .. Len(g) : \A k \in i .. Len(g) : Before(g, i) <= Before(g, k)
  BY <1>1, BeforeIncreases
<1> DEFINE n == Len(medias)
           w == FlattenSeq(g)
<1>5. /\ \A k \in 1 .. n : Before(g, k) = Before(g, k - 1) + Len(WriteMedia(medias[k]))
      /\ \A k \in 1 .. n : TextAt(w, Before(g, k - 1), WriteMedia(medias[k]))
      /\ \A k \in 0 .. n : Before(g, k) \in Nat
      /\ Before(g, n) = Len(w)
  BY <1>1, <1>3 DEF TextAt
<1>6. \A i \in 0 .. n : \A k \in i .. n : Before(g, i) <= Before(g, k)
  BY <1>1, <1>4
<1>7. w \in Seq(Symbol) /\ Before(g, 0) = 0
  BY <1>3
<1> HIDE DEF n, w
<1>8. /\ w \in Seq(Symbol) /\ SectionEnd(medias, 0) = 0 /\ SectionEnd(medias, n) = Len(w)
      /\ \A i \in 0 .. n : SectionEnd(medias, i) \in Nat
      /\ \A i \in 0 .. n : \A k \in i .. n : SectionEnd(medias, i) <= SectionEnd(medias, k)
      /\ \A i \in 1 .. n :
           /\ SectionEnd(medias, i) = SectionEnd(medias, i - 1) + Len(WriteMedia(medias[i]))
           /\ TextAt(w, SectionEnd(medias, i - 1), WriteMedia(medias[i]))
  BY <1>2, <1>5, <1>6, <1>7, Zenon
<1> QED BY <1>1, <1>8 DEF w, n

LEMMA FeedEnds ==
  ASSUME NEW medias \in Seq(WrittenMedia), NEW i \in 1 .. Len(medias)
  PROVE  LET m == medias[i]
             f == FlattenSeq(Feeds(m))
             B(j) == Before(Feeds(m), j)
         IN /\ m \in WrittenMedia /\ Len(m.m_feeds) \in Nat /\ Len(m.m_media_name) \in Nat
            /\ SectionEnd(medias, i - 1) \in Nat
            /\ B(0) = 0 /\ B(Len(m.m_feeds)) = Len(f)
            /\ \A j \in 0 .. Len(m.m_feeds) : B(j) \in Nat
            /\ \A j \in 0 .. Len(m.m_feeds) : \A k \in j .. Len(m.m_feeds) : B(j) <= B(k)
            /\ \A j \in 1 .. Len(m.m_feeds) :
                 /\ m.m_feeds[j] \in WrittenFeed
                 /\ B(j) = B(j - 1) + Len(WriteFeed(m.m_feeds[j]))
                 /\ TextAt(f, B(j - 1), WriteFeed(m.m_feeds[j]))
<1> DEFINE m == medias[i]
           g == Feeds(m)
           f == FlattenSeq(g)
           s == m.m_feeds
<1>1. m \in WrittenMedia /\ SectionEnd(medias, i - 1) \in Nat
  <2>1. i - 1 \in 0 .. Len(medias)
    OBVIOUS
  <2> QED BY <2>1, ElementOf, SectionEnds
<1> HIDE DEF m
<1>2. /\ g \in Seq(Seq(Symbol)) /\ Len(g) = Len(s)
      /\ \A j \in 1 .. Len(s) : g[j] = WriteFeed(s[j])
      /\ Len(s) \in Nat /\ Len(m.m_media_name) \in Nat
      /\ \A j \in 1 .. Len(s) : s[j] \in WrittenFeed
  BY <1>1, FeedsAre, MediaParts, WordParts
<1> HIDE DEF g, s
<1>3. /\ \A k \in 0 .. Len(g) : Before(g, k) \in Nat
      /\ Before(g, 0) = 0
      /\ Before(g, Len(g)) = Len(f)
      /\ \A k \in 1 .. Len(g) :
           /\ Before(g, k) = Before(g, k - 1) + Len(g[k])
           /\ \A x \in 1 .. Len(g[k]) : f[Before(g, k - 1) + x] = g[k][x]
  BY <1>2, FlattenPlaces
<1>4. \A j \in 0 .. Len(g) : \A k \in j .. Len(g) : Before(g, j) <= Before(g, k)
  BY <1>2, BeforeIncreases
<1> HIDE DEF f
<1>5. /\ \A k \in 0 .. Len(s) : Before(g, k) \in Nat
      /\ Before(g, 0) = 0
      /\ Before(g, Len(s)) = Len(f)
      /\ \A k \in 1 .. Len(s) :
           /\ Before(g, k) = Before(g, k - 1) + Len(WriteFeed(s[k]))
           /\ TextAt(f, Before(g, k - 1), WriteFeed(s[k]))
  BY <1>2, <1>3 DEF TextAt
<1> QED BY <1>1, <1>2, <1>4, <1>5 DEF m, f, g, s

\* What stands behind the sections and the feeds of a file.
BeginsAt(s, k, m) == s[k + 1] = "section" /\ QuotedAt(s, k + 1, m.m_media_name)
FeedAt(s, k, f) ==
  LET e == k + Len(f.m_feed_name) + 2
  IN QuotedAt(s, k, f.m_feed_name) /\ s[e + 1] = "=" /\ QuotedAt(s, e + 1, f.m_feed_address)

LEMMA TextInText ==
  ASSUME NEW s, NEW k \in Nat, NEW t, TextAt(s, k, t), NEW l \in Nat, NEW u,
         TextAt(t, l, u), Len(t) \in Nat, Len(u) \in Nat, l + Len(u) <= Len(t)
  PROVE  TextAt(s, k + l, u)
<1>1. ASSUME NEW x \in 1 .. Len(u) PROVE s[k + l + x] = u[x]
  <2>1. l + x \in 1 .. Len(t) /\ k + (l + x) = k + l + x
    OBVIOUS
  <2>2. s[k + (l + x)] = t[l + x] /\ t[l + x] = u[x]
    BY <2>1 DEF TextAt
  <2> QED BY <2>1, <2>2
<1> QED BY <1>1 DEF TextAt

LEMMA QuotedInText ==
  ASSUME NEW s, NEW k \in Nat, NEW t, TextAt(s, k, t), NEW l \in Nat, NEW u,
         QuotedAt(t, l, u), Len(t) \in Nat, Len(u) \in Nat, l + Len(u) + 2 <= Len(t)
  PROVE  QuotedAt(s, k + l, u)
<1>1. /\ t[l + 1] = "quote" /\ TextAt(t, l + 1, u) /\ t[l + Len(u) + 2] = "quote"
  BY DEF QuotedAt
<1>6. l + 1 \in Nat /\ l + 1 + Len(u) <= Len(t)
  OBVIOUS
<1>2. TextAt(s, k + (l + 1), u)
  BY <1>1, <1>6, TextInText
<1>3. /\ l + 1 \in 1 .. Len(t) /\ l + Len(u) + 2 \in 1 .. Len(t) /\ k + (l + 1) = k + l + 1
      /\ k + (l + Len(u) + 2) = k + l + Len(u) + 2
  OBVIOUS
<1>5. \A x \in 1 .. Len(t) : s[k + x] = t[x]
  BY DEF TextAt
<1>4. s[k + (l + 1)] = t[l + 1] /\ s[k + (l + Len(u) + 2)] = t[l + Len(u) + 2]
  BY <1>3, <1>5
<1> QED BY <1>1, <1>2, <1>3, <1>4 DEF QuotedAt

LEMMA SectionPlaces ==
  ASSUME NEW medias \in Seq(WrittenMedia), NEW i \in 1 .. Len(medias)
  PROVE  LET w == Write(medias)
             k == SectionEnd(medias, i - 1)
             m == medias[i]
             n == Len(m.m_feeds)
         IN /\ k \in Nat /\ n \in Nat /\ Len(m.m_media_name) \in Nat
            /\ BeginsAt(w, k, m)
            /\ FeedEnd(medias, i, 0) = k + Len(m.m_media_name) + 3
            /\ \A j \in 0 .. n : FeedEnd(medias, i, j) \in Nat
            /\ \A j \in 0 .. n : \A l \in j .. n : FeedEnd(medias, i, j) <= FeedEnd(medias, i, l)
            /\ w[FeedEnd(medias, i, n) + 1] = "end"
            /\ SectionEnd(medias, i) = FeedEnd(medias, i, n) + 1
<1> DEFINE w == Write(medias)
           k == SectionEnd(medias, i - 1)
           m == medias[i]
           n == Len(m.m_feeds)
           u == WriteMedia(m)
           l == Len(m.m_media_name)
           f == FlattenSeq(Feeds(m))
           B(j) == Before(Feeds(m), j)
<1>1. /\ TextAt(w, k, u) /\ SectionEnd(medias, i) = k + Len(u)
  BY SectionEnds
<1>2. /\ m \in WrittenMedia /\ n \in Nat /\ l \in Nat /\ k \in Nat
      /\ B(0) = 0 /\ B(n) = Len(f)
      /\ \A j \in 0 .. n : B(j) \in Nat
      /\ \A j \in 0 .. n : \A x \in j .. n : B(j) <= B(x)
  BY FeedEnds
<1>3. /\ Len(u) = l + 3 + Len(f) + 1 /\ Len(f) \in Nat
      /\ u[1] = "section" /\ QuotedAt(u, 1, m.m_media_name)
      /\ u[l + 3 + Len(f) + 1] = "end"
  BY <1>2, WriteMediaIs
<1>4. \A j : FeedEnd(medias, i, j) = k + l + 3 + B(j)
  BY DEF FeedEnd
<1> HIDE DEF w, k, m, u, l, f, B, n
<1>5. QuotedAt(w, k + 1, m.m_media_name)
  <2>1. 1 + Len(m.m_media_name) + 2 <= Len(u) /\ Len(u) \in Nat /\ Len(m.m_media_name) \in Nat
    BY <1>2, <1>3 DEF l
  <2> QED BY <1>1, <1>2, <1>3, <2>1, QuotedInText
<1>6. w[k + 1] = "section" /\ w[k + (l + 3 + Len(f) + 1)] = "end"
  <2>1. 1 \in 1 .. Len(u) /\ l + 3 + Len(f) + 1 \in 1 .. Len(u)
    BY <1>2, <1>3
  <2> QED BY <1>1, <1>3, <2>1 DEF TextAt
<1>7. n \in 0 .. n /\ 0 \in 0 .. n
  BY <1>2
<1>8. /\ FeedEnd(medias, i, 0) = k + l + 3
      /\ FeedEnd(medias, i, n) + 1 = k + (l + 3 + Len(f) + 1)
      /\ \A j \in 0 .. n : FeedEnd(medias, i, j) \in Nat
  <2>1. FeedEnd(medias, i, 0) = k + l + 3 + B(0) /\ FeedEnd(medias, i, n) = k + l + 3 + B(n)
    BY <1>4
  <2>2. FeedEnd(medias, i, 0) = k + l + 3
    BY <1>2, <2>1
  <2>3. FeedEnd(medias, i, n) + 1 = k + (l + 3 + Len(f) + 1)
    BY <1>2, <1>3, <2>1
  <2>4. ASSUME NEW j \in 0 .. n PROVE FeedEnd(medias, i, j) \in Nat
    BY <1>2, <1>4
  <2> QED BY <2>2, <2>3, <2>4
<1>9. \A j \in 0 .. n : \A x \in j .. n : FeedEnd(medias, i, j) <= FeedEnd(medias, i, x)
  <2> TAKE j \in 0 .. n
  <2> TAKE x \in j .. n
  <2>1. x \in 0 .. n /\ B(j) \in Nat /\ B(x) \in Nat /\ B(j) <= B(x)
    BY <1>2
  <2> QED BY <1>2, <1>4, <2>1
<1>10. SectionEnd(medias, i) = FeedEnd(medias, i, n) + 1
  BY <1>1, <1>2, <1>3, <1>8
<1>11. BeginsAt(w, k, m)
  BY <1>5, <1>6 DEF BeginsAt
<1> QED BY <1>2, <1>6, <1>8, <1>9, <1>10, <1>11 DEF w, k, m, l, n

LEMMA FeedPlaces ==
  ASSUME NEW medias \in Seq(WrittenMedia), NEW i \in 1 .. Len(medias),
         NEW j \in 1 .. Len(medias[i].m_feeds)
  PROVE  LET w == Write(medias)
             k == FeedEnd(medias, i, j - 1)
             f == medias[i].m_feeds[j]
         IN /\ k \in Nat /\ f \in WrittenFeed
            /\ FeedAt(w, k, f)
            /\ FeedEnd(medias, i, j) =
                 k + Len(f.m_feed_name) + 4 + Len(f.m_feed_address) + 1
<1> DEFINE w == Write(medias)
           k0 == SectionEnd(medias, i - 1)
           m == medias[i]
           f == m.m_feeds[j]
           u == WriteMedia(m)
           l == Len(m.m_media_name)
           fs == FlattenSeq(Feeds(m))
           B(x) == Before(Feeds(m), x)
           v == WriteFeed(f)
           k == FeedEnd(medias, i, j - 1)
           n == Len(f.m_feed_name)
           a == Len(f.m_feed_address)
<1>1. /\ TextAt(w, k0, u) /\ k0 \in Nat
  BY SectionEnds, SectionPlaces
<1>2. /\ m \in WrittenMedia /\ Len(m.m_feeds) \in Nat /\ l \in Nat
      /\ B(Len(m.m_feeds)) = Len(fs)
      /\ \A x \in 0 .. Len(m.m_feeds) : B(x) \in Nat
      /\ \A x \in 0 .. Len(m.m_feeds) : \A y \in x .. Len(m.m_feeds) : B(x) <= B(y)
      /\ f \in WrittenFeed /\ B(j) = B(j - 1) + Len(v) /\ TextAt(fs, B(j - 1), v)
  BY FeedEnds
<1>3. Len(u) = l + 3 + Len(fs) + 1 /\ Len(fs) \in Nat /\ TextAt(u, l + 3, fs)
  BY <1>2, WriteMediaIs
<1>4. /\ Len(v) = n + 4 + a + 1 /\ n \in Nat /\ a \in Nat
      /\ v[1] = "quote" /\ TextAt(v, 1, f.m_feed_name) /\ v[n + 2] = "quote"
      /\ v[n + 3] = "=" /\ v[n + 4] = "quote"
      /\ TextAt(v, n + 4, f.m_feed_address) /\ v[n + 4 + a + 1] = "quote"
  BY <1>2, WriteFeedIs
<1>5. /\ k = k0 + l + 3 + B(j - 1) /\ FeedEnd(medias, i, j) = k0 + l + 3 + B(j)
  BY DEF FeedEnd
<1>6. j \in 1 .. Len(m.m_feeds)
  OBVIOUS
<1> HIDE DEF w, k0, m, f, u, l, fs, B, v, k, n, a
<1>7. B(j - 1) \in Nat /\ B(j) \in Nat /\ B(j) <= Len(fs)
  <2>1. j - 1 \in 0 .. Len(m.m_feeds) /\ j \in 0 .. Len(m.m_feeds)
        /\ Len(m.m_feeds) \in j .. Len(m.m_feeds)
    BY <1>2, <1>6
  <2> QED BY <1>2, <2>1
<1>8. TextAt(w, k0 + (l + 3), fs)
  <2>1. l + 3 \in Nat /\ Len(u) \in Nat /\ l + 3 + Len(fs) <= Len(u)
    BY <1>2, <1>3
  <2> QED BY <1>1, <1>3, <2>1, TextInText
<1>9. TextAt(w, k0 + (l + 3) + B(j - 1), v)
  <2>1. k0 + (l + 3) \in Nat
    BY <1>1, <1>2
  <2>2. Len(v) \in Nat
    BY <1>4
  <2>3. B(j) = B(j - 1) + Len(v) /\ TextAt(fs, B(j - 1), v)
    BY <1>2
  <2>4. B(j - 1) + Len(v) <= Len(fs) /\ B(j - 1) \in Nat
    BY <1>7, <2>3
  <2>5. Len(fs) \in Nat
    BY <1>3
  <2> QED BY <1>8, <2>1, <2>2, <2>3, <2>4, <2>5, TextInText
<1>10. k0 + (l + 3) + B(j - 1) = k /\ k \in Nat
  <2>1. k0 \in Nat /\ l \in Nat /\ B(j - 1) \in Nat /\ k = k0 + l + 3 + B(j - 1)
    BY <1>1, <1>2, <1>5, <1>7
  <2> QED BY <2>1
<1>11. TextAt(w, k, v)
  BY <1>9, <1>10
<1>12. QuotedAt(v, 0, f.m_feed_name) /\ QuotedAt(v, n + 3, f.m_feed_address)
  <2>1. 0 + 1 = 1 /\ 0 + n + 2 = n + 2 /\ n + 3 + 1 = n + 4 /\ n + 3 + a + 2 = n + 4 + a + 1
    BY <1>4
  <2> QED BY <1>4, <2>1 DEF QuotedAt, n, a
<1>13. Len(v) \in Nat /\ 0 + n + 2 <= Len(v) /\ n + 3 + a + 2 <= Len(v) /\ n + 3 \in Nat
  BY <1>4
<1>14. QuotedAt(w, k + 0, f.m_feed_name) /\ QuotedAt(w, k + (n + 3), f.m_feed_address)
  BY <1>4, <1>10, <1>11, <1>12, <1>13, QuotedInText DEF n, a
<1>15. w[k + (n + 3)] = "="
  <2>1. n + 3 \in 1 .. Len(v)
    BY <1>4
  <2> QED BY <1>4, <1>11, <2>1 DEF TextAt
<1>16. FeedAt(w, k, f)
  <2>1. k + 0 = k /\ k + n + 2 + 1 = k + (n + 3)
    BY <1>4, <1>10
  <2>2. k + n + 2 = k + Len(f.m_feed_name) + 2 /\ k + n + 2 + 1 = k + (n + 3)
    BY <2>1 DEF n
  <2> QED BY <1>14, <1>15, <2>1, <2>2 DEF FeedAt
<1>17. FeedEnd(medias, i, j) = k + n + 4 + a + 1
  <2>1. B(j) = B(j - 1) + Len(v) /\ Len(v) = n + 4 + a + 1
    BY <1>2, <1>4
  <2>2. FeedEnd(medias, i, j) = k + Len(v)
    BY <1>1, <1>2, <1>5, <1>7, <1>13, <2>1
  <2> QED BY <1>4, <1>10, <2>1, <2>2
<1> QED BY <1>2, <1>10, <1>16, <1>17 DEF w, m, f, k, n, a

\* UpToFeed ends where feed j of section i ends.
LEMMA UpToFeedIs ==
  ASSUME written \in Seq(WrittenMedia), NEW i \in 1 .. Len(written),
         NEW j \in 1 .. Len(written[i].m_feeds)
  PROVE  Len(UpToFeed(i, j)) = FeedEnd(written, i, j)
<1> DEFINE m == written[i]
           s == m.m_feeds
           t == SubSeq(s, 1, j)
           m2 == [m EXCEPT !.m_feeds = t]
           p == SubSeq(written, 1, i - 1)
           medias == Append(p, m2)
<1>1. /\ m \in WrittenMedia /\ s \in Seq(WrittenFeed) /\ Len(s) \in Nat /\ DOMAIN s = 1 .. Len(s)
      /\ j \in 1 .. Len(s)
  BY ElementOf, MediaParts
<1>2. /\ t \in Seq(WrittenFeed) /\ Len(t) = j /\ DOMAIN t = 1 .. j
      /\ \A x \in 1 .. j : t[x] = s[x]
  BY <1>1
<1> HIDE DEF m, t
<1>3. m2 \in WrittenMedia /\ m2.m_feeds = t /\ m2.m_media_name = m.m_media_name
  BY <1>1, <1>2 DEF WrittenMedia
<1> HIDE DEF m2, s
<1>4. /\ p \in Seq(WrittenMedia) /\ Len(p) = i - 1 /\ \A x \in 1 .. i - 1 : p[x] = written[x]
  OBVIOUS
<1> HIDE DEF p
<1>5. /\ medias \in Seq(WrittenMedia) /\ Len(medias) = i /\ medias[i] = m2
      /\ \A x \in 1 .. i - 1 : medias[x] = written[x]
  BY <1>3, <1>4
<1>6. i \in 1 .. Len(medias) /\ i \in Nat
  BY <1>5
<1> HIDE DEF medias
<1>7. SectionEnd(medias, i - 1) = SectionEnd(written, i - 1)
  <2> DEFINE g == Sections(medias)
             h == Sections(written)
  <2>1. /\ g \in Seq(Seq(Symbol)) /\ Len(g) = i
        /\ \A x \in 1 .. i : g[x] = WriteMedia(medias[x])
    BY <1>5, SectionsAre
  <2>2. /\ h \in Seq(Seq(Symbol)) /\ Len(h) = Len(written)
        /\ \A x \in 1 .. Len(written) : h[x] = WriteMedia(written[x])
    BY SectionsAre
  <2>3. \A x \in 1 .. i - 1 : x \in 1 .. i /\ x \in 1 .. Len(written)
    BY <1>6
  <2> HIDE DEF g, h
  <2>4. \A x \in 1 .. i - 1 : g[x] = h[x]
    BY <1>5, <2>1, <2>2, <2>3
  <2>5. SubSeq(g, 1, i - 1) = SubSeq(h, 1, i - 1)
    BY <1>6, <2>1, <2>2, <2>4
  <2> QED BY <2>5 DEF SectionEnd, Before, g, h
<1>8. FlattenSeq(Feeds(m2)) = FlattenSeq(SubSeq(Feeds(m), 1, j))
  <2> DEFINE g == Feeds(m2)
             h == Feeds(m)
  <2>1. /\ g \in Seq(Seq(Symbol)) /\ Len(g) = j
        /\ \A x \in 1 .. j : g[x] = WriteFeed(t[x])
    BY <1>2, <1>3, FeedsAre
  <2>2. /\ h \in Seq(Seq(Symbol)) /\ Len(h) = Len(s)
        /\ \A x \in 1 .. Len(s) : h[x] = WriteFeed(s[x])
    BY <1>1, FeedsAre DEF s
  <2>3. \A x \in 1 .. j : x \in 1 .. Len(s)
    BY <1>1
  <2> HIDE DEF g, h
  <2>4. \A x \in 1 .. j : g[x] = h[x]
    BY <1>2, <2>1, <2>2, <2>3
  <2>5. g = SubSeq(h, 1, j)
    BY <1>1, <2>1, <2>2, <2>4
  <2> QED BY <2>5 DEF g, h
<1>9. /\ SectionEnd(medias, i) = SectionEnd(medias, i - 1) + Len(WriteMedia(m2))
      /\ Write(medias) \in Seq(Symbol) /\ SectionEnd(medias, i) = Len(Write(medias))
  BY <1>5, <1>6, SectionEnds
<1>10. Len(WriteMedia(m2)) = Len(m.m_media_name) + 3 + Before(Feeds(m), j) + 1
  BY <1>3, <1>8, WriteMediaIs DEF Before
<1>11. UpToFeed(i, j) = SubSeq(Write(medias), 1, Len(Write(medias)) - 1)
  BY DEF UpToFeed, Front, medias, p, m2, t, s, m
<1>12. /\ SectionEnd(written, i - 1) \in Nat /\ Len(m.m_media_name) \in Nat
       /\ Before(Feeds(m), j) \in Nat
  BY <1>1, FeedEnds DEF m, s
<1>13. FeedEnd(written, i, j) =
         SectionEnd(written, i - 1) + Len(m.m_media_name) + 3 + Before(Feeds(m), j)
  BY DEF FeedEnd, m
<1>14. FeedEnd(written, i, j) \in Nat /\ Len(Write(medias)) = FeedEnd(written, i, j) + 1
  <2> DEFINE a == SectionEnd(written, i - 1)
             b == Len(m.m_media_name)
             c == Before(Feeds(m), j)
  <2>1. a \in Nat /\ b \in Nat /\ c \in Nat /\ FeedEnd(written, i, j) = a + b + 3 + c
    BY <1>12, <1>13
  <2>2. Len(Write(medias)) = a + (b + 3 + c + 1)
    BY <1>7, <1>9, <1>10
  <2> HIDE DEF a, b, c
  <2> QED BY <2>1, <2>2
<1> QED
  <2> DEFINE w == Write(medias)
             e == FeedEnd(written, i, j)
  <2>1. w \in Seq(Symbol) /\ e \in Nat /\ Len(w) = e + 1 /\ UpToFeed(i, j) = SubSeq(w, 1, Len(w) - 1)
    BY <1>9, <1>11, <1>14
  <2> HIDE DEF w, e
  <2>2. Len(SubSeq(w, 1, e)) = e
    BY <2>1
  <2>3. Len(w) - 1 = e
    BY <2>1
  <2> QED BY <2>1, <2>2, <2>3 DEF e

-----------------------------------------------------------------------------
(* What is left of a damaged file *)

Harmed(s, w, d) ==
  /\ s \in Seq(Symbol) /\ Len(s) \in Nat /\ Len(w) \in Nat
  /\ d.kind \in {"none", "cut", "drop", "quote"} /\ d.at \in 1 .. Len(w) + 1
  /\ d.at <= Len(s) + 1 /\ \A x \in 1 .. d.at - 1 : s[x] = w[x]
  /\ d.kind = "none" => s = w /\ d.at = Len(w) + 1
  /\ d.kind = "cut" => Len(s) = d.at - 1 /\ d.at <= Len(w)
  /\ d.kind = "drop" =>
       /\ Len(s) = Len(w) - 1 /\ d.at <= Len(w)
       /\ \A x \in d.at .. Len(s) : s[x] = w[x + 1]
  /\ d.kind = "quote" =>
       /\ Len(s) = Len(w) + 1 /\ s[d.at] = "quote"
       /\ \A x \in d.at + 1 .. Len(s) : s[x] = w[x - 1]

LEMMA DamagedIs ==
  ASSUME NEW w \in Seq(Symbol), NEW d \in Damages(w)
  PROVE  Harmed(Damaged(w, d), w, d)
<1> DEFINE s == Damaged(w, d)
           n == Len(w)
           a == d.at
           p == SubSeq(w, 1, a - 1)
<1>1. n \in Nat /\ w \in [1 .. n -> Symbol]
  OBVIOUS
<1>2. /\ d.kind \in {"none", "cut", "drop", "quote"} /\ a \in 1 .. n + 1
      /\ d.kind = "none" => a = n + 1
      /\ d.kind \in {"cut", "drop"} => a <= n
  BY <1>1 DEF Damages
<1>3. p \in Seq(Symbol) /\ Len(p) = a - 1 /\ \A x \in 1 .. a - 1 : p[x] = w[x]
  BY <1>1, <1>2
<1>4. CASE d.kind = "none"
  <2>1. s = w
    BY <1>4 DEF Damaged
  <2>2. a = n + 1 /\ a - 1 = n
    BY <1>1, <1>2, <1>4
  <2> HIDE DEF s
  <2> QED BY <1>1, <1>4, <2>1, <2>2 DEF Harmed, s
<1>5. CASE d.kind = "cut"
  <2>1. s = p
    BY <1>5 DEF Damaged
  <2>2. Len(s) \in Nat
    BY <1>3, <2>1
  <2> HIDE DEF s, p, a
  <2>3. Harmed(s, w, d)
    BY <1>1, <1>2, <1>3, <1>5, <2>1, <2>2 DEF Harmed, a
  <2> QED BY <2>3 DEF s
<1>6. CASE d.kind = "drop"
  <2> DEFINE t == SubSeq(w, a + 1, n)
  <2>1. s = p \o t
    BY <1>6 DEF Damaged, RemoveAt
  <2>2. t \in Seq(Symbol) /\ Len(t) = n - a /\ \A x \in 1 .. n - a : t[x] = w[a + x]
    BY <1>1, <1>2, <1>6
  <2> HIDE DEF s, p, t, a
  <2>3. s \in Seq(Symbol) /\ Joined(s, p, t)
    BY <1>3, <2>1, <2>2, Concatenated, Zenon
  <2> HIDE DEF n
  <2>10. Len(s) = n - 1
    BY <1>1, <1>2, <1>3, <2>2, <2>3 DEF Joined
  <2>11. \A x \in 1 .. a - 1 : s[x] = w[x]
    BY <1>3, <2>3 DEF Joined
  <2>12. \A x \in 1 .. n - a : s[a - 1 + x] = w[a + x]
    BY <1>3, <2>2, <2>3 DEF Joined
  <2>4. /\ Len(s) = n - 1 /\ \A x \in 1 .. a - 1 : s[x] = w[x]
        /\ \A x \in 1 .. n - a : s[a - 1 + x] = w[a + x]
    BY <2>10, <2>11, <2>12
  <2>5. ASSUME NEW x \in a .. n - 1 PROVE s[x] = w[x + 1]
    <3>1. x - a + 1 \in 1 .. n - a /\ a - 1 + (x - a + 1) = x /\ a + (x - a + 1) = x + 1
      BY <1>1, <1>2
    <3> QED BY <2>4, <3>1
  <2>6. Len(s) \in Nat /\ a <= n /\ a <= Len(s) + 1
    BY <1>1, <1>2, <1>6, <2>4
  <2>7. Harmed(s, w, d)
    BY <1>1, <1>2, <1>6, <2>3, <2>4, <2>5, <2>6 DEF Harmed, a
  <2> QED BY <2>7 DEF s
<1>7. CASE d.kind = "quote"
  <2> DEFINE t == SubSeq(w, a, n)
             q == <<"quote">>
             u == p \o q
  <2>1. s = u \o t
    BY <1>7 DEF Damaged, InsertAt
  <2>2. t \in Seq(Symbol) /\ Len(t) = n - a + 1 /\ \A x \in 1 .. n - a + 1 : t[x] = w[a - 1 + x]
    <3>1. CASE a = n + 1
      BY <1>1, <3>1
    <3>2. CASE a # n + 1
      BY <1>1, <1>2, <3>2
    <3> QED BY <3>1, <3>2
  <2>3. q \in Seq(Symbol) /\ Len(q) = 1 /\ q[1] = "quote" /\ 1 \in 1 .. Len(q)
    BY KeywordsAreSymbols
  <2> HIDE DEF s, p, t, a, q
  <2>4. u \in Seq(Symbol) /\ Joined(u, p, q)
    BY <1>3, <2>3, Concatenated, Zenon
  <2>5. Len(u) = a /\ u[a] = "quote" /\ \A x \in 1 .. a - 1 : u[x] = w[x]
    <3>1. Len(u) = a - 1 + 1 /\ u[a - 1 + 1] = "quote" /\ \A x \in 1 .. a - 1 : u[x] = p[x]
      BY <1>3, <2>3, <2>4 DEF Joined
    <3>2. a - 1 + 1 = a
      BY <1>1, <1>2
    <3> QED BY <1>3, <3>1, <3>2
  <2> HIDE DEF u
  <2>6. s \in Seq(Symbol) /\ Joined(s, u, t)
    BY <2>1, <2>2, <2>4, Concatenated, Zenon
  <2>7. /\ Len(s) = n + 1 /\ s[a] = "quote" /\ \A x \in 1 .. a - 1 : s[x] = w[x]
        /\ \A x \in 1 .. n - a + 1 : s[a + x] = w[a - 1 + x]
    <3>1. a \in 1 .. a /\ \A x \in 1 .. a - 1 : x \in 1 .. a
      BY <1>1, <1>2
    <3>2. a + (n - a + 1) = n + 1
      BY <1>1, <1>2
    <3> QED BY <2>2, <2>5, <2>6, <3>1, <3>2 DEF Joined
  <2>8. ASSUME NEW x \in a + 1 .. n + 1 PROVE s[x] = w[x - 1]
    <3>1. x - a \in 1 .. n - a + 1 /\ a + (x - a) = x /\ a - 1 + (x - a) = x - 1
      BY <1>1, <1>2
    <3> QED BY <2>7, <3>1
  <2>9. Len(s) \in Nat /\ a <= Len(s) + 1
    BY <1>1, <1>2, <2>7
  <2>10. Harmed(s, w, d)
    BY <1>1, <1>2, <1>7, <2>6, <2>7, <2>8, <2>9 DEF Harmed, a
  <2> QED BY <2>10 DEF s
<1> QED BY <1>2, <1>4, <1>5, <1>6, <1>7

-----------------------------------------------------------------------------
(* What the grammar reads *)

LEMMA Between ==
  ASSUME NEW S, NEW s \in Seq(S), NEW k \in 0 .. Len(s), NEW h \in k .. Len(s)
  PROVE  /\ SubSeq(s, k + 1, h) \in Seq(S) /\ Len(SubSeq(s, k + 1, h)) = h - k
         /\ \A x \in 1 .. h - k : SubSeq(s, k + 1, h)[x] = s[k + x]
<1> DEFINE l == k + 1
           r == SubSeq(s, l, h)
<1>1. Len(s) \in Nat /\ k \in Nat /\ h \in Nat /\ k <= h /\ h <= Len(s) /\ l = k + 1 /\ l \in Int
  OBVIOUS
<1> HIDE DEF l
<1>2. \A i \in l .. h : s[i] \in S
  <2>1. \A i \in l .. h : i \in 1 .. Len(s)
    BY <1>1
  <2> QED BY <2>1, ElementOf
<1>3. /\ r \in Seq(S)
      /\ Len(r) = IF l <= h THEN h - l + 1 ELSE 0
      /\ \A i \in 1 .. h - l + 1 : r[i] = s[l + i - 1]
  BY <1>1, <1>2, SubSeqProperties
<1> HIDE DEF r
<1>4. Len(r) = h - k
  BY <1>1, <1>3
<1>5. ASSUME NEW x \in 1 .. h - k PROVE r[x] = s[k + x]
  <2>1. x \in 1 .. h - l + 1 /\ l + x - 1 = k + x
    BY <1>1
  <2> QED BY <1>3, <2>1
<1> QED BY <1>3, <1>4, <1>5 DEF r, l

LEMMA FromIs ==
  ASSUME NEW S, NEW s \in Seq(S), NEW k \in 0 .. Len(s)
  PROVE  /\ From(s, k + 1) \in Seq(S) /\ Len(From(s, k + 1)) = Len(s) - k
         /\ \A x \in 1 .. Len(s) - k : From(s, k + 1)[x] = s[k + x]
<1>1. Len(s) \in k .. Len(s)
  OBVIOUS
<1> QED BY <1>1, Between DEF From

LEMMA FromFrom ==
  ASSUME NEW S, NEW s \in Seq(S), NEW k \in 0 .. Len(s), NEW l \in 0 .. Len(s) - k
  PROVE  From(From(s, k + 1), l + 1) = From(s, k + l + 1)
<1> DEFINE r == From(s, k + 1)
           t == From(r, l + 1)
           u == From(s, k + l + 1)
           n == Len(s)
<1>1. n \in Nat /\ k \in Nat /\ l \in Nat /\ k + l \in 0 .. n
  OBVIOUS
<1>2. r \in Seq(S) /\ Len(r) = n - k /\ \A x \in 1 .. n - k : r[x] = s[k + x]
  BY FromIs
<1>3. u \in Seq(S) /\ Len(u) = n - (k + l) /\ \A x \in 1 .. n - (k + l) : u[x] = s[k + l + x]
  BY <1>1, FromIs
<1> HIDE DEF r, u
<1>4. l \in 0 .. Len(r)
  BY <1>1, <1>2
<1>5. t \in Seq(S) /\ Len(t) = Len(r) - l /\ \A x \in 1 .. Len(r) - l : t[x] = r[l + x]
  BY <1>2, <1>4, FromIs
<1> HIDE DEF t, n
<1>6. Len(r) - l = n - (k + l) /\ Len(t) = Len(u)
  BY <1>1, <1>2, <1>3, <1>5
<1>7. ASSUME NEW x \in 1 .. Len(u) PROVE t[x] = u[x]
  <2>1. x \in 1 .. n - (k + l) /\ x \in Nat
    BY <1>3
  <2>2. /\ x \in 1 .. Len(r) - l /\ l + x \in 1 .. n - k /\ k + (l + x) = k + l + x
    BY <1>1, <1>6, <2>1
  <2>3. t[x] = r[l + x] /\ u[x] = s[k + l + x]
    BY <1>3, <1>5, <2>1, <2>2
  <2>4. r[l + x] = s[k + (l + x)]
    BY <1>2, <2>2
  <2> QED BY <2>2, <2>3, <2>4
<1>8. t = u
  BY <1>3, <1>5, <1>6, <1>7, SeqEqual
<1> QED BY <1>8 DEF t, r, u

LEMMA TailIs ==
  ASSUME NEW S, NEW s \in Seq(S), NEW k \in 0 .. Len(s), k + 1 <= Len(s)
  PROVE  Tail(From(s, k + 1)) = From(s, k + 2)
<1>1. /\ From(s, k + 1) \in Seq(S) /\ Len(From(s, k + 1)) = Len(s) - k /\ Len(s) \in Nat
  BY FromIs
<1>2. 1 \in 0 .. Len(s) - k /\ From(s, k + 1) # <<>> /\ k + 1 + 1 = k + 2
  BY <1>1
<1>3. From(From(s, k + 1), 1 + 1) = From(s, k + 1 + 1)
  BY <1>2, FromFrom
<1>4. Tail(From(s, k + 1)) = From(From(s, k + 1), 1 + 1)
  BY <1>1, <1>2 DEF From
<1> QED BY <1>2, <1>3, <1>4

\* a stands in s at k.
Has(s, k, a) == k <= Len(s) /\ s[k] = a

LEMMA OneSymbol ==
  ASSUME NEW s \in Seq(Symbol), NEW k \in 0 .. Len(s), NEW a
  PROVE  IsPrefix(<<a>>, From(s, k + 1)) <=> Has(s, k + 1, a)
<1> DEFINE r == From(s, k + 1)
<1>1. r \in Seq(Symbol) /\ Len(r) = Len(s) - k /\ \A x \in 1 .. Len(s) - k : r[x] = s[k + x]
  BY FromIs
<1> HIDE DEF r
<1>2. IsPrefix(<<a>>, r) <=> 1 <= Len(r) /\ r[1] = a
  BY <1>1 DEF IsPrefix
<1>3. 1 <= Len(r) <=> k + 1 <= Len(s)
  BY <1>1
<1>4. 1 <= Len(r) => r[1] = s[k + 1]
  BY <1>1
<1> QED BY <1>2, <1>3, <1>4 DEF r, Has

LEMMA TwoSymbols ==
  ASSUME NEW s \in Seq(Symbol), NEW k \in 0 .. Len(s), NEW a, NEW b
  PROVE  IsPrefix(<<a, b>>, From(s, k + 1)) <=> Has(s, k + 1, a) /\ Has(s, k + 2, b)
<1> DEFINE r == From(s, k + 1)
<1>1. r \in Seq(Symbol) /\ Len(r) = Len(s) - k /\ \A x \in 1 .. Len(s) - k : r[x] = s[k + x]
  BY FromIs
<1> HIDE DEF r
<1>2. IsPrefix(<<a, b>>, r) <=> 2 <= Len(r) /\ r[1] = a /\ r[2] = b
  BY <1>1 DEF IsPrefix
<1>3. 2 <= Len(r) <=> k + 2 <= Len(s)
  BY <1>1
<1>4. 2 <= Len(r) => r[1] = s[k + 1] /\ r[2] = s[k + 2]
  BY <1>1
<1>5. k + 2 <= Len(s) => k + 1 <= Len(s)
  OBVIOUS
<1> QED BY <1>2, <1>3, <1>4, <1>5 DEF r, Has

LEMMA ThreeSymbols ==
  ASSUME NEW s \in Seq(Symbol), NEW k \in 0 .. Len(s), NEW a, NEW b, NEW c
  PROVE  IsPrefix(<<a, b, c>>, From(s, k + 1))
           <=> Has(s, k + 1, a) /\ Has(s, k + 2, b) /\ Has(s, k + 3, c)
<1> DEFINE r == From(s, k + 1)
<1>1. r \in Seq(Symbol) /\ Len(r) = Len(s) - k /\ \A x \in 1 .. Len(s) - k : r[x] = s[k + x]
  BY FromIs
<1> HIDE DEF r
<1>2. IsPrefix(<<a, b, c>>, r) <=> 3 <= Len(r) /\ r[1] = a /\ r[2] = b /\ r[3] = c
  BY <1>1 DEF IsPrefix
<1>3. 3 <= Len(r) <=> k + 3 <= Len(s)
  BY <1>1
<1>4. 3 <= Len(r) => r[1] = s[k + 1] /\ r[2] = s[k + 2] /\ r[3] = s[k + 3]
  BY <1>1
<1>5. k + 3 <= Len(s) => k + 1 <= Len(s) /\ k + 2 <= Len(s)
  OBVIOUS
<1> QED BY <1>2, <1>3, <1>4, <1>5 DEF r, Has

\* q is where the next quote stands behind the first k symbols of s, or the end.
ReadsTo(s, k, q) ==
  /\ q \in k + 1 .. Len(s) + 1 /\ \A x \in k + 1 .. q - 1 : s[x] # "quote"
  /\ q <= Len(s) => s[q] = "quote"

ReadsText(s, k, q, t) == ReadsTo(s, k, q) /\ t = SubSeq(s, k + 1, q - 1) /\ Len(t) = q - 1 - k

LEMMA SelectQuote ==
  ASSUME NEW r
  PROVE  LET I == {i \in 1 .. Len(r) : r[i] = "quote"}
         IN SelectInSeq(r, LAMBDA symbol : symbol = "quote") = IF I # {} THEN Min(I) ELSE 0
  BY Zenon DEF SelectInSeq

LEMMA UpToQuoteIs ==
  ASSUME NEW s \in Seq(Symbol), NEW k \in 0 .. Len(s)
  PROVE  \E q : ReadsText(s, k, q, UpToQuote(From(s, k + 1)))
<1> DEFINE r == From(s, k + 1)
           I == {i \in 1 .. Len(r) : r[i] = "quote"}
           z == SelectInSeq(r, LAMBDA symbol : symbol = "quote")
           n == Len(s)
<1>1. r \in Seq(Symbol) /\ Len(r) = n - k /\ \A x \in 1 .. n - k : r[x] = s[k + x]
  BY FromIs
<1>2. z = IF I # {} THEN Min(I) ELSE 0
  BY SelectQuote
<1>3. UpToQuote(r) = IF z = 0 THEN r ELSE SubSeq(r, 1, z - 1)
  BY DEF UpToQuote
<1>4. n \in Nat /\ k \in Nat /\ k <= n
  OBVIOUS
<1>5. r = SubSeq(s, k + 1, n)
  BY DEF From
<1> HIDE DEF r, z
<1>6. CASE I = {}
  <2>1. UpToQuote(r) = SubSeq(s, k + 1, n + 1 - 1)
    BY <1>2, <1>3, <1>4, <1>5, <1>6
  <2>2. ASSUME NEW x \in k + 1 .. n + 1 - 1 PROVE s[x] # "quote"
    <3>1. x - k \in 1 .. Len(r) /\ k + (x - k) = x
      BY <1>1, <1>4
    <3>2. r[x - k] # "quote"
      BY <1>6, <3>1
    <3> QED BY <1>1, <3>1, <3>2
  <2>3. ReadsTo(s, k, n + 1)
    BY <1>4, <2>2 DEF ReadsTo
  <2>4. Len(UpToQuote(r)) = n + 1 - 1 - k
    BY <1>1, <1>2, <1>3, <1>4, <1>6
  <2>5. ReadsText(s, k, n + 1, UpToQuote(r))
    BY <2>1, <2>3, <2>4 DEF ReadsText
  <2> QED BY <2>5 DEF r
<1>7. CASE I # {}
  <2>1. I \subseteq Nat
    OBVIOUS
  <2>2. PICK m \in I : \A i \in I : m <= i
    BY <1>7, <2>1, LeastNatural
  <2>3. z \in I /\ \A i \in I : z <= i
    BY <1>2, <1>7, <2>2, Zenon DEF Min
  <2>4. z \in 1 .. Len(r) /\ r[z] = "quote" /\ z # 0
    BY <2>3
  <2>5. UpToQuote(r) = SubSeq(r, 1, z - 1)
    BY <1>3, <2>4
  <2>6. ASSUME NEW x \in k + 1 .. k + z - 1 PROVE s[x] # "quote"
    <3>1. x - k \in 1 .. Len(r) /\ k + (x - k) = x /\ x - k < z
      BY <1>1, <1>4, <2>4
    <3>2. r[x - k] # "quote"
      <4>1. x - k \notin I
        BY <2>3, <2>4, <3>1
      <4> QED BY <3>1, <4>1
    <3> QED BY <1>1, <3>1, <3>2
  <2>7. s[k + z] = "quote" /\ k + z \in k + 1 .. n
    BY <1>1, <1>4, <2>4
  <2>8. ReadsTo(s, k, k + z)
    <3>1. k + z \in k + 1 .. n + 1
      BY <1>4, <2>7
    <3> QED BY <1>4, <2>4, <2>6, <2>7, <3>1 DEF ReadsTo
  <2> DEFINE p == k + z
             h == p - 1
             t == SubSeq(r, 1, z - 1)
             u == SubSeq(s, k + 1, h)
  <2>9. /\ h \in k .. n /\ h - k = z - 1 /\ h = p - 1 /\ p \in Int
        /\ \A x \in 1 .. z - 1 : x \in 1 .. n - k
    BY <1>1, <1>4, <2>4
  <2>10. t \in Seq(Symbol) /\ Len(t) = z - 1 /\ \A x \in 1 .. z - 1 : t[x] = r[x]
    BY <1>1, <2>4
  <2>11. u \in Seq(Symbol) /\ Len(u) = h - k /\ \A x \in 1 .. h - k : u[x] = s[k + x]
    <3> HIDE DEF h
    <3> QED BY <2>9, Between
  <2> HIDE DEF p, h, t, u
  <2>12. t = u
    BY <1>1, <2>9, <2>10, <2>11, SeqEqual
  <2>13. t = SubSeq(s, k + 1, p - 1) /\ Len(t) = p - 1 - k
    BY <2>9, <2>10, <2>12 DEF u
  <2>14. UpToQuote(r) = t /\ ReadsTo(s, k, p)
    BY <2>5, <2>8 DEF t, p
  <2>15. ReadsText(s, k, p, t)
    BY <2>13, <2>14 DEF ReadsText
  <2> QED BY <2>14, <2>15 DEF r
<1> QED BY <1>6, <1>7

\* What BeginSection, SetCurrentRssName and AddRssToSection do where k symbols
\* of s are read, the text in front of them ending at q.
Began(s, k, q) ==
  /\ Has(s, k + 1, "section") /\ Has(s, k + 2, "quote") /\ ReadsTo(s, k + 2, q)
  /\ m_medias' = Append(m_medias, [m_media_name |-> SubSeq(s, k + 2 + 1, q - 1), m_feeds |-> <<>>])
  /\ q <= Len(s) => pc' = "feeds" /\ rest' = From(s, q + 1)
  /\ q > Len(s) => pc' = "failed" /\ UNCHANGED rest

LEMMA BeginSectionReads ==
  ASSUME NEW s \in Seq(Symbol), NEW k \in 0 .. Len(s), rest = From(s, k + 1), BeginSection
  PROVE  \E q : Began(s, k, q)
<1> DEFINE t == UpToQuote(From(rest, 3))
<1>1. Has(s, k + 1, "section") /\ Has(s, k + 2, "quote")
  BY TwoSymbols DEF BeginSection
<1>2. Len(s) \in Nat /\ k + 2 \in 0 .. Len(s) /\ 2 \in 0 .. Len(s) - k
  BY <1>1 DEF Has
<1>3. From(rest, 3) = From(s, k + 2 + 1)
  <2>1. From(From(s, k + 1), 2 + 1) = From(s, k + 2 + 1)
    BY <1>2, FromFrom
  <2>2. 2 + 1 = 3
    OBVIOUS
  <2> QED BY <2>1, <2>2
<1>4. PICK q : ReadsText(s, k + 2, q, t)
  BY <1>2, <1>3, UpToQuoteIs
<1>5. /\ ReadsTo(s, k + 2, q) /\ t = SubSeq(s, k + 2 + 1, q - 1) /\ Len(t) = q - 1 - (k + 2)
      /\ q \in k + 2 + 1 .. Len(s) + 1
  BY <1>4 DEF ReadsText, ReadsTo
<1>6. /\ m_medias' = Append(m_medias, [m_media_name |-> t, m_feeds |-> <<>>])
      /\ Expect(<<"quote">>, From(rest, 3 + Len(t)), "feeds")
  BY DEF BeginSection
<1> HIDE DEF t
<1>7. From(rest, 3 + Len(t)) = From(s, q)
  <2> DEFINE l == q - 1 - k
  <2>1. l \in 0 .. Len(s) - k /\ l + 1 = 3 + Len(t) /\ k + l + 1 = q
    BY <1>2, <1>5
  <2>2. From(From(s, k + 1), l + 1) = From(s, k + l + 1)
    BY <2>1, FromFrom
  <2> QED BY <2>1, <2>2
<1> DEFINE p == q - 1
<1>8. p \in 0 .. Len(s) /\ p + 1 = q
  BY <1>2, <1>5
<1> HIDE DEF p
<1>9. IsPrefix(<<"quote">>, From(s, q)) <=> Has(s, q, "quote")
  BY <1>8, OneSymbol
<1>10. Has(s, q, "quote") <=> q <= Len(s)
  BY <1>5 DEF ReadsTo, Has
<1>11. Has(s, q, "quote") => From(From(s, q), 2) = From(s, q + 1)
  <2>1. SUFFICES ASSUME Has(s, q, "quote") PROVE From(From(s, q), 2) = From(s, q + 1)
    OBVIOUS
  <2>2. 1 \in 0 .. Len(s) - p
    BY <1>2, <1>8, <1>10, <2>1
  <2>3. From(From(s, p + 1), 1 + 1) = From(s, p + 1 + 1)
    BY <1>8, <2>2, FromFrom
  <2> QED BY <1>8, <2>3
<1>12. Len(<<"quote">>) + 1 = 2
  OBVIOUS
<1>13. Has(s, q, "quote") => pc' = "feeds" /\ rest' = From(s, q + 1)
  BY <1>6, <1>7, <1>9, <1>11, <1>12 DEF Expect
<1>14. ~Has(s, q, "quote") => pc' = "failed" /\ UNCHANGED rest
  BY <1>6, <1>7, <1>9 DEF Expect
<1>15. q > Len(s) => ~(q <= Len(s))
  BY <1>2, <1>5
<1>16. Began(s, k, q)
  BY <1>1, <1>5, <1>6, <1>10, <1>13, <1>14, <1>15 DEF Began
<1> QED BY <1>16

LEMMA ExpectQuote ==
  ASSUME NEW s \in Seq(Symbol), NEW p \in 0 .. Len(s), NEW next,
         Expect(<<"quote">>, From(s, p + 1), next)
  PROVE  /\ Has(s, p + 1, "quote") => pc' = next /\ rest' = From(s, p + 2)
         /\ ~Has(s, p + 1, "quote") => pc' = "failed" /\ UNCHANGED rest
<1>1. IsPrefix(<<"quote">>, From(s, p + 1)) <=> Has(s, p + 1, "quote")
  BY OneSymbol
<1>2. Has(s, p + 1, "quote") => From(From(s, p + 1), 2) = From(s, p + 2)
  <2>1. SUFFICES ASSUME Has(s, p + 1, "quote") PROVE From(From(s, p + 1), 2) = From(s, p + 2)
    OBVIOUS
  <2>2. 1 \in 0 .. Len(s) - p /\ p + 1 + 1 = p + 2
    BY <2>1 DEF Has
  <2>3. From(From(s, p + 1), 1 + 1) = From(s, p + 1 + 1)
    BY <2>2, FromFrom
  <2> QED BY <2>2, <2>3
<1>3. Len(<<"quote">>) + 1 = 2
  OBVIOUS
<1> QED BY <1>1, <1>2, <1>3 DEF Expect

\* The feed that SetCurrentRssName adds to medias, and the address that
\* AddRssToSection gives it.
WithFeed(medias, name) ==
  [medias EXCEPT ![Len(medias)].m_feeds = Append(@, [m_feed_name |-> name, m_feed_address |-> <<>>])]
WithAddress(medias, address) ==
  [medias EXCEPT ![Len(medias)].m_feeds[Len(Last(medias).m_feeds)].m_feed_address = address]

Fits(s, q) == Has(s, q, "quote") /\ Has(s, q + 1, "=") /\ Has(s, q + 2, "quote")

Named(s, k, q) ==
  /\ Has(s, k + 1, "quote") /\ ReadsTo(s, k + 1, q)
  /\ m_medias' = WithFeed(m_medias, SubSeq(s, k + 1 + 1, q - 1))
  /\ Fits(s, q) => pc' = "address" /\ rest' = From(s, q + 3)
  /\ ~Fits(s, q) => pc' = "failed" /\ UNCHANGED rest

LEMMA SetCurrentRssNameReads ==
  ASSUME NEW s \in Seq(Symbol), NEW k \in 0 .. Len(s), rest = From(s, k + 1), SetCurrentRssName
  PROVE  \E q : Named(s, k, q)
<1> DEFINE t == UpToQuote(Tail(rest))
<1>1. Has(s, k + 1, "quote")
  BY OneSymbol DEF SetCurrentRssName
<1>2. Len(s) \in Nat /\ k + 1 \in 0 .. Len(s)
  BY <1>1 DEF Has
<1>3. Tail(rest) = From(s, k + 1 + 1)
  <2>1. Tail(rest) = From(s, k + 2) /\ k + 1 + 1 = k + 2
    BY <1>1, TailIs DEF Has
  <2> QED BY <2>1
<1>4. PICK q : ReadsText(s, k + 1, q, t)
  BY <1>2, <1>3, UpToQuoteIs
<1>5. /\ ReadsTo(s, k + 1, q) /\ t = SubSeq(s, k + 1 + 1, q - 1) /\ Len(t) = q - 1 - (k + 1)
      /\ q \in k + 1 + 1 .. Len(s) + 1
  BY <1>4 DEF ReadsText, ReadsTo
<1>6. /\ m_medias' = WithFeed(m_medias, t)
      /\ Expect(<<"quote", "=", "quote">>, From(rest, 2 + Len(t)), "address")
  BY DEF SetCurrentRssName, WithFeed
<1> HIDE DEF t
<1>7. From(rest, 2 + Len(t)) = From(s, q)
  <2> DEFINE l == q - 1 - k
  <2>1. l \in 0 .. Len(s) - k /\ l + 1 = 2 + Len(t) /\ k + l + 1 = q
    BY <1>2, <1>5
  <2>2. From(From(s, k + 1), l + 1) = From(s, k + l + 1)
    BY <2>1, FromFrom
  <2> QED BY <2>1, <2>2
<1> DEFINE p == q - 1
<1>8. p \in 0 .. Len(s) /\ p + 1 = q /\ p + 2 = q + 1 /\ p + 3 = q + 2 /\ p + 4 = q + 3
  BY <1>2, <1>5
<1> HIDE DEF p
<1>9. IsPrefix(<<"quote", "=", "quote">>, From(s, q)) <=> Fits(s, q)
  <2>1. IsPrefix(<<"quote", "=", "quote">>, From(s, p + 1))
          <=> Has(s, p + 1, "quote") /\ Has(s, p + 2, "=") /\ Has(s, p + 3, "quote")
    BY <1>8, ThreeSymbols
  <2> QED BY <1>8, <2>1 DEF Fits
<1>10. Fits(s, q) => From(From(s, q), 4) = From(s, q + 3)
  <2>1. SUFFICES ASSUME Fits(s, q) PROVE From(From(s, q), 4) = From(s, q + 3)
    OBVIOUS
  <2>2. 3 \in 0 .. Len(s) - p /\ p + 3 + 1 = q + 3 /\ 3 + 1 = 4
    BY <1>2, <1>5, <1>8, <2>1 DEF Fits, Has
  <2>3. From(From(s, p + 1), 3 + 1) = From(s, p + 3 + 1)
    BY <1>8, <2>2, FromFrom
  <2> QED BY <1>8, <2>2, <2>3
<1>11. Len(<<"quote", "=", "quote">>) + 1 = 4
  OBVIOUS
<1>12. Fits(s, q) => pc' = "address" /\ rest' = From(s, q + 3)
  BY <1>6, <1>7, <1>9, <1>10, <1>11 DEF Expect
<1>13. ~Fits(s, q) => pc' = "failed" /\ UNCHANGED rest
  BY <1>6, <1>7, <1>9 DEF Expect
<1>14. Named(s, k, q)
  BY <1>1, <1>5, <1>6, <1>12, <1>13 DEF Named
<1> QED BY <1>14

Addressed(s, k, q) ==
  /\ ReadsTo(s, k, q)
  /\ m_medias' = WithAddress(m_medias, SubSeq(s, k + 1, q - 1))
  /\ q <= Len(s) => pc' = "feeds" /\ rest' = From(s, q + 1)
  /\ q > Len(s) => pc' = "failed" /\ UNCHANGED rest

LEMMA AddRssToSectionReads ==
  ASSUME NEW s \in Seq(Symbol), NEW k \in 0 .. Len(s), rest = From(s, k + 1), AddRssToSection
  PROVE  \E q : Addressed(s, k, q)
<1> DEFINE t == UpToQuote(rest)
<1>1. Len(s) \in Nat
  OBVIOUS
<1>2. PICK q : ReadsText(s, k, q, t)
  BY UpToQuoteIs
<1>3. /\ ReadsTo(s, k, q) /\ t = SubSeq(s, k + 1, q - 1) /\ Len(t) = q - 1 - k
      /\ q \in k + 1 .. Len(s) + 1
  BY <1>2 DEF ReadsText, ReadsTo
<1>4. /\ m_medias' = WithAddress(m_medias, t)
      /\ Expect(<<"quote">>, From(rest, 1 + Len(t)), "feeds")
  BY DEF AddRssToSection, WithAddress
<1> HIDE DEF t
<1> DEFINE p == q - 1
<1>5. p \in 0 .. Len(s) /\ p + 1 = q /\ p + 2 = q + 1 /\ p - k \in 0 .. Len(s) - k
      /\ p - k + 1 = 1 + Len(t) /\ k + (p - k) + 1 = q
  BY <1>1, <1>3
<1> HIDE DEF p
<1>6. From(rest, 1 + Len(t)) = From(s, p + 1)
  <2> DEFINE l == p - k
  <2>1. l \in 0 .. Len(s) - k /\ l + 1 = 1 + Len(t) /\ k + l + 1 = p + 1
    BY <1>5
  <2> HIDE DEF l
  <2>2. From(From(s, k + 1), l + 1) = From(s, k + l + 1)
    BY <2>1, FromFrom
  <2> QED BY <2>1, <2>2
<1>7. /\ Has(s, q, "quote") => pc' = "feeds" /\ rest' = From(s, q + 1)
      /\ ~Has(s, q, "quote") => pc' = "failed" /\ UNCHANGED rest
  <2>1. Expect(<<"quote">>, From(s, p + 1), "feeds")
    BY <1>4, <1>6
  <2>2. /\ Has(s, p + 1, "quote") => pc' = "feeds" /\ rest' = From(s, p + 2)
        /\ ~Has(s, p + 1, "quote") => pc' = "failed" /\ UNCHANGED rest
    BY <1>5, <2>1, ExpectQuote
  <2> QED BY <1>5, <2>2
<1>8. Has(s, q, "quote") <=> q <= Len(s)
  BY <1>3 DEF ReadsTo, Has
<1>9. q > Len(s) => ~(q <= Len(s))
  BY <1>1, <1>3
<1>10. Addressed(s, k, q)
  BY <1>3, <1>4, <1>7, <1>8, <1>9 DEF Addressed
<1> QED BY <1>10

LEMMA EndSectionReads ==
  ASSUME NEW s \in Seq(Symbol), NEW k \in 0 .. Len(s), rest = From(s, k + 1), EndSection
  PROVE  /\ Has(s, k + 1, "end") /\ k + 1 \in 0 .. Len(s)
         /\ pc' = "section" /\ rest' = From(s, k + 1 + 1) /\ m_medias' = m_medias
<1>1. Has(s, k + 1, "end")
  BY OneSymbol DEF EndSection
<1>2. k + 1 <= Len(s) /\ k + 1 \in 0 .. Len(s) /\ k + 1 + 1 = k + 2
  BY <1>1 DEF Has
<1>3. Tail(rest) = From(s, k + 2)
  BY <1>2, TailIs
<1> QED BY <1>1, <1>2, <1>3 DEF EndSection

LEMMA NotFullAt ==
  ASSUME NEW s \in Seq(Symbol), NEW k \in 0 .. Len(s), rest = From(s, k + 1)
  PROVE  NotFull <=>
           \/ pc = "failed"
           \/ pc = "section" /\ k # Len(s) /\ ~(Has(s, k + 1, "section") /\ Has(s, k + 2, "quote"))
           \/ pc = "feeds" /\ ~Has(s, k + 1, "quote") /\ ~Has(s, k + 1, "end")
<1>1. rest \in Seq(Symbol) /\ Len(rest) = Len(s) - k /\ Len(s) \in Nat
  BY FromIs
<1>2. rest # <<>> <=> k # Len(s)
  BY <1>1
<1>3. /\ IsPrefix(<<"section", "quote">>, rest) <=> Has(s, k + 1, "section") /\ Has(s, k + 2, "quote")
      /\ IsPrefix(<<"quote">>, rest) <=> Has(s, k + 1, "quote")
      /\ IsPrefix(<<"end">>, rest) <=> Has(s, k + 1, "end")
  BY OneSymbol, TwoSymbols
<1> QED BY <1>2, <1>3 DEF NotFull

-----------------------------------------------------------------------------
(* The settings, and type correctness *)

\* After n lines of the settings m_feed_filename is what the last feeds line
\* among them says.
ReadSettings(n) ==
  /\ n \in 0 .. Len(settings) /\ lines = From(settings, n + 1)
  /\ \/ m_feed_filename = NoFile /\ \A x \in 1 .. n : ~IsFeedsLine(settings[x])
     \/ \E l \in 1 .. n : /\ IsFeedsLine(settings[l]) /\ m_feed_filename = settings[l].value
                          /\ \A x \in l + 1 .. n : ~IsFeedsLine(settings[x])

TInv ==
  /\ written \in Written /\ damage \in Damages(Write(written)) /\ settings \in Settings
  /\ \E n : ReadSettings(n)
  /\ m_medias \in Seq(Media)
  /\ rest \in Seq(Symbol)
  /\ pc \in {"parse", "section", "feeds", "address", "failed", "watch"}
  /\ logged \in {"nothing", "could not open file", "parse error"}
  /\ pc \in {"feeds", "address"} => m_medias # <<>>
  /\ pc = "address" => Last(m_medias).m_feeds # <<>>

LEMMA SettingsAre ==
  ASSUME NEW s \in Settings
  PROVE  s \in Seq(Range(s)) /\ Len(s) \in Nat /\ DOMAIN s = 1 .. Len(s)
  BY SettingsAssumption

LEMMA NothingRead ==
  ASSUME settings \in Settings, lines = settings, m_feed_filename = NoFile
  PROVE  ReadSettings(0)
<1>1. settings \in Seq(Range(settings)) /\ Len(settings) \in Nat
  BY SettingsAre
<1>2. From(settings, 0 + 1) = settings
  BY <1>1, SubSeqFull DEF From
<1> QED BY <1>1, <1>2 DEF ReadSettings

LEMMA OneMoreLine ==
  ASSUME settings \in Settings, NEW n, ReadSettings(n), ReadLine
  PROVE  ReadSettings(n + 1)'
<1> DEFINE s == settings
           S == Range(settings)
<1>1. s \in Seq(S) /\ Len(s) \in Nat
  BY SettingsAre
<1>2. n \in 0 .. Len(s) /\ lines = From(s, n + 1) /\ n \in Nat
  BY DEF ReadSettings
<1>3. /\ lines # <<>> /\ lines' = Tail(lines) /\ settings' = settings
      /\ m_feed_filename' = IF IsFeedsLine(Head(lines)) THEN Head(lines).value ELSE m_feed_filename
  BY DEF ReadLine, files
<1>4. /\ lines \in Seq(S) /\ Len(lines) = Len(s) - n
      /\ \A x \in 1 .. Len(s) - n : lines[x] = s[n + x]
  BY <1>1, <1>2, FromIs
<1>5. n + 1 <= Len(s) /\ n + 1 \in 0 .. Len(s)
  BY <1>1, <1>2, <1>3, <1>4
<1>6. Head(lines) = s[n + 1]
  BY <1>1, <1>2, <1>3, <1>4, <1>5
<1>7. lines' = From(s, n + 1 + 1)
  <2>1. Tail(lines) = From(s, n + 2) /\ n + 1 + 1 = n + 2
    BY <1>1, <1>2, <1>5, TailIs
  <2> QED BY <1>3, <2>1
<1>8. CASE IsFeedsLine(s[n + 1])
  <2>1. m_feed_filename' = s[n + 1].value
    BY <1>3, <1>6, <1>8
  <2>2. n + 1 \in 1 .. n + 1 /\ \A x \in n + 1 + 1 .. n + 1 : ~IsFeedsLine(s[x])
    BY <1>2
  <2> QED BY <1>3, <1>5, <1>7, <1>8, <2>1, <2>2 DEF ReadSettings, IsFeedsLine
<1>9. CASE ~IsFeedsLine(s[n + 1])
  <2>1. m_feed_filename' = m_feed_filename
    BY <1>3, <1>6, <1>9
  <2>2. CASE m_feed_filename = NoFile /\ \A x \in 1 .. n : ~IsFeedsLine(s[x])
    <3>1. \A x \in 1 .. n + 1 : ~IsFeedsLine(s[x])
      BY <1>2, <1>9, <2>2
    <3> QED BY <1>3, <1>5, <1>7, <2>1, <2>2, <3>1 DEF ReadSettings, IsFeedsLine
  <2>3. CASE \E l \in 1 .. n : /\ IsFeedsLine(s[l]) /\ m_feed_filename = s[l].value
                               /\ \A x \in l + 1 .. n : ~IsFeedsLine(s[x])
    <3>1. PICK l \in 1 .. n : /\ IsFeedsLine(s[l]) /\ m_feed_filename = s[l].value
                              /\ \A x \in l + 1 .. n : ~IsFeedsLine(s[x])
      BY <2>3
    <3>2. l \in 1 .. n + 1 /\ \A x \in l + 1 .. n + 1 : ~IsFeedsLine(s[x])
      BY <1>2, <1>9, <3>1
    <3> QED BY <1>3, <1>5, <1>7, <2>1, <3>1, <3>2 DEF ReadSettings, IsFeedsLine
  <2> QED BY <2>2, <2>3 DEF ReadSettings
<1> QED BY <1>8, <1>9

LEMMA AllRead ==
  ASSUME settings \in Settings, NEW n, ReadSettings(n), lines = <<>>
  PROVE  FeedsFileIsNamed <=> m_feed_filename = FeedsFile
<1> DEFINE s == settings
           F == FeedsLines(s)
<1>1. s \in Seq(Range(s)) /\ Len(s) \in Nat /\ DOMAIN s = 1 .. Len(s)
  BY SettingsAre
<1>2. n \in 0 .. Len(s) /\ From(s, n + 1) = <<>>
  BY DEF ReadSettings
<1>3. n = Len(s)
  <2>1. Len(From(s, n + 1)) = Len(s) - n
    BY <1>1, <1>2, FromIs
  <2>2. Len(From(s, n + 1)) = 0
    BY <1>2
  <2>3. Len(s) - n = 0
    BY <2>1, <2>2, Zenon
  <2>4. Len(s) \in Nat /\ n \in 0 .. Len(s)
    BY <1>1, <1>2, Zenon
  <2> QED BY <2>3, <2>4
<1>4. F = {x \in 1 .. n : IsFeedsLine(s[x])}
  BY <1>1, <1>3 DEF FeedsLines
<1>5. CASE m_feed_filename = NoFile /\ \A x \in 1 .. n : ~IsFeedsLine(s[x])
  <2>1. F = {}
    BY <1>4, <1>5
  <2> QED BY <1>5, <2>1, FileNames DEF FeedsFileIsNamed
<1>6. CASE \E l \in 1 .. n : /\ IsFeedsLine(s[l]) /\ m_feed_filename = s[l].value
                             /\ \A x \in l + 1 .. n : ~IsFeedsLine(s[x])
  <2>1. PICK l \in 1 .. n : /\ IsFeedsLine(s[l]) /\ m_feed_filename = s[l].value
                            /\ \A x \in l + 1 .. n : ~IsFeedsLine(s[x])
    BY <1>6
  <2>2. l \in F /\ \A x \in F : x <= l
    <3>1. l \in F
      BY <1>4, <2>1
    <3>2. ASSUME NEW x \in F PROVE x <= l
      <4>1. x \in 1 .. n /\ IsFeedsLine(s[x])
        BY <1>4
      <4>2. x \notin l + 1 .. n
        BY <2>1, <4>1
      <4> QED BY <1>1, <1>2, <2>1, <4>1, <4>2
    <3> QED BY <3>1, <3>2
  <2>3. Max(F) = l
    <3>1. F \subseteq Int
      BY <1>4
    <3>2. Max(F) \in F /\ \A x \in F : x <= Max(F)
      BY <2>2, Zenon DEF Max
    <3> HIDE DEF F
    <3>3. Max(F) <= l /\ l <= Max(F) /\ Max(F) \in Int /\ l \in Int
      BY <2>2, <3>1, <3>2
    <3> QED BY <3>3
  <2> QED BY <2>1, <2>2, <2>3 DEF FeedsFileIsNamed
<1> QED BY <1>5, <1>6 DEF ReadSettings

NewFeed(name) == [m_feed_name |-> name, m_feed_address |-> <<>>]
MediaOf(name, feeds) == [m_media_name |-> name, m_feeds |-> feeds]

LEMMA EmptyText == <<>> \in Seq(Symbol) /\ <<>> \in Seq(Feed) /\ <<>> \in Seq(Media)
  BY EmptySeq

LEMMA FeedTyped ==
  ASSUME NEW name \in Seq(Symbol), NEW address \in Seq(Symbol)
  PROVE  [m_feed_name |-> name, m_feed_address |-> address] \in Feed
  BY DEF Feed, Symbol

LEMMA MediaTyped ==
  ASSUME NEW name \in Seq(Symbol), NEW feeds \in Seq(Feed)
  PROVE  MediaOf(name, feeds) \in Media
  BY DEF Media, MediaOf, Symbol

LEMMA MediaFields ==
  ASSUME NEW m \in Media
  PROVE  /\ m.m_media_name \in Seq(Symbol) /\ m.m_feeds \in Seq(Feed)
         /\ Len(m.m_feeds) \in Nat /\ m = MediaOf(m.m_media_name, m.m_feeds)
         /\ \A j \in 1 .. Len(m.m_feeds) : m.m_feeds[j] \in Feed
<1>1. /\ m.m_media_name \in Seq(Symbol) /\ m.m_feeds \in Seq(Feed)
      /\ m = MediaOf(m.m_media_name, m.m_feeds)
  BY DEF Media, MediaOf, Symbol
<1> QED BY <1>1, ElementOf

LEMMA FeedFields ==
  ASSUME NEW f \in Feed
  PROVE  f.m_feed_name \in Seq(Symbol) /\ f.m_feed_address \in Seq(Symbol)
  BY DEF Feed, Symbol

LEMMA FrontAndLast ==
  ASSUME NEW S, NEW s \in Seq(S), s # <<>>
  PROVE  /\ Front(s) \in Seq(S) /\ Last(s) \in S /\ s = Append(Front(s), Last(s))
         /\ Len(s) \in Nat /\ Len(s) >= 1 /\ Len(Front(s)) = Len(s) - 1
         /\ \A x \in 1 .. Len(s) - 1 : Front(s)[x] = s[x]
<1> DEFINE n == Len(s)
           t == Front(s)
           e == Last(s)
<1>1. n \in Nat /\ n >= 1 /\ e = s[n] /\ e \in S
  BY DEF Last
<1>2. t \in Seq(S) /\ Len(t) = n - 1 /\ \A x \in 1 .. n - 1 : t[x] = s[x]
  <2> DEFINE h == n - 1
             k == 0
  <2>1. k \in 0 .. Len(s) /\ h \in k .. Len(s) /\ h - k = n - 1 /\ k + 1 = 1
        /\ \A x \in 1 .. n - 1 : k + x = x
    BY <1>1
  <2>2. t = SubSeq(s, 1, h)
    BY DEF Front
  <2> HIDE DEF h, k, n, t
  <2>3. /\ SubSeq(s, k + 1, h) \in Seq(S) /\ Len(SubSeq(s, k + 1, h)) = h - k
        /\ \A x \in 1 .. h - k : SubSeq(s, k + 1, h)[x] = s[k + x]
    BY <2>1, Between
  <2> QED BY <2>1, <2>2, <2>3
<1>3. s = Append(t, e)
  <2> DEFINE u == Append(t, e)
  <2>1. /\ u \in Seq(S) /\ Len(u) = Len(t) + 1 /\ u[Len(t) + 1] = e
        /\ \A x \in 1 .. Len(t) : u[x] = t[x]
    <3> HIDE DEF t, e
    <3> QED BY <1>1, <1>2
  <2> HIDE DEF t, e, u
  <2>2. Len(u) = n /\ u[n] = s[n] /\ \A x \in 1 .. n - 1 : u[x] = s[x]
    BY <1>1, <1>2, <2>1
  <2>3. ASSUME NEW x \in 1 .. Len(s) PROVE s[x] = u[x]
    <3>1. x \in 1 .. n - 1 \/ x = n
      BY <1>1
    <3> QED BY <2>2, <3>1
  <2>4. s = u
    BY <2>1, <2>2, <2>3, SeqEqual
  <2> QED BY <2>4 DEF u
<1> QED BY <1>1, <1>2, <1>3 DEF n, t, e

LEMMA FrontOfAppend ==
  ASSUME NEW S, NEW s \in Seq(S), NEW e \in S
  PROVE  /\ Append(s, e) \in Seq(S) /\ Append(s, e) # <<>>
         /\ Front(Append(s, e)) = s /\ Last(Append(s, e)) = e
         /\ Len(Append(s, e)) = Len(s) + 1 /\ Len(s) \in Nat
         /\ Append(s, e)[Len(s) + 1] = e /\ \A x \in 1 .. Len(s) : Append(s, e)[x] = s[x]
<1> DEFINE t == Append(s, e)
<1>1. /\ t \in Seq(S) /\ Len(t) = Len(s) + 1 /\ Len(s) \in Nat /\ t # <<>>
      /\ t[Len(s) + 1] = e /\ \A x \in 1 .. Len(s) : t[x] = s[x]
  OBVIOUS
<1> HIDE DEF t
<1>2. Last(t) = e
  BY <1>1 DEF Last
<1>3. /\ Front(t) \in Seq(S) /\ Len(Front(t)) = Len(t) - 1
      /\ \A x \in 1 .. Len(t) - 1 : Front(t)[x] = t[x]
  BY <1>1, FrontAndLast
<1>4. Len(Front(t)) = Len(s) /\ \A x \in 1 .. Len(s) : x \in 1 .. Len(t) - 1
  BY <1>1, <1>3
<1>5. Front(t) = s
  BY <1>1, <1>3, <1>4, SeqEqual
<1> QED BY <1>1, <1>2, <1>5 DEF t

LEMMA SetFeeds ==
  ASSUME NEW m \in Media, NEW feeds
  PROVE  [m EXCEPT !.m_feeds = feeds] = MediaOf(m.m_media_name, feeds)
  BY DEF Media, MediaOf

LEMMA SetAddress ==
  ASSUME NEW f \in Feed, NEW address
  PROVE  [f EXCEPT !.m_feed_address = address]
           = [m_feed_name |-> f.m_feed_name, m_feed_address |-> address]
  BY DEF Feed

\* Replacing the last element.
LEMMA ReplaceLast ==
  ASSUME NEW S, NEW s \in Seq(S), s # <<>>, NEW e \in S
  PROVE  [s EXCEPT ![Len(s)] = e] = Append(Front(s), e)
<1> DEFINE t == [s EXCEPT ![Len(s)] = e]
           u == Append(Front(s), e)
<1>1. /\ Front(s) \in Seq(S) /\ Len(s) \in Nat /\ Len(s) >= 1 /\ Len(Front(s)) = Len(s) - 1
      /\ \A x \in 1 .. Len(s) - 1 : Front(s)[x] = s[x]
  BY FrontAndLast
<1>2. /\ t \in Seq(S) /\ Len(t) = Len(s) /\ t[Len(s)] = e
      /\ \A x \in 1 .. Len(s) - 1 : t[x] = s[x]
  BY <1>1
<1>3. /\ u \in Seq(S) /\ Len(u) = Len(Front(s)) + 1 /\ u[Len(Front(s)) + 1] = e
      /\ \A x \in 1 .. Len(Front(s)) : u[x] = Front(s)[x]
  BY <1>1, FrontOfAppend
<1> HIDE DEF t, u
<1>4. Len(u) = Len(s) /\ u[Len(s)] = e /\ \A x \in 1 .. Len(s) - 1 : u[x] = s[x]
  BY <1>1, <1>3
<1>5. ASSUME NEW x \in 1 .. Len(t) PROVE t[x] = u[x]
  <2>1. x \in 1 .. Len(s) - 1 \/ x = Len(s)
    BY <1>1, <1>2
  <2> QED BY <1>2, <1>4, <2>1
<1>6. t = u
  BY <1>2, <1>3, <1>4, <1>5, SeqEqual
<1> QED BY <1>6 DEF t, u

LEMMA WithFeedIs ==
  ASSUME NEW medias \in Seq(Media), medias # <<>>, NEW name \in Seq(Symbol)
  PROVE  LET m == Last(medias)
             n == MediaOf(m.m_media_name, Append(m.m_feeds, NewFeed(name)))
         IN /\ WithFeed(medias, name) = Append(Front(medias), n)
            /\ n \in Media /\ Append(m.m_feeds, NewFeed(name)) # <<>>
            /\ WithFeed(medias, name) \in Seq(Media) /\ WithFeed(medias, name) # <<>>
            /\ Last(WithFeed(medias, name)) = n /\ Front(WithFeed(medias, name)) = Front(medias)
<1> DEFINE m == Last(medias)
           fs == Append(m.m_feeds, NewFeed(name))
           n == MediaOf(m.m_media_name, fs)
<1>1. Front(medias) \in Seq(Media) /\ m \in Media
  BY FrontAndLast
<1>2. m.m_media_name \in Seq(Symbol) /\ m.m_feeds \in Seq(Feed) /\ m = MediaOf(m.m_media_name, m.m_feeds)
  BY <1>1, MediaFields
<1>3. NewFeed(name) \in Feed
  BY EmptyText, FeedTyped DEF NewFeed
<1>4. fs \in Seq(Feed) /\ fs # <<>>
  BY <1>2, <1>3, FrontOfAppend
<1>5. n \in Media
  <2> HIDE DEF fs
  <2> QED BY <1>2, <1>4, MediaTyped
<1>6. WithFeed(medias, name) =
        [medias EXCEPT ![Len(medias)] =
           [medias[Len(medias)] EXCEPT
              !.m_feeds = Append(medias[Len(medias)].m_feeds, NewFeed(name))]]
  BY DEF WithFeed, NewFeed
<1>7. [m EXCEPT !.m_feeds = Append(m.m_feeds, NewFeed(name))] = n
  <2> HIDE DEF m
  <2> QED BY <1>1, SetFeeds
<1>8. WithFeed(medias, name) = [medias EXCEPT ![Len(medias)] = n]
  <2>1. m = medias[Len(medias)]
    BY DEF Last
  <2> HIDE DEF m, n
  <2> QED BY <1>6, <1>7, <2>1, Zenon
<1>9. WithFeed(medias, name) = Append(Front(medias), n)
  <2> HIDE DEF n
  <2> QED BY <1>5, <1>8, ReplaceLast
<1> HIDE DEF n
<1>10. /\ Append(Front(medias), n) \in Seq(Media) /\ Append(Front(medias), n) # <<>>
       /\ Last(Append(Front(medias), n)) = n /\ Front(Append(Front(medias), n)) = Front(medias)
  BY <1>1, <1>5, FrontOfAppend
<1> QED BY <1>4, <1>5, <1>9, <1>10 DEF n

LEMMA WithAddressIs ==
  ASSUME NEW medias \in Seq(Media), medias # <<>>, Last(medias).m_feeds # <<>>,
         NEW address \in Seq(Symbol)
  PROVE  LET m == Last(medias)
             f == [m_feed_name |-> Last(m.m_feeds).m_feed_name, m_feed_address |-> address]
             n == MediaOf(m.m_media_name, Append(Front(m.m_feeds), f))
         IN /\ WithAddress(medias, address) = Append(Front(medias), n)
            /\ n \in Media /\ f \in Feed /\ Append(Front(m.m_feeds), f) # <<>>
            /\ WithAddress(medias, address) \in Seq(Media) /\ WithAddress(medias, address) # <<>>
            /\ Last(WithAddress(medias, address)) = n
            /\ Front(WithAddress(medias, address)) = Front(medias)
<1> DEFINE m == Last(medias)
           g == Last(m.m_feeds)
           f == [m_feed_name |-> g.m_feed_name, m_feed_address |-> address]
           fs == Append(Front(m.m_feeds), f)
           n == MediaOf(m.m_media_name, fs)
<1>1. Front(medias) \in Seq(Media) /\ m \in Media
  BY FrontAndLast
<1>2. m.m_media_name \in Seq(Symbol) /\ m.m_feeds \in Seq(Feed) /\ m = MediaOf(m.m_media_name, m.m_feeds)
  BY <1>1, MediaFields
<1>3. Front(m.m_feeds) \in Seq(Feed) /\ g \in Feed
  BY <1>2, FrontAndLast
<1>4. f \in Feed
  <2>1. g.m_feed_name \in Seq(Symbol)
    BY <1>3, FeedFields
  <2> QED BY <2>1, FeedTyped
<1>5. fs \in Seq(Feed) /\ fs # <<>>
  <2> HIDE DEF f
  <2> QED BY <1>3, <1>4, FrontOfAppend
<1>6. n \in Media
  <2> HIDE DEF fs
  <2> QED BY <1>2, <1>5, MediaTyped
<1>7. [g EXCEPT !.m_feed_address = address] = f
  <2> HIDE DEF g
  <2> QED BY <1>3, SetAddress
<1>8. [m.m_feeds EXCEPT ![Len(m.m_feeds)] = f] = fs
  <2> HIDE DEF f
  <2> QED BY <1>2, <1>4, ReplaceLast
<1>9. [m EXCEPT !.m_feeds = fs] = n
  <2> HIDE DEF fs, m
  <2> QED BY <1>1, SetFeeds
<1>10. WithAddress(medias, address) =
         [medias EXCEPT ![Len(medias)] =
            [medias[Len(medias)] EXCEPT !.m_feeds =
               [medias[Len(medias)].m_feeds EXCEPT ![Len(m.m_feeds)] =
                  [medias[Len(medias)].m_feeds[Len(m.m_feeds)] EXCEPT !.m_feed_address = address]]]]
  BY Zenon DEF WithAddress
<1>11. WithAddress(medias, address) = [medias EXCEPT ![Len(medias)] = n]
  <2>1. m = medias[Len(medias)] /\ g = m.m_feeds[Len(m.m_feeds)]
    BY DEF Last
  <2> HIDE DEF m, n, g, f, fs
  <2> QED BY <1>7, <1>8, <1>9, <1>10, <2>1, Zenon
<1>12. WithAddress(medias, address) = Append(Front(medias), n)
  <2> HIDE DEF n
  <2> QED BY <1>6, <1>11, ReplaceLast
<1> HIDE DEF n
<1>13. /\ Append(Front(medias), n) \in Seq(Media) /\ Append(Front(medias), n) # <<>>
       /\ Last(Append(Front(medias), n)) = n /\ Front(Append(Front(medias), n)) = Front(medias)
  BY <1>1, <1>6, FrontOfAppend
<1> QED BY <1>4, <1>5, <1>6, <1>12, <1>13 DEF n

LEMMA TextTyped ==
  ASSUME NEW s \in Seq(Symbol), NEW k \in 0 .. Len(s), NEW q, ReadsTo(s, k, q)
  PROVE  /\ SubSeq(s, k + 1, q - 1) \in Seq(Symbol) /\ Len(SubSeq(s, k + 1, q - 1)) = q - 1 - k
         /\ \A x \in 1 .. q - 1 - k : SubSeq(s, k + 1, q - 1)[x] = s[k + x]
         /\ q \in k + 1 .. Len(s) + 1 /\ q \in Nat /\ Len(s) \in Nat
<1> DEFINE h == q - 1
<1>1. q \in k + 1 .. Len(s) + 1 /\ q \in Nat /\ Len(s) \in Nat /\ h \in k .. Len(s)
  BY DEF ReadsTo
<1> HIDE DEF h
<1>2. /\ SubSeq(s, k + 1, h) \in Seq(Symbol) /\ Len(SubSeq(s, k + 1, h)) = h - k
      /\ \A x \in 1 .. h - k : SubSeq(s, k + 1, h)[x] = s[k + x]
  BY <1>1, Between
<1> QED BY <1>1, <1>2 DEF h

LEMMA FileTyped ==
  ASSUME NEW medias \in Written, NEW d \in Damages(Write(medias))
  PROVE  /\ Write(medias) \in Seq(Symbol) /\ Damaged(Write(medias), d) \in Seq(Symbol)
         /\ Harmed(Damaged(Write(medias), d), Write(medias), d)
<1>1. Write(medias) \in Seq(Symbol)
  BY WrittenParts, SectionEnds
<1>2. Harmed(Damaged(Write(medias), d), Write(medias), d)
  BY <1>1, DamagedIs
<1> QED BY <1>1, <1>2 DEF Harmed

LEMMA FromTyped ==
  ASSUME NEW s \in Seq(Symbol), NEW q \in 1 .. Len(s) + 1
  PROVE  From(s, q) \in Seq(Symbol)
<1> DEFINE k == q - 1
<1>1. k \in 0 .. Len(s) /\ k + 1 = q
  OBVIOUS
<1> HIDE DEF k
<1>2. From(s, k + 1) \in Seq(Symbol)
  BY <1>1, FromIs
<1> QED BY <1>1, <1>2

LEMMA WholeRest ==
  ASSUME NEW s \in Seq(Symbol)
  PROVE  s = From(s, 0 + 1) /\ 0 \in 0 .. Len(s) /\ Len(s) \in Nat
  BY SubSeqFull DEF From

LEMMA InitTyped == Init => TInv
<1> SUFFICES ASSUME Init PROVE TInv
  OBVIOUS
<1>1. ReadSettings(0)
  BY NothingRead DEF Init
<1>2. m_medias \in Seq(Media) /\ rest \in Seq(Symbol)
  BY EmptyText DEF Init
<1> QED BY <1>1, <1>2 DEF Init, TInv

\* Nothing happens to the files and the settings.
LEMMA SameSettings ==
  ASSUME TInv, UNCHANGED <<files, lines, m_feed_filename>>
  PROVE  /\ written' \in Written /\ damage' \in Damages(Write(written')) /\ settings' \in Settings
         /\ \E n : ReadSettings(n)'
<1>1. PICK n : ReadSettings(n)
  BY DEF TInv
<1>2. ReadSettings(n)'
  BY <1>1 DEF ReadSettings, files, From, IsFeedsLine
<1>3. \E l : ReadSettings(l)'
  BY <1>2
<1> QED BY <1>3 DEF TInv, files

LEMMA RestTyped ==
  ASSUME NEW s \in Seq(Symbol), NEW q \in Nat, NEW n \in Nat, q >= 1, q + n <= Len(s) + 1
  PROVE  From(s, q + n) \in Seq(Symbol)
<1> DEFINE p == q + n
<1>1. p \in 1 .. Len(s) + 1
  OBVIOUS
<1> HIDE DEF p
<1>2. From(s, p) \in Seq(Symbol)
  BY <1>1, FromTyped
<1> QED BY <1>2 DEF p

LEMMA BeginSectionTyped ==
  ASSUME rest \in Seq(Symbol), m_medias \in Seq(Media), BeginSection
  PROVE  /\ m_medias' \in Seq(Media) /\ m_medias' # <<>>
         /\ rest' \in Seq(Symbol) /\ pc' \in {"feeds", "failed"}
<1>1. rest = From(rest, 0 + 1)
  BY WholeRest
<1>2. 0 \in 0 .. Len(rest) /\ Len(rest) \in Nat
  BY WholeRest
<1>3. PICK q : Began(rest, 0, q)
  BY <1>1, <1>2, BeginSectionReads
<1>4. 0 + 2 \in 0 .. Len(rest) /\ ReadsTo(rest, 0 + 2, q)
  BY <1>2, <1>3 DEF Began, Has
<1> DEFINE t == SubSeq(rest, 0 + 2 + 1, q - 1)
<1>5. t \in Seq(Symbol) /\ q \in 0 + 2 + 1 .. Len(rest) + 1 /\ q \in Nat
  BY <1>4, TextTyped
<1>6. m_medias' = Append(m_medias, MediaOf(t, <<>>))
  BY <1>3 DEF Began, MediaOf
<1> HIDE DEF t
<1>7. MediaOf(t, <<>>) \in Media
  BY <1>5, EmptyText, MediaTyped
<1>8. m_medias' \in Seq(Media) /\ m_medias' # <<>>
  BY <1>6, <1>7, FrontOfAppend
<1>9. q <= Len(rest) => From(rest, q + 1) \in Seq(Symbol)
  <2>1. q >= 1 /\ (q <= Len(rest) => q + 1 <= Len(rest) + 1)
    BY <1>2, <1>5
  <2> QED BY <1>5, <2>1, RestTyped
<1>10. q <= Len(rest) \/ q > Len(rest)
  BY <1>2, <1>5
<1> QED BY <1>3, <1>8, <1>9, <1>10 DEF Began

LEMMA SetCurrentRssNameTyped ==
  ASSUME rest \in Seq(Symbol), m_medias \in Seq(Media), m_medias # <<>>, SetCurrentRssName
  PROVE  /\ m_medias' \in Seq(Media) /\ m_medias' # <<>> /\ Last(m_medias').m_feeds # <<>>
         /\ rest' \in Seq(Symbol) /\ pc' \in {"address", "failed"}
<1>1. rest = From(rest, 0 + 1)
  BY WholeRest
<1>2. 0 \in 0 .. Len(rest) /\ Len(rest) \in Nat
  BY WholeRest
<1>3. PICK q : Named(rest, 0, q)
  BY <1>1, <1>2, SetCurrentRssNameReads
<1>4. 0 + 1 \in 0 .. Len(rest) /\ ReadsTo(rest, 0 + 1, q)
  BY <1>2, <1>3 DEF Named, Has
<1> DEFINE t == SubSeq(rest, 0 + 1 + 1, q - 1)
<1>5. t \in Seq(Symbol) /\ q \in 0 + 1 + 1 .. Len(rest) + 1 /\ q \in Nat
  BY <1>4, TextTyped
<1>6. m_medias' = WithFeed(m_medias, t)
  BY <1>3 DEF Named
<1> HIDE DEF t
<1> DEFINE m == Last(m_medias)
           n == MediaOf(m.m_media_name, Append(m.m_feeds, NewFeed(t)))
<1>7. /\ m_medias' \in Seq(Media) /\ m_medias' # <<>> /\ Last(m_medias') = n
      /\ Append(m.m_feeds, NewFeed(t)) # <<>>
  <2>1. /\ WithFeed(m_medias, t) \in Seq(Media) /\ WithFeed(m_medias, t) # <<>>
        /\ Last(WithFeed(m_medias, t)) = n /\ Append(m.m_feeds, NewFeed(t)) # <<>>
    BY <1>5, WithFeedIs
  <2> HIDE DEF m, n
  <2> QED BY <1>6, <2>1, Zenon
<1>8. n.m_feeds # <<>>
  BY <1>7 DEF MediaOf
<1> HIDE DEF n, m
<1>9. Fits(rest, q) => From(rest, q + 3) \in Seq(Symbol)
  <2>1. q >= 1 /\ (Fits(rest, q) => q + 3 <= Len(rest) + 1)
    BY <1>2, <1>5 DEF Fits, Has
  <2> QED BY <1>5, <2>1, RestTyped
<1>10. rest' \in Seq(Symbol) /\ pc' \in {"address", "failed"}
  BY <1>3, <1>9 DEF Named
<1> QED BY <1>7, <1>8, <1>10

LEMMA AddRssToSectionTyped ==
  ASSUME rest \in Seq(Symbol), m_medias \in Seq(Media), m_medias # <<>>,
         Last(m_medias).m_feeds # <<>>, AddRssToSection
  PROVE  /\ m_medias' \in Seq(Media) /\ m_medias' # <<>>
         /\ rest' \in Seq(Symbol) /\ pc' \in {"feeds", "failed"}
<1>1. rest = From(rest, 0 + 1)
  BY WholeRest
<1>2. 0 \in 0 .. Len(rest) /\ Len(rest) \in Nat
  BY WholeRest
<1>3. PICK q : Addressed(rest, 0, q)
  BY <1>1, <1>2, AddRssToSectionReads
<1>4. ReadsTo(rest, 0, q)
  BY <1>3 DEF Addressed
<1> DEFINE t == SubSeq(rest, 0 + 1, q - 1)
<1>5. t \in Seq(Symbol) /\ q \in 0 + 1 .. Len(rest) + 1 /\ q \in Nat
  BY <1>2, <1>4, TextTyped
<1>6. m_medias' = WithAddress(m_medias, t)
  BY <1>3 DEF Addressed
<1> HIDE DEF t
<1>7. m_medias' \in Seq(Media) /\ m_medias' # <<>>
  BY <1>5, <1>6, WithAddressIs
<1>8. q <= Len(rest) => From(rest, q + 1) \in Seq(Symbol)
  <2>1. q >= 1 /\ (q <= Len(rest) => q + 1 <= Len(rest) + 1)
    BY <1>2, <1>5
  <2> QED BY <1>5, <2>1, RestTyped
<1>9. q <= Len(rest) \/ q > Len(rest)
  BY <1>2, <1>5
<1> QED BY <1>3, <1>7, <1>8, <1>9 DEF Addressed

LEMMA EndSectionTyped ==
  ASSUME rest \in Seq(Symbol), EndSection
  PROVE  rest' \in Seq(Symbol)
<1>1. rest = From(rest, 0 + 1)
  BY WholeRest
<1>2. 0 \in 0 .. Len(rest) /\ Len(rest) \in Nat
  BY WholeRest
<1>3. Has(rest, 0 + 1, "end") /\ rest' = From(rest, 0 + 1 + 1)
  BY <1>1, <1>2, EndSectionReads
<1> DEFINE q == 0 + 1
<1>4. q \in Nat /\ q >= 1 /\ q + 1 <= Len(rest) + 1
  BY <1>2, <1>3 DEF Has
<1> HIDE DEF q
<1>5. From(rest, q + 1) \in Seq(Symbol)
  BY <1>4, RestTyped
<1> QED BY <1>3, <1>5 DEF q

LEMMA RestartTyped ==
  ASSUME Restart
  PROVE  \E n : ReadSettings(n)'
<1>1. settings' \in Settings /\ lines' = settings' /\ m_feed_filename' = NoFile
  BY DEF Restart
<1> DEFINE s == settings'
<1>2. s \in Seq(Range(s)) /\ Len(s) \in Nat
  <2> HIDE DEF s
  <2>1. s \in Settings
    BY <1>1 DEF s
  <2> QED BY <2>1, SettingsAre
<1>3. From(s, 0 + 1) = s
  <2> DEFINE S == Range(s)
  <2> HIDE DEF s, S
  <2> QED BY <1>2, SubSeqFull DEF From, S
<1>4. ReadSettings(0)'
  <2>1. 0 \in 0 .. Len(s) /\ lines' = From(s, 0 + 1) /\ \A x \in 1 .. 0 : ~IsFeedsLine(s[x])
    BY <1>1, <1>2, <1>3
  <2> QED BY <1>1, <2>1 DEF ReadSettings, IsFeedsLine, From
<1> QED BY <1>4

LEMMA TypedStep == TInv /\ [Next]_vars => TInv'
<1> SUFFICES ASSUME TInv, [Next]_vars PROVE TInv'
  OBVIOUS
<1>a. /\ written \in Written /\ damage \in Damages(Write(written)) /\ settings \in Settings
      /\ m_medias \in Seq(Media) /\ rest \in Seq(Symbol)
  BY DEF TInv
<1>b. /\ logged \in {"nothing", "could not open file", "parse error"}
      /\ pc \in {"feeds", "address"} => m_medias # <<>>
      /\ pc = "address" => Last(m_medias).m_feeds # <<>>
  BY DEF TInv
<1>1. ASSUME UNCHANGED vars PROVE TInv'
  <2>1. UNCHANGED <<files, lines, m_feed_filename>> /\ UNCHANGED <<m_medias, rest, pc, logged>>
    BY <1>1 DEF vars
  <2> QED BY <2>1, SameSettings DEF TInv
<1>2. ASSUME ReadLine PROVE TInv'
  <2>1. PICK n : ReadSettings(n)
    BY DEF TInv
  <2>2. ReadSettings(n + 1)'
    BY <1>a, <1>2, <2>1, OneMoreLine
  <2>3. \E l : ReadSettings(l)'
    BY <2>2
  <2> QED BY <1>a, <1>b, <1>2, <2>3 DEF ReadLine, files, TInv
<1>3. ASSUME ReadFeedsFile PROVE TInv'
  <2>1. UNCHANGED <<files, lines, m_feed_filename>>
    BY <1>3 DEF ReadFeedsFile
  <2>2. rest' \in Seq(Symbol)
    BY <1>a, <1>3, FileTyped DEF ReadFeedsFile
  <2> QED BY <1>a, <1>b, <1>3, <2>1, <2>2, SameSettings DEF ReadFeedsFile, TInv
<1>4. ASSUME CouldNotOpen PROVE TInv'
  <2>1. UNCHANGED <<files, lines, m_feed_filename>>
    BY <1>4 DEF CouldNotOpen
  <2> QED BY <1>a, <1>b, <1>4, <2>1, SameSettings DEF CouldNotOpen, TInv
<1>5. ASSUME BeginSection PROVE TInv'
  <2>1. UNCHANGED <<files, lines, m_feed_filename>> /\ logged' = logged
    BY <1>5 DEF BeginSection
  <2>2. /\ m_medias' \in Seq(Media) /\ m_medias' # <<>>
        /\ rest' \in Seq(Symbol) /\ pc' \in {"feeds", "failed"}
    BY <1>a, <1>5, BeginSectionTyped
  <2> QED BY <1>a, <1>b, <2>1, <2>2, SameSettings DEF TInv
<1>6. ASSUME SetCurrentRssName PROVE TInv'
  <2>1. UNCHANGED <<files, lines, m_feed_filename>> /\ logged' = logged /\ pc = "feeds"
    BY <1>6 DEF SetCurrentRssName
  <2>2. /\ m_medias' \in Seq(Media) /\ m_medias' # <<>> /\ Last(m_medias').m_feeds # <<>>
        /\ rest' \in Seq(Symbol) /\ pc' \in {"address", "failed"}
    BY <1>a, <1>b, <1>6, <2>1, SetCurrentRssNameTyped
  <2> QED BY <1>a, <1>b, <2>1, <2>2, SameSettings DEF TInv
<1>7. ASSUME AddRssToSection PROVE TInv'
  <2>1. UNCHANGED <<files, lines, m_feed_filename>> /\ logged' = logged /\ pc = "address"
    BY <1>7 DEF AddRssToSection
  <2>2. /\ m_medias' \in Seq(Media) /\ m_medias' # <<>>
        /\ rest' \in Seq(Symbol) /\ pc' \in {"feeds", "failed"}
    BY <1>a, <1>b, <1>7, <2>1, AddRssToSectionTyped
  <2> QED BY <1>a, <1>b, <2>1, <2>2, SameSettings DEF TInv
<1>8. ASSUME EndSection PROVE TInv'
  <2>1. UNCHANGED <<files, lines, m_feed_filename, m_medias, logged>> /\ pc' = "section"
    BY <1>8 DEF EndSection
  <2>2. rest' \in Seq(Symbol)
    BY <1>a, <1>8, EndSectionTyped
  <2> QED BY <1>a, <1>b, <2>1, <2>2, SameSettings DEF TInv
<1>9. ASSUME Reject \/ Accept PROVE TInv'
  <2>1. /\ UNCHANGED <<files, lines, m_feed_filename, m_medias, rest>>
        /\ pc' = "watch" /\ logged' \in {"nothing", "could not open file", "parse error"}
    BY <1>b, <1>9 DEF Reject, Accept
  <2> QED BY <1>a, <2>1, SameSettings DEF TInv
<1>10. ASSUME Restart PROVE TInv'
  <2>1. m_medias' \in Seq(Media) /\ rest' \in Seq(Symbol)
    BY <1>10, EmptyText DEF Restart
  <2> QED BY <1>10, <2>1, RestartTyped DEF Restart, TInv
<1> QED BY <1>1, <1>2, <1>3, <1>4, <1>5, <1>6, <1>7, <1>8, <1>9, <1>10 DEF Next

\* What is left of a sequence behind its first symbols is a suffix of it.
LEMMA FromIsSuffix ==
  ASSUME NEW S, NEW s \in Seq(S), NEW k \in 0 .. Len(s)
  PROVE  IsSuffix(From(s, k + 1), s)
<1> DEFINE r == From(s, k + 1)
           n == Len(s)
           l == n - k
           a == Reverse(r)
           b == Reverse(s)
<1>1. n \in Nat /\ k \in Nat /\ l \in Nat /\ l <= n
  OBVIOUS
<1>2. r \in Seq(S) /\ Len(r) = l /\ \A x \in 1 .. l : r[x] = s[k + x]
  BY FromIs
<1> HIDE DEF r, n
<1>3. a \in Seq(S) /\ Len(a) = l /\ \A x \in 1 .. l : a[x] = r[l - x + 1]
  <2>1. a = [x \in 1 .. l |-> r[l - x + 1]] /\ \A x \in 1 .. l : l - x + 1 \in 1 .. l
    BY <1>1, <1>2 DEF Reverse
  <2> HIDE DEF a, l
  <2>2. \A x \in 1 .. l : r[x] \in S
    BY <1>2, ElementOf
  <2>3. \A x \in 1 .. l : a[x] \in S
    BY <2>1, <2>2
  <2>4. a \in [1 .. l -> S]
    BY <2>1, <2>3
  <2> QED BY <1>1, <2>1, <2>4, SeqDef
<1>4. b \in Seq(S) /\ Len(b) = n /\ \A x \in 1 .. n : b[x] = s[n - x + 1]
  <2>1. b = [x \in 1 .. n |-> s[n - x + 1]] /\ \A x \in 1 .. n : n - x + 1 \in 1 .. n
    BY <1>1 DEF Reverse, n
  <2> HIDE DEF b
  <2>2. \A x \in 1 .. n : s[x] \in S
    BY ElementOf DEF n
  <2>3. \A x \in 1 .. n : b[x] \in S
    BY <2>1, <2>2
  <2>4. b \in [1 .. n -> S]
    BY <2>1, <2>3
  <2> QED BY <1>1, <2>1, <2>4, SeqDef
<1> HIDE DEF a, b
<1>5. ASSUME NEW x \in 1 .. l PROVE a[x] = b[x]
  <2>1. /\ l - x + 1 \in 1 .. l /\ x \in 1 .. n /\ k + (l - x + 1) = n - x + 1
    BY <1>1
  <2>2. r[l - x + 1] = s[k + (l - x + 1)]
    BY <1>2, <2>1
  <2> QED BY <1>3, <1>4, <2>1, <2>2
<1> HIDE DEF l
<1>6. SubSeq(a, 1, l) = a
  BY <1>3, AllOfThem
<1>7. SubSeq(b, 1, l) = a
  <2> DEFINE c == SubSeq(b, 1, l)
  <2>1. c \in Seq(S) /\ Len(c) = l /\ \A x \in 1 .. l : c[x] = b[x]
    BY <1>1, <1>4
  <2> HIDE DEF c
  <2>2. c = a
    BY <1>3, <1>5, <2>1, SeqEqual
  <2> QED BY <2>2 DEF c
<1> QED BY <1>1, <1>3, <1>4, <1>6, <1>7 DEF IsSuffix, IsPrefix, a, b, r

LEMMA TInvTypeOK == TInv => TypeOK
<1> SUFFICES ASSUME TInv PROVE TypeOK
  OBVIOUS
<1>1. PICK n : ReadSettings(n)
  BY DEF TInv
<1>2. settings \in Settings
  BY DEF TInv
<1>3. settings \in Seq(Range(settings)) /\ Len(settings) \in Nat /\ DOMAIN settings = 1 .. Len(settings)
  BY <1>2, SettingsAre
<1>4. n \in 0 .. Len(settings) /\ lines = From(settings, n + 1)
  BY <1>1 DEF ReadSettings
<1>5. IsSuffix(lines, settings)
  BY <1>3, <1>4, FromIsSuffix
<1>6. m_feed_filename \in {NoFile} \cup {settings[x].value : x \in FeedsLines(settings)}
  <2>1. CASE m_feed_filename = NoFile
    BY <2>1
  <2>2. CASE \E l \in 1 .. n : IsFeedsLine(settings[l]) /\ m_feed_filename = settings[l].value
    <3>1. PICK l \in 1 .. n : IsFeedsLine(settings[l]) /\ m_feed_filename = settings[l].value
      BY <2>2
    <3>2. l \in 1 .. Len(settings)
      BY <1>3, <1>4
    <3>3. l \in FeedsLines(settings)
      BY <1>3, <3>1, <3>2 DEF FeedsLines
    <3> QED BY <3>1, <3>3
  <2> QED BY <1>1, <2>1, <2>2 DEF ReadSettings
<1> QED BY <1>5, <1>6 DEF TInv, TypeOK, Symbol

\* Whatever is in the files, the variables keep their types: what is parsed into
\* the configuration is made of the symbols of the file, and m_feed_filename is a
\* value that a feeds line of the settings gives (runcom_parser::parse).
THEOREM TypeCorrect == Spec => []TypeOK
<1>1. TInv => TypeOK
  BY TInvTypeOK
<1>2. Init => TInv
  BY InitTyped
<1>3. TInv /\ [Next]_vars => TInv'
  BY TypedStep
<1> QED BY <1>1, <1>2, <1>3, PTL DEF Spec

-----------------------------------------------------------------------------
(* The feeds in front of the damage *)

\* The order in which the sections and the feeds of a file end.
LEMMA FeedOrder ==
  ASSUME NEW medias \in Seq(WrittenMedia), NEW i \in 1 .. Len(medias),
         NEW j \in 1 .. Len(medias[i].m_feeds)
  PROVE  /\ FeedEnd(medias, i, j) \in Nat /\ FeedEnd(medias, i, j - 1) \in Nat
         /\ AddressStart(medias, i, j) \in Nat
         /\ FeedEnd(medias, i, j - 1) + 4 <= AddressStart(medias, i, j)
         /\ AddressStart(medias, i, j) < FeedEnd(medias, i, j)
         /\ \A l \in 0 .. i - 1 : SectionEnd(medias, l) < FeedEnd(medias, i, j)
         /\ \A l \in i .. Len(medias) : FeedEnd(medias, i, j) < SectionEnd(medias, l)
         /\ \A l \in j .. Len(medias[i].m_feeds) : FeedEnd(medias, i, j) <= FeedEnd(medias, i, l)
         /\ \A l \in 0 .. j - 1 : FeedEnd(medias, i, l) < FeedEnd(medias, i, j)
<1> DEFINE m == medias[i]
           n == Len(m.m_feeds)
           f == m.m_feeds[j]
           e == FeedEnd(medias, i, j)
           d == FeedEnd(medias, i, j - 1)
<1>1. /\ n \in Nat /\ Len(m.m_media_name) \in Nat /\ SectionEnd(medias, i - 1) \in Nat
      /\ FeedEnd(medias, i, 0) = SectionEnd(medias, i - 1) + Len(m.m_media_name) + 3
      /\ \A l \in 0 .. n : FeedEnd(medias, i, l) \in Nat
      /\ \A l \in 0 .. n : \A x \in l .. n : FeedEnd(medias, i, l) <= FeedEnd(medias, i, x)
      /\ SectionEnd(medias, i) = FeedEnd(medias, i, n) + 1
  BY SectionPlaces
<1>2. /\ d \in Nat /\ f \in WrittenFeed
      /\ e = d + Len(f.m_feed_name) + 4 + Len(f.m_feed_address) + 1
  BY FeedPlaces
<1>3. Len(f.m_feed_name) \in Nat /\ Len(f.m_feed_address) \in Nat
  BY <1>2, FeedParts, WordParts
<1>4. /\ \A l \in 0 .. Len(medias) : SectionEnd(medias, l) \in Nat
      /\ \A l \in 0 .. Len(medias) : \A x \in l .. Len(medias) :
           SectionEnd(medias, l) <= SectionEnd(medias, x)
      /\ Len(medias) \in Nat
  BY SectionEnds
<1>5. AddressStart(medias, i, j) = d + Len(f.m_feed_name) + 4
  BY DEF AddressStart
<1> DEFINE p == Len(f.m_feed_name)
           a == Len(f.m_feed_address)
<1>12. j \in 1 .. n /\ e = d + p + 4 + a + 1 /\ p \in Nat /\ a \in Nat
       /\ AddressStart(medias, i, j) = d + p + 4
  BY <1>2, <1>3, <1>5
<1> HIDE DEF d, e, f, n, m, p, a
<1>13. d \in Nat
  BY <1>2
<1>6. d < e /\ e \in Nat /\ j \in 1 .. n
  BY <1>12, <1>13
<1>7. /\ \A l \in j .. n : e <= FeedEnd(medias, i, l)
      /\ \A l \in 0 .. j - 1 : FeedEnd(medias, i, l) <= d /\ FeedEnd(medias, i, l) \in Nat
  <2>1. j \in 0 .. n /\ j - 1 \in 0 .. n /\ \A l \in 0 .. j - 1 : l \in 0 .. n /\ j - 1 \in l .. n
    BY <1>1, <1>6
  <2> QED BY <1>1, <2>1 DEF d, e
<1>8. ASSUME NEW l \in 0 .. j - 1 PROVE FeedEnd(medias, i, l) < e
  <2>1. FeedEnd(medias, i, l) <= d /\ FeedEnd(medias, i, l) \in Nat
    BY <1>7
  <2> QED BY <1>13, <1>6, <2>1
<1>9. ASSUME NEW l \in 0 .. i - 1 PROVE SectionEnd(medias, l) < e
  <2>1. l \in 0 .. Len(medias) /\ i - 1 \in l .. Len(medias) /\ 0 \in 0 .. j - 1
    BY <1>4, <1>6
  <2>2. SectionEnd(medias, l) <= SectionEnd(medias, i - 1) /\ SectionEnd(medias, l) \in Nat
    BY <1>4, <2>1
  <2>3. FeedEnd(medias, i, 0) < e /\ FeedEnd(medias, i, 0) \in Nat
    BY <1>7, <1>8, <2>1
  <2> QED BY <1>1, <1>6, <2>2, <2>3
<1>10. ASSUME NEW l \in i .. Len(medias) PROVE e < SectionEnd(medias, l)
  <2>1. i \in 0 .. Len(medias) /\ l \in 0 .. Len(medias) /\ n \in j .. n /\ n \in 0 .. n
    BY <1>1, <1>4, <1>6
  <2>2. /\ SectionEnd(medias, i) <= SectionEnd(medias, l) /\ SectionEnd(medias, i) \in Nat
        /\ SectionEnd(medias, l) \in Nat
    BY <1>4, <2>1
  <2>3. e <= FeedEnd(medias, i, n) /\ FeedEnd(medias, i, n) \in Nat
    BY <1>1, <1>7, <2>1
  <2> QED BY <1>1, <1>6, <2>2, <2>3
<1>11. /\ AddressStart(medias, i, j) \in Nat /\ d + 4 <= AddressStart(medias, i, j)
       /\ AddressStart(medias, i, j) < e
  BY <1>12, <1>13
<1> QED BY <1>2, <1>6, <1>7, <1>8, <1>9, <1>10, <1>11 DEF d, e, n, m

\* What is written is a configuration.
LEMMA WrittenIsMedia ==
  ASSUME NEW medias \in Written
  PROVE  /\ medias \in Seq(Media) /\ medias \in Seq(WrittenMedia) /\ Len(medias) \in Nat
         /\ DOMAIN medias = 1 .. Len(medias)
         /\ \A i \in 1 .. Len(medias) :
              /\ medias[i] \in Media /\ medias[i].m_feeds \in Seq(Feed)
              /\ medias[i].m_media_name \in Seq(Symbol)
              /\ medias[i] = MediaOf(medias[i].m_media_name, medias[i].m_feeds)
              /\ Len(medias[i].m_feeds) \in Nat
              /\ DOMAIN medias[i].m_feeds = 1 .. Len(medias[i].m_feeds)
<1>1. /\ medias \in Seq(WrittenMedia) /\ Len(medias) \in Nat /\ DOMAIN medias = 1 .. Len(medias)
      /\ \A i \in 1 .. Len(medias) : medias[i] \in WrittenMedia
  BY WrittenParts
<1>2. ASSUME NEW f \in WrittenFeed PROVE f \in Feed
  <2>1. f = [m_feed_name |-> f.m_feed_name, m_feed_address |-> f.m_feed_address]
    BY DEF WrittenFeed
  <2>2. f.m_feed_name \in Seq(Symbol) /\ f.m_feed_address \in Seq(Symbol)
    BY FeedParts, WordParts
  <2> QED BY <2>1, <2>2, FeedTyped
<1>3. ASSUME NEW m \in WrittenMedia PROVE m \in Media
  <2>1. m = MediaOf(m.m_media_name, m.m_feeds)
    BY DEF WrittenMedia, MediaOf
  <2>2. m.m_media_name \in Seq(Symbol)
    BY MediaParts, WordParts
  <2>3. m.m_feeds \in Seq(Feed)
    <3>1. m.m_feeds \in Seq(WrittenFeed)
      BY MediaParts
    <3> QED BY <1>2, <3>1
  <2> QED BY <2>1, <2>2, <2>3, MediaTyped
<1>4. medias \in Seq(Media)
  BY <1>1, <1>3
<1>5. ASSUME NEW i \in 1 .. Len(medias)
      PROVE  /\ medias[i] \in Media /\ medias[i].m_feeds \in Seq(Feed)
             /\ medias[i].m_media_name \in Seq(Symbol)
             /\ medias[i] = MediaOf(medias[i].m_media_name, medias[i].m_feeds)
             /\ Len(medias[i].m_feeds) \in Nat
             /\ DOMAIN medias[i].m_feeds = 1 .. Len(medias[i].m_feeds)
  <2>1. medias[i] \in Media /\ medias[i] \in WrittenMedia
    BY <1>1, <1>3
  <2> QED BY <2>1, MediaFields, MediaParts
<1> QED BY <1>1, <1>4, <1>5

\* The configuration that has the sections in front of section i and of this one
\* the feeds that are read.
ReadUpTo(i, feeds) ==
  Append(SubSeq(written, 1, i - 1), MediaOf(written[i].m_media_name, feeds))
NameRead(i, j) ==
  Append(SubSeq(written[i].m_feeds, 1, j - 1), NewFeed(written[i].m_feeds[j].m_feed_name))

LEMMA ReadUpToIs ==
  ASSUME written \in Written, NEW i \in 1 .. Len(written), NEW feeds \in Seq(Feed)
  PROVE  /\ SubSeq(written, 1, i - 1) \in Seq(Media) /\ MediaOf(written[i].m_media_name, feeds) \in Media
         /\ ReadUpTo(i, feeds) \in Seq(Media) /\ ReadUpTo(i, feeds) # <<>>
         /\ Len(ReadUpTo(i, feeds)) = i
         /\ Front(ReadUpTo(i, feeds)) = SubSeq(written, 1, i - 1)
         /\ Last(ReadUpTo(i, feeds)) = MediaOf(written[i].m_media_name, feeds)
         /\ ReadUpTo(i, feeds)[i] = MediaOf(written[i].m_media_name, feeds)
         /\ \A x \in 1 .. i - 1 : ReadUpTo(i, feeds)[x] = written[x]
<1> DEFINE p == SubSeq(written, 1, i - 1)
           m == MediaOf(written[i].m_media_name, feeds)
<1>1. written \in Seq(Media) /\ Len(written) \in Nat /\ written[i].m_media_name \in Seq(Symbol)
  BY WrittenIsMedia
<1>2. m \in Media
  BY <1>1, MediaTyped
<1>3. p \in Seq(Media) /\ Len(p) = i - 1 /\ \A x \in 1 .. i - 1 : p[x] = written[x]
  BY <1>1
<1> HIDE DEF p, m
<1>4. /\ Append(p, m) \in Seq(Media) /\ Append(p, m) # <<>>
      /\ Front(Append(p, m)) = p /\ Last(Append(p, m)) = m
      /\ Len(Append(p, m)) = Len(p) + 1 /\ Append(p, m)[Len(p) + 1] = m
      /\ \A x \in 1 .. Len(p) : Append(p, m)[x] = p[x]
  BY <1>2, <1>3, FrontOfAppend
<1>5. Len(p) + 1 = i
  BY <1>3
<1> QED BY <1>2, <1>3, <1>4, <1>5 DEF ReadUpTo, p, m

\* Feed j of section i is configured, and its address will not be changed.
Configured(i, j) ==
  /\ i \in 1 .. Len(m_medias) /\ m_medias[i].m_media_name = written[i].m_media_name
  /\ j \in 1 .. Len(m_medias[i].m_feeds) /\ m_medias[i].m_feeds[j] = written[i].m_feeds[j]
  /\ pc = "address" => i < Len(m_medias) \/ j < Len(m_medias[i].m_feeds)

\* The feeds that end within the first b symbols of the file are configured.
Kept(b) ==
  \A i \in 1 .. Len(written) : \A j \in 1 .. Len(written[i].m_feeds) :
    FeedEnd(written, i, j) <= b => Configured(i, j)

LEMMA BeginSectionKeeps ==
  ASSUME TInv, NEW b, Kept(b), BeginSection
  PROVE  Kept(b)'
<1>1. /\ m_medias \in Seq(Media) /\ rest \in Seq(Symbol)
  BY DEF TInv
<1>2. rest = From(rest, 0 + 1)
  BY <1>1, WholeRest
<1>3. 0 \in 0 .. Len(rest) /\ Len(rest) \in Nat
  BY <1>1, WholeRest
<1>4. PICK q : Began(rest, 0, q)
  BY <1>1, <1>2, <1>3, BeginSectionReads
<1> DEFINE m == [m_media_name |-> SubSeq(rest, 0 + 2 + 1, q - 1), m_feeds |-> <<>>]
<1>5. m_medias' = Append(m_medias, m)
  BY <1>4 DEF Began
<1> HIDE DEF m
<1>6. Len(m_medias') = Len(m_medias) + 1 /\ Len(m_medias) \in Nat
      /\ \A x \in 1 .. Len(m_medias) : m_medias'[x] = m_medias[x]
  BY <1>1, <1>5
<1>7. pc' # "address" /\ written' = written
  BY <1>1, BeginSectionTyped DEF BeginSection, files
<1>8. ASSUME NEW i, NEW j, Configured(i, j) PROVE Configured(i, j)'
  <2>1. i \in 1 .. Len(m_medias) /\ i \in 1 .. Len(m_medias') /\ m_medias'[i] = m_medias[i]
    BY <1>6, <1>8 DEF Configured
  <2> QED BY <1>7, <1>8, <2>1 DEF Configured
<1> QED BY <1>7, <1>8 DEF Kept, FeedEnd, SectionEnd

\* What stays when the last section of a configuration is replaced.
LEMMA LastReplaced ==
  ASSUME NEW medias \in Seq(Media), medias # <<>>, NEW m \in Media
  PROVE  /\ Len(Append(Front(medias), m)) = Len(medias) /\ Len(medias) \in Nat
         /\ Append(Front(medias), m)[Len(medias)] = m
         /\ \A x \in 1 .. Len(medias) - 1 : Append(Front(medias), m)[x] = medias[x]
<1> DEFINE f == Front(medias)
           t == Append(f, m)
<1>1. /\ f \in Seq(Media) /\ Len(medias) \in Nat /\ Len(f) = Len(medias) - 1
      /\ \A x \in 1 .. Len(medias) - 1 : f[x] = medias[x]
  BY FrontAndLast
<1> HIDE DEF f
<1>2. /\ Len(t) = Len(f) + 1 /\ t[Len(f) + 1] = m /\ \A x \in 1 .. Len(f) : t[x] = f[x]
  BY <1>1, FrontOfAppend
<1> HIDE DEF t
<1>3. Len(f) + 1 = Len(medias)
  BY <1>1
<1> QED BY <1>1, <1>2, <1>3 DEF t, f

LEMMA SetCurrentRssNameKeeps ==
  ASSUME TInv, NEW b, Kept(b), SetCurrentRssName
  PROVE  Kept(b)'
<1>1. /\ m_medias \in Seq(Media) /\ rest \in Seq(Symbol) /\ pc = "feeds" /\ m_medias # <<>>
  BY DEF TInv, SetCurrentRssName
<1>2. rest = From(rest, 0 + 1)
  BY <1>1, WholeRest
<1>3. 0 \in 0 .. Len(rest) /\ Len(rest) \in Nat
  BY <1>1, WholeRest
<1>4. PICK q : Named(rest, 0, q)
  BY <1>1, <1>2, <1>3, SetCurrentRssNameReads
<1>5. 0 + 1 \in 0 .. Len(rest) /\ ReadsTo(rest, 0 + 1, q)
  BY <1>3, <1>4 DEF Named, Has
<1> DEFINE t == SubSeq(rest, 0 + 1 + 1, q - 1)
<1>6. t \in Seq(Symbol)
  BY <1>1, <1>5, TextTyped
<1>7. m_medias' = WithFeed(m_medias, t)
  BY <1>4 DEF Named
<1> HIDE DEF t
<1> DEFINE l == Last(m_medias)
           fs == Append(l.m_feeds, NewFeed(t))
           m == MediaOf(l.m_media_name, fs)
<1>8. WithFeed(m_medias, t) = Append(Front(m_medias), m) /\ m \in Media
  BY <1>1, <1>6, WithFeedIs
<1>9. /\ m.m_media_name = l.m_media_name /\ m.m_feeds = fs
  BY DEF MediaOf
<1>10. /\ Len(fs) = Len(l.m_feeds) + 1 /\ Len(l.m_feeds) \in Nat
       /\ \A x \in 1 .. Len(l.m_feeds) : fs[x] = l.m_feeds[x]
  <2>1. l \in Media
    BY <1>1, FrontAndLast
  <2>2. l.m_feeds \in Seq(Feed)
    BY <2>1, MediaFields
  <2>3. NewFeed(t) \in Feed
    BY <1>6, EmptyText, FeedTyped DEF NewFeed
  <2> QED BY <2>2, <2>3, FrontOfAppend
<1>11. l = m_medias[Len(m_medias)]
  BY DEF Last
<1> HIDE DEF l, fs, m
<1>12. /\ Len(m_medias') = Len(m_medias) /\ Len(m_medias) \in Nat
       /\ m_medias'[Len(m_medias)] = m
       /\ \A x \in 1 .. Len(m_medias) - 1 : m_medias'[x] = m_medias[x]
  <2>1. m_medias' = Append(Front(m_medias), m)
    BY <1>7, <1>8, Zenon
  <2> QED BY <1>1, <1>8, <2>1, LastReplaced
<1>13. written' = written
  BY DEF SetCurrentRssName, files
<1>14. ASSUME NEW i, NEW j, Configured(i, j) PROVE Configured(i, j)'
  <2>1. /\ i \in 1 .. Len(m_medias) /\ m_medias[i].m_media_name = written[i].m_media_name
        /\ j \in 1 .. Len(m_medias[i].m_feeds) /\ m_medias[i].m_feeds[j] = written[i].m_feeds[j]
    BY <1>14 DEF Configured
  <2>2. CASE i = Len(m_medias)
    <3>1. j \in 1 .. Len(l.m_feeds)
      BY <1>11, <2>1, <2>2
    <3>2. j \in 1 .. Len(fs) /\ j < Len(fs) /\ fs[j] = l.m_feeds[j]
      BY <1>10, <3>1
    <3>3. m_medias'[i] = m /\ m_medias[i] = l /\ i \in 1 .. Len(m_medias')
      BY <1>11, <1>12, <2>1, <2>2
    <3> QED BY <1>9, <1>13, <2>1, <3>2, <3>3 DEF Configured
  <2>3. CASE i # Len(m_medias)
    <3>1. i \in 1 .. Len(m_medias) - 1 /\ i < Len(m_medias') /\ i \in 1 .. Len(m_medias')
      BY <1>12, <2>1, <2>3
    <3>2. m_medias'[i] = m_medias[i]
      BY <1>12, <3>1
    <3> QED BY <1>13, <2>1, <3>1, <3>2 DEF Configured
  <2> QED BY <2>2, <2>3
<1> QED BY <1>13, <1>14 DEF Kept, FeedEnd, SectionEnd

LEMMA AddRssToSectionKeeps ==
  ASSUME TInv, NEW b, Kept(b), AddRssToSection
  PROVE  Kept(b)'
<1>1. /\ m_medias \in Seq(Media) /\ rest \in Seq(Symbol) /\ pc = "address" /\ m_medias # <<>>
      /\ Last(m_medias).m_feeds # <<>>
  BY DEF TInv, AddRssToSection
<1>2. rest = From(rest, 0 + 1)
  BY <1>1, WholeRest
<1>3. 0 \in 0 .. Len(rest) /\ Len(rest) \in Nat
  BY <1>1, WholeRest
<1>4. PICK q : Addressed(rest, 0, q)
  BY <1>1, <1>2, <1>3, AddRssToSectionReads
<1>5. ReadsTo(rest, 0, q)
  BY <1>4 DEF Addressed
<1> DEFINE t == SubSeq(rest, 0 + 1, q - 1)
<1>6. t \in Seq(Symbol)
  BY <1>1, <1>3, <1>5, TextTyped
<1>7. m_medias' = WithAddress(m_medias, t)
  BY <1>4 DEF Addressed
<1> HIDE DEF t
<1> DEFINE l == Last(m_medias)
           f == [m_feed_name |-> Last(l.m_feeds).m_feed_name, m_feed_address |-> t]
           fs == Append(Front(l.m_feeds), f)
           m == MediaOf(l.m_media_name, fs)
<1>8. WithAddress(m_medias, t) = Append(Front(m_medias), m) /\ m \in Media /\ f \in Feed
  BY <1>1, <1>6, WithAddressIs
<1>9. /\ m.m_media_name = l.m_media_name /\ m.m_feeds = fs
  BY DEF MediaOf
<1>10. /\ Len(fs) = Len(l.m_feeds) /\ Len(l.m_feeds) \in Nat
       /\ \A x \in 1 .. Len(l.m_feeds) - 1 : fs[x] = l.m_feeds[x]
  <2>1. l \in Media
    BY <1>1, FrontAndLast
  <2>2. l.m_feeds \in Seq(Feed)
    BY <2>1, MediaFields
  <2> HIDE DEF f
  <2>3. /\ Front(l.m_feeds) \in Seq(Feed) /\ Len(l.m_feeds) \in Nat
        /\ Len(Front(l.m_feeds)) = Len(l.m_feeds) - 1
        /\ \A x \in 1 .. Len(l.m_feeds) - 1 : Front(l.m_feeds)[x] = l.m_feeds[x]
    BY <1>1, <2>2, FrontAndLast
  <2>4. /\ Len(fs) = Len(Front(l.m_feeds)) + 1
        /\ \A x \in 1 .. Len(Front(l.m_feeds)) : fs[x] = Front(l.m_feeds)[x]
    BY <1>8, <2>3, FrontOfAppend
  <2> HIDE DEF fs, l
  <2>5. Len(fs) = Len(l.m_feeds)
    BY <2>3, <2>4
  <2> QED BY <2>3, <2>4, <2>5
<1>11. l = m_medias[Len(m_medias)]
  BY DEF Last
<1> HIDE DEF l, f, fs, m
<1>12. /\ Len(m_medias') = Len(m_medias) /\ Len(m_medias) \in Nat
       /\ m_medias'[Len(m_medias)] = m
       /\ \A x \in 1 .. Len(m_medias) - 1 : m_medias'[x] = m_medias[x]
  <2>1. m_medias' = Append(Front(m_medias), m)
    BY <1>7, <1>8, Zenon
  <2> QED BY <1>1, <1>8, <2>1, LastReplaced
<1>13. written' = written /\ pc' # "address"
  BY <1>1, AddRssToSectionTyped DEF AddRssToSection, files
<1>14. ASSUME NEW i, NEW j, Configured(i, j) PROVE Configured(i, j)'
  <2>1. /\ i \in 1 .. Len(m_medias) /\ m_medias[i].m_media_name = written[i].m_media_name
        /\ j \in 1 .. Len(m_medias[i].m_feeds) /\ m_medias[i].m_feeds[j] = written[i].m_feeds[j]
        /\ i < Len(m_medias) \/ j < Len(m_medias[i].m_feeds)
    BY <1>1, <1>14 DEF Configured
  <2>2. CASE i = Len(m_medias)
    <3>1. j \in 1 .. Len(l.m_feeds) - 1
      BY <1>10, <1>11, <1>12, <2>1, <2>2
    <3>2. j \in 1 .. Len(fs) /\ fs[j] = l.m_feeds[j]
      BY <1>10, <3>1
    <3>3. m_medias'[i] = m /\ m_medias[i] = l /\ i \in 1 .. Len(m_medias')
      BY <1>11, <1>12, <2>1, <2>2
    <3> QED BY <1>9, <1>13, <2>1, <3>2, <3>3 DEF Configured
  <2>3. CASE i # Len(m_medias)
    <3>1. i \in 1 .. Len(m_medias) - 1 /\ i \in 1 .. Len(m_medias')
      BY <1>12, <2>1, <2>3
    <3>2. m_medias'[i] = m_medias[i]
      BY <1>12, <3>1
    <3> QED BY <1>13, <2>1, <3>1, <3>2 DEF Configured
  <2> QED BY <2>2, <2>3
<1> QED BY <1>13, <1>14 DEF Kept, FeedEnd, SectionEnd

LEMMA StaysKept ==
  ASSUME NEW b, Kept(b), UNCHANGED <<written, m_medias>>, pc' # "address" \/ pc' = pc
  PROVE  Kept(b)'
<1>1. ASSUME NEW i, NEW j, Configured(i, j) PROVE Configured(i, j)'
  BY <1>1 DEF Configured
<1> QED BY <1>1 DEF Kept, FeedEnd, SectionEnd

\* Where the grammar is in a file of which only intact symbols are read.
InSection(k, i) ==
  /\ pc = "section" /\ i \in 0 .. Len(written) /\ k = SectionEnd(written, i)
  /\ m_medias = SubSeq(written, 1, i)
InFeeds(k, i, j) ==
  /\ pc = "feeds" /\ i \in 1 .. Len(written) /\ j \in 0 .. Len(written[i].m_feeds)
  /\ k = FeedEnd(written, i, j) /\ m_medias = ReadUpTo(i, SubSeq(written[i].m_feeds, 1, j))
InAddress(k, i, j) ==
  /\ pc = "address" /\ i \in 1 .. Len(written) /\ j \in 1 .. Len(written[i].m_feeds)
  /\ k = AddressStart(written, i, j) /\ m_medias = ReadUpTo(i, NameRead(i, j))

LEMMA SectionKept ==
  ASSUME written \in Written, NEW k, NEW i, InSection(k, i), NEW b \in Int,
         i < Len(written) => b <= FeedEnd(written, i + 1, 0)
  PROVE  Kept(b)
<1>1. /\ written \in Seq(Media) /\ written \in Seq(WrittenMedia) /\ Len(written) \in Nat
      /\ \A x \in 1 .. Len(written) : Len(written[x].m_feeds) \in Nat
  BY WrittenIsMedia
<1>2. /\ i \in 0 .. Len(written) /\ pc = "section"
      /\ Len(m_medias) = i /\ \A x \in 1 .. i : m_medias[x] = written[x]
  BY <1>1 DEF InSection
<1>3. ASSUME NEW x \in 1 .. Len(written), NEW y \in 1 .. Len(written[x].m_feeds),
             FeedEnd(written, x, y) <= b
      PROVE  x <= i
  <2>1. SUFFICES ASSUME x > i PROVE FALSE
    BY <1>1, <1>2
  <2>2. i < Len(written) /\ i + 1 \in 1 .. Len(written) /\ i \in 0 .. x - 1
    BY <1>1, <1>2, <2>1
  <2>3. /\ FeedEnd(written, x, y) \in Nat
        /\ \A l \in 0 .. x - 1 : SectionEnd(written, l) < FeedEnd(written, x, y)
        /\ \A l \in 0 .. y - 1 : FeedEnd(written, x, l) < FeedEnd(written, x, y)
    BY <1>1, FeedOrder
  <2>4. /\ FeedEnd(written, i + 1, 0) \in Nat
        /\ SectionEnd(written, i + 1) = FeedEnd(written, i + 1, Len(written[i + 1].m_feeds)) + 1
        /\ FeedEnd(written, i + 1, 0) <= FeedEnd(written, i + 1, Len(written[i + 1].m_feeds))
        /\ FeedEnd(written, i + 1, Len(written[i + 1].m_feeds)) \in Nat
    <3> DEFINE a == i + 1
               n == Len(written[a].m_feeds)
    <3>1. n \in Nat /\ 0 \in 0 .. n /\ n \in 0 .. n
      BY <1>1, <2>2
    <3>2. /\ \A c \in 0 .. n : FeedEnd(written, a, c) \in Nat
          /\ \A c \in 0 .. n : \A l \in c .. n : FeedEnd(written, a, c) <= FeedEnd(written, a, l)
          /\ SectionEnd(written, a) = FeedEnd(written, a, n) + 1
      <4> HIDE DEF a
      <4> QED BY <1>1, <2>2, SectionPlaces DEF a
    <3> HIDE DEF n
    <3> QED BY <3>1, <3>2 DEF n
  <2>5. FeedEnd(written, i + 1, 0) < FeedEnd(written, x, y)
    <3>1. CASE x = i + 1
      <4>1. 0 \in 0 .. y - 1
        BY <1>1
      <4> QED BY <2>3, <3>1, <4>1
    <3>2. CASE x # i + 1
      <4>1. i + 1 \in 0 .. x - 1
        BY <1>2, <2>1, <3>2
      <4>2. SectionEnd(written, i + 1) < FeedEnd(written, x, y)
        BY <2>3, <4>1
      <4> QED BY <2>3, <2>4, <4>2
    <3> QED BY <3>1, <3>2
  <2> QED BY <1>3, <2>2, <2>3, <2>4, <2>5
<1>4. ASSUME NEW x \in 1 .. Len(written), NEW y \in 1 .. Len(written[x].m_feeds),
             FeedEnd(written, x, y) <= b
      PROVE  Configured(x, y)
  <2>1. x \in 1 .. i
    BY <1>1, <1>2, <1>3, <1>4
  <2>2. x \in 1 .. Len(m_medias) /\ m_medias[x] = written[x]
    BY <1>2, <2>1
  <2> QED BY <1>2, <2>2 DEF Configured
<1> QED BY <1>4 DEF Kept

\* In section i, where the feeds that are read are the first ones of the section.
LEMMA PartKept ==
  ASSUME written \in Written, NEW i \in 1 .. Len(written), NEW feeds \in Seq(Feed),
         m_medias = ReadUpTo(i, feeds), NEW b \in Int, b <= SectionEnd(written, i),
         \A y \in 1 .. Len(written[i].m_feeds) : FeedEnd(written, i, y) <= b =>
           /\ y \in 1 .. Len(feeds) /\ feeds[y] = written[i].m_feeds[y]
           /\ pc = "address" => y < Len(feeds)
  PROVE  Kept(b)
<1>1. /\ written \in Seq(Media) /\ written \in Seq(WrittenMedia) /\ Len(written) \in Nat
      /\ SectionEnd(written, i) \in Nat
  <2>1. /\ written \in Seq(Media) /\ written \in Seq(WrittenMedia) /\ Len(written) \in Nat
    BY WrittenIsMedia
  <2>2. \A l \in 0 .. Len(written) : SectionEnd(written, l) \in Nat
    BY <2>1, SectionEnds
  <2> QED BY <2>1, <2>2
<1>2. /\ Len(m_medias) = i /\ m_medias[i] = MediaOf(written[i].m_media_name, feeds)
      /\ \A x \in 1 .. i - 1 : m_medias[x] = written[x]
  BY ReadUpToIs
<1>3. m_medias[i].m_media_name = written[i].m_media_name /\ m_medias[i].m_feeds = feeds
  BY <1>2 DEF MediaOf
<1>4. ASSUME NEW x \in 1 .. Len(written), NEW y \in 1 .. Len(written[x].m_feeds),
             FeedEnd(written, x, y) <= b
      PROVE  Configured(x, y)
  <2>1. /\ FeedEnd(written, x, y) \in Nat
        /\ \A l \in 0 .. x - 1 : SectionEnd(written, l) < FeedEnd(written, x, y)
    BY <1>1, FeedOrder
  <2>2. x <= i
    <3>1. SUFFICES ASSUME x > i PROVE FALSE
      BY <1>1
    <3>2. i \in 0 .. x - 1
      BY <1>1, <3>1
    <3>3. SectionEnd(written, i) < FeedEnd(written, x, y)
      BY <2>1, <3>2
    <3> QED BY <1>1, <1>4, <2>1, <3>3
  <2>3. CASE x = i
    BY <1>2, <1>3, <1>4, <2>3 DEF Configured
  <2>4. CASE x # i
    <3>1. x \in 1 .. i - 1 /\ x \in 1 .. Len(m_medias) /\ x < Len(m_medias)
      BY <1>1, <1>2, <2>2, <2>4
    <3>2. m_medias[x] = written[x]
      BY <1>2, <3>1
    <3> QED BY <3>1, <3>2 DEF Configured
  <2> QED BY <2>3, <2>4
<1> QED BY <1>4 DEF Kept

LEMMA FeedsKept ==
  ASSUME written \in Written, NEW k, NEW i, NEW j, InFeeds(k, i, j), NEW b \in Int,
         b <= SectionEnd(written, i),
         j < Len(written[i].m_feeds) => b < FeedEnd(written, i, j + 1)
  PROVE  Kept(b)
<1> DEFINE fs == written[i].m_feeds
           feeds == SubSeq(fs, 1, j)
<1>1. /\ i \in 1 .. Len(written) /\ j \in 0 .. Len(fs) /\ pc = "feeds"
      /\ m_medias = ReadUpTo(i, feeds)
  BY DEF InFeeds
<1>2. written \in Seq(WrittenMedia) /\ fs \in Seq(Feed) /\ Len(fs) \in Nat
  BY <1>1, WrittenIsMedia
<1>3. feeds \in Seq(Feed) /\ Len(feeds) = j /\ \A y \in 1 .. j : feeds[y] = fs[y]
  <2> HIDE DEF fs
  <2> QED BY <1>1, <1>2
<1> HIDE DEF feeds
<1>4. ASSUME NEW y \in 1 .. Len(fs), FeedEnd(written, i, y) <= b PROVE y \in 1 .. j
  <2>1. SUFFICES ASSUME y > j PROVE FALSE
    BY <1>1, <1>2
  <2>2. j + 1 \in 1 .. Len(fs) /\ y \in j + 1 .. Len(fs) /\ j < Len(fs)
    BY <1>1, <1>2, <2>1
  <2> DEFINE a == j + 1
  <2> HIDE DEF a
  <2>3. /\ FeedEnd(written, i, a) \in Nat
        /\ \A l \in a .. Len(fs) : FeedEnd(written, i, a) <= FeedEnd(written, i, l)
    BY <1>1, <1>2, <2>2, FeedOrder DEF a
  <2>4. FeedEnd(written, i, y) \in Nat
    BY <1>1, <1>2, FeedOrder
  <2>5. FeedEnd(written, i, a) <= FeedEnd(written, i, y) /\ b < FeedEnd(written, i, a)
    BY <2>2, <2>3 DEF a
  <2> QED BY <1>4, <2>3, <2>4, <2>5
<1>5. \A y \in 1 .. Len(fs) : FeedEnd(written, i, y) <= b =>
           /\ y \in 1 .. Len(feeds) /\ feeds[y] = fs[y]
           /\ pc = "address" => y < Len(feeds)
  BY <1>1, <1>3, <1>4
<1> QED BY <1>1, <1>3, <1>5, PartKept

LEMMA NameReadIs ==
  ASSUME written \in Written, NEW i \in 1 .. Len(written), NEW j \in 1 .. Len(written[i].m_feeds)
  PROVE  LET fs == written[i].m_feeds
             p == SubSeq(fs, 1, j - 1)
         IN /\ NameRead(i, j) \in Seq(Feed) /\ Len(NameRead(i, j)) = j
            /\ NameRead(i, j) # <<>> /\ p \in Seq(Feed)
            /\ Front(NameRead(i, j)) = p /\ Last(NameRead(i, j)) = NewFeed(fs[j].m_feed_name)
            /\ \A y \in 1 .. j - 1 : NameRead(i, j)[y] = fs[y]
<1> DEFINE fs == written[i].m_feeds
           p == SubSeq(fs, 1, j - 1)
           f == NewFeed(fs[j].m_feed_name)
<1>1. fs \in Seq(Feed) /\ Len(fs) \in Nat /\ j \in 1 .. Len(fs)
  BY WrittenIsMedia
<1>2. NameRead(i, j) = Append(p, f)
  BY DEF NameRead
<1> HIDE DEF fs
<1>3. p \in Seq(Feed) /\ Len(p) = j - 1 /\ \A y \in 1 .. j - 1 : p[y] = fs[y]
  BY <1>1
<1>4. f \in Feed
  <2>1. fs[j] \in Feed
    BY <1>1, ElementOf
  <2>2. fs[j].m_feed_name \in Seq(Symbol)
    BY <2>1, FeedFields
  <2> QED BY <2>2, EmptyText, FeedTyped DEF NewFeed
<1> HIDE DEF p, f
<1>5. /\ Append(p, f) \in Seq(Feed) /\ Append(p, f) # <<>>
      /\ Front(Append(p, f)) = p /\ Last(Append(p, f)) = f
      /\ Len(Append(p, f)) = Len(p) + 1
      /\ \A x \in 1 .. Len(p) : Append(p, f)[x] = p[x]
  BY <1>3, <1>4, FrontOfAppend
<1>6. Len(p) + 1 = j
  BY <1>1, <1>3
<1> QED BY <1>2, <1>3, <1>5, <1>6 DEF p, f, fs

LEMMA AddressKept ==
  ASSUME written \in Written, NEW k, NEW i, NEW j, InAddress(k, i, j), NEW b \in Int,
         b < FeedEnd(written, i, j)
  PROVE  Kept(b)
<1> DEFINE fs == written[i].m_feeds
           feeds == NameRead(i, j)
<1>1. /\ i \in 1 .. Len(written) /\ j \in 1 .. Len(fs) /\ pc = "address"
      /\ m_medias = ReadUpTo(i, feeds)
  BY DEF InAddress
<1>2. written \in Seq(WrittenMedia) /\ fs \in Seq(Feed) /\ Len(fs) \in Nat /\ Len(written) \in Nat
  BY <1>1, WrittenIsMedia
<1>3. feeds \in Seq(Feed) /\ Len(feeds) = j /\ \A y \in 1 .. j - 1 : feeds[y] = fs[y]
  BY <1>1, NameReadIs
<1> HIDE DEF feeds
<1>4. /\ FeedEnd(written, i, j) \in Nat
      /\ \A l \in j .. Len(fs) : FeedEnd(written, i, j) <= FeedEnd(written, i, l)
      /\ \A l \in i .. Len(written) : FeedEnd(written, i, j) < SectionEnd(written, l)
  BY <1>1, <1>2, FeedOrder
<1>5. ASSUME NEW y \in 1 .. Len(fs), FeedEnd(written, i, y) <= b PROVE y \in 1 .. j - 1
  <2>1. SUFFICES ASSUME y >= j PROVE FALSE
    BY <1>1, <1>2
  <2>2. y \in j .. Len(fs)
    BY <1>1, <1>2, <2>1
  <2>3. FeedEnd(written, i, y) \in Nat
    BY <1>1, <1>2, FeedOrder
  <2> QED BY <1>4, <1>5, <2>2, <2>3
<1>6. \A y \in 1 .. Len(fs) : FeedEnd(written, i, y) <= b =>
           /\ y \in 1 .. Len(feeds) /\ feeds[y] = fs[y]
           /\ pc = "address" => y < Len(feeds)
  <2>1. ASSUME NEW y \in 1 .. j - 1 PROVE y \in 1 .. Len(feeds) /\ y < Len(feeds) /\ feeds[y] = fs[y]
    BY <1>1, <1>2, <1>3
  <2> QED BY <1>5, <2>1
<1>7. b <= SectionEnd(written, i)
  <2>1. i \in i .. Len(written) /\ i \in 0 .. Len(written)
    BY <1>1, <1>2
  <2>2. SectionEnd(written, i) \in Nat
    BY <1>2, <2>1, SectionEnds
  <2>3. FeedEnd(written, i, j) < SectionEnd(written, i)
    BY <1>4, <2>1
  <2> QED BY <1>4, <2>2, <2>3
<1> QED BY <1>1, <1>3, <1>6, <1>7, PartKept

-----------------------------------------------------------------------------
(* Reading the intact part of the file *)

Agrees(s, w, at) == at \in 1 .. Len(s) + 1 /\ \A x \in 1 .. at - 1 : s[x] = w[x]

\* A word whose closing quote is intact is read as it is written.
LEMMA WordIsRead ==
  ASSUME NEW s \in Seq(Symbol), NEW w, NEW at, Agrees(s, w, at),
         NEW t \in Word, NEW k \in Nat, NEW p \in Nat, p = k + Len(t) + 1, p < at,
         TextAt(w, k, t), w[p] = "quote", NEW q, ReadsTo(s, k, q)
  PROVE  q = p /\ SubSeq(s, k + 1, q - 1) = t /\ q <= Len(s)
<1>1. /\ t \in Seq(Symbol) /\ Len(t) \in Nat /\ \A x \in 1 .. Len(t) : t[x] \in Texts
  BY WordParts
<1>2. /\ Len(s) \in Nat /\ p <= Len(s) /\ k \in 0 .. Len(s) /\ at \in 1 .. Len(s) + 1
      /\ \A x \in 1 .. at - 1 : s[x] = w[x]
  BY <1>1 DEF Agrees
<1>3. /\ q \in k + 1 .. Len(s) + 1 /\ \A x \in k + 1 .. q - 1 : s[x] # "quote"
      /\ q <= Len(s) => s[q] = "quote"
  BY DEF ReadsTo
<1>4. ASSUME NEW x \in 1 .. Len(t) PROVE s[k + x] = t[x] /\ s[k + x] # "quote"
  <2>1. k + x \in 1 .. at - 1
    BY <1>1, <1>2
  <2>2. s[k + x] = w[k + x] /\ w[k + x] = t[x]
    BY <1>2, <2>1 DEF TextAt
  <2>3. t[x] # "quote"
    BY <1>1, KeywordsAreSymbols
  <2> QED BY <2>2, <2>3
<1>5. s[p] = "quote"
  <2>1. p \in 1 .. at - 1
    BY <1>1, <1>2
  <2> QED BY <1>2, <2>1
<1>6. ~(q < p)
  <2>1. SUFFICES ASSUME q < p PROVE FALSE
    OBVIOUS
  <2>2. q - k \in 1 .. Len(t) /\ k + (q - k) = q /\ q <= Len(s)
    BY <1>1, <1>2, <1>3, <2>1
  <2>3. s[k + (q - k)] # "quote"
    BY <1>4, <2>2
  <2> QED BY <1>3, <2>2, <2>3
<1>7. ~(q > p)
  <2>1. SUFFICES ASSUME q > p PROVE FALSE
    OBVIOUS
  <2>2. p \in k + 1 .. q - 1
    BY <1>1, <1>3, <2>1
  <2> QED BY <1>3, <1>5, <2>2
<1>8. q = p
  BY <1>2, <1>3, <1>6, <1>7
<1> DEFINE u == SubSeq(s, k + 1, q - 1)
<1>9. u \in Seq(Symbol) /\ Len(u) = q - 1 - k /\ \A x \in 1 .. q - 1 - k : u[x] = s[k + x]
  BY <1>2, TextTyped
<1> HIDE DEF u
<1>10. q - 1 - k = Len(t)
  BY <1>1, <1>2, <1>8
<1>11. u = t
  <2>1. u \in Seq(Symbol) /\ t \in Seq(Symbol) /\ Len(u) = Len(t)
    BY <1>1, <1>9, <1>10
  <2>2. ASSUME NEW x \in 1 .. Len(u) PROVE u[x] = t[x]
    <3>1. x \in 1 .. q - 1 - k /\ x \in 1 .. Len(t)
      BY <1>10, <2>1
    <3> QED BY <1>4, <1>9, <3>1
  <2> QED BY <2>1, <2>2, SeqEqual
<1> QED BY <1>2, <1>8, <1>11 DEF u

LEMMA SectionAhead ==
  ASSUME written \in Written, NEW i \in 0 .. Len(written), i < Len(written)
  PROVE  LET w == Write(written)
             k == SectionEnd(written, i)
             t == written[i + 1].m_media_name
             e == FeedEnd(written, i + 1, 0)
         IN /\ k \in Nat /\ e \in Nat /\ t \in Word /\ Len(t) \in Nat /\ e = k + 2 + Len(t) + 1
            /\ e < Len(w) /\ w[k + 1] = "section" /\ w[k + 2] = "quote" /\ TextAt(w, k + 2, t)
            /\ w[e] = "quote"
<1> DEFINE a == i + 1
           w == Write(written)
           k == SectionEnd(written, a - 1)
           m == written[a]
           t == m.m_media_name
           n == Len(m.m_feeds)
<1>1. /\ written \in Seq(WrittenMedia) /\ Len(written) \in Nat
      /\ \A x \in 1 .. Len(written) : written[x] \in WrittenMedia
  BY WrittenParts
<1>2. a \in 1 .. Len(written) /\ a - 1 = i
  BY <1>1
<1> HIDE DEF a
<1>3. m \in WrittenMedia
  BY <1>1, <1>2
<1>4. t \in Word
  BY <1>3, MediaParts
<1>5. /\ k \in Nat /\ n \in Nat /\ Len(t) \in Nat /\ BeginsAt(w, k, m)
      /\ FeedEnd(written, a, 0) = k + Len(t) + 3
      /\ \A j \in 0 .. n : FeedEnd(written, a, j) \in Nat
      /\ \A j \in 0 .. n : \A l \in j .. n : FeedEnd(written, a, j) <= FeedEnd(written, a, l)
      /\ SectionEnd(written, a) = FeedEnd(written, a, n) + 1
  BY <1>1, <1>2, SectionPlaces
<1>6. /\ SectionEnd(written, Len(written)) = Len(w)
      /\ \A x \in 0 .. Len(written) : SectionEnd(written, x) \in Nat
      /\ \A x \in 0 .. Len(written) : \A y \in x .. Len(written) :
           SectionEnd(written, x) <= SectionEnd(written, y)
  BY <1>1, SectionEnds
<1>7. a \in 0 .. Len(written) /\ Len(written) \in a .. Len(written) /\ 0 \in 0 .. n /\ n \in 0 .. n
  BY <1>1, <1>2, <1>5
<1>8. SectionEnd(written, a) <= Len(w) /\ SectionEnd(written, a) \in Nat
  BY <1>6, <1>7
<1>9. FeedEnd(written, a, 0) \in Nat /\ FeedEnd(written, a, 0) <= FeedEnd(written, a, n)
      /\ FeedEnd(written, a, n) \in Nat
  BY <1>5, <1>7
<1>10. Len(w) \in Nat
  BY <1>1, SectionEnds
<1> DEFINE l == Len(t)
<1>11. w[k + 1] = "section" /\ w[k + 1 + 1] = "quote" /\ TextAt(w, k + 1 + 1, t)
       /\ w[k + 1 + l + 2] = "quote"
  BY <1>5 DEF BeginsAt, QuotedAt
<1>12. k \in Nat /\ l \in Nat /\ FeedEnd(written, a, 0) = k + l + 3
       /\ SectionEnd(written, a) = FeedEnd(written, a, n) + 1
  BY <1>5
<1> HIDE DEF w, k, t, l, n, m
<1>13. /\ k + 1 + 1 = k + 2 /\ k + 1 + l + 2 = FeedEnd(written, a, 0)
       /\ FeedEnd(written, a, 0) = k + 2 + l + 1
  BY <1>12
<1>14. FeedEnd(written, a, 0) < Len(w)
  BY <1>8, <1>9, <1>10, <1>12
<1>15. k = SectionEnd(written, i) /\ t = written[i + 1].m_media_name
  BY <1>2 DEF a, k, t, m
<1> QED BY <1>4, <1>9, <1>11, <1>12, <1>13, <1>14, <1>15 DEF a, w, l

LEMMA FeedAhead ==
  ASSUME written \in Written, NEW i \in 1 .. Len(written), NEW j \in 1 .. Len(written[i].m_feeds)
  PROVE  LET w == Write(written)
             k == FeedEnd(written, i, j - 1)
             f == written[i].m_feeds[j]
             t == f.m_feed_name
             u == f.m_feed_address
             c == k + 1 + Len(t) + 1
             a == AddressStart(written, i, j)
             e == FeedEnd(written, i, j)
         IN /\ k \in Nat /\ t \in Word /\ u \in Word /\ Len(t) \in Nat /\ Len(u) \in Nat
            /\ a = c + 2 /\ e = a + Len(u) + 1 /\ e \in Nat /\ e < Len(w)
            /\ w[k + 1] = "quote" /\ TextAt(w, k + 1, t) /\ w[c] = "quote"
            /\ w[c + 1] = "=" /\ w[c + 2] = "quote" /\ TextAt(w, a, u) /\ w[e] = "quote"
            /\ f = [m_feed_name |-> t, m_feed_address |-> u]
<1> DEFINE w == Write(written)
           k == FeedEnd(written, i, j - 1)
           f == written[i].m_feeds[j]
           t == f.m_feed_name
           u == f.m_feed_address
           l == Len(t)
           h == Len(u)
           a == AddressStart(written, i, j)
           e == FeedEnd(written, i, j)
<1>1. written \in Seq(WrittenMedia) /\ Len(written) \in Nat
  BY WrittenParts
<1>2. k \in Nat /\ f \in WrittenFeed /\ FeedAt(w, k, f) /\ e = k + l + 4 + h + 1
  BY <1>1, FeedPlaces
<1>3. t \in Word /\ u \in Word
  BY <1>2, FeedParts
<1>4. l \in Nat /\ h \in Nat
  BY <1>3, WordParts
<1>5. e \in Nat /\ \A x \in i .. Len(written) : e < SectionEnd(written, x)
  BY <1>1, FeedOrder
<1>6. SectionEnd(written, Len(written)) = Len(w)
  BY <1>1, SectionEnds
<1>7. e < Len(w)
  <2>1. Len(written) \in i .. Len(written)
    BY <1>1
  <2> QED BY <1>5, <1>6, <2>1
<1>8. /\ w[k + 1] = "quote" /\ TextAt(w, k + 1, t) /\ w[k + l + 2] = "quote"
      /\ w[k + l + 2 + 1] = "="
      /\ w[k + l + 2 + 1 + 1] = "quote" /\ TextAt(w, k + l + 2 + 1 + 1, u)
      /\ w[k + l + 2 + 1 + h + 2] = "quote"
  BY <1>2 DEF FeedAt, QuotedAt
<1>9. a = k + l + 4
  BY DEF AddressStart
<1>10. f = [m_feed_name |-> t, m_feed_address |-> u]
  BY <1>2 DEF WrittenFeed
<1>11. k \in Nat /\ e = k + l + 4 + h + 1
  BY <1>2
<1> HIDE DEF k, l, h, a, e, w, t, u, f
<1>12. /\ k + l + 2 = k + 1 + l + 1 /\ k + l + 2 + 1 = k + 1 + l + 1 + 1
       /\ k + l + 2 + 1 + 1 = k + 1 + l + 1 + 2
       /\ k + l + 2 + 1 + h + 2 = e /\ a = k + 1 + l + 1 + 2 /\ e = a + h + 1
  BY <1>4, <1>9, <1>11
<1> QED BY <1>3, <1>4, <1>5, <1>7, <1>8, <1>10, <1>11, <1>12 DEF k, l, h, a, e, w, t, u, f

LEMMA EndAhead ==
  ASSUME written \in Written, NEW i \in 1 .. Len(written)
  PROVE  LET w == Write(written)
             k == FeedEnd(written, i, Len(written[i].m_feeds))
         IN /\ k \in Nat /\ w[k + 1] = "end" /\ SectionEnd(written, i) = k + 1 /\ k + 1 <= Len(w)
<1> DEFINE w == Write(written)
           n == Len(written[i].m_feeds)
           k == FeedEnd(written, i, n)
<1>1. written \in Seq(WrittenMedia) /\ Len(written) \in Nat
  BY WrittenParts
<1>2. /\ n \in Nat /\ \A j \in 0 .. n : FeedEnd(written, i, j) \in Nat
      /\ w[k + 1] = "end" /\ SectionEnd(written, i) = k + 1
  BY <1>1, SectionPlaces
<1>3. /\ SectionEnd(written, Len(written)) = Len(w)
      /\ \A x \in 0 .. Len(written) : \A y \in x .. Len(written) :
           SectionEnd(written, x) <= SectionEnd(written, y)
  BY <1>1, SectionEnds
<1>4. i \in 0 .. Len(written) /\ Len(written) \in i .. Len(written)
  BY <1>1
<1>5. SectionEnd(written, i) <= Len(w)
  BY <1>3, <1>4
<1>6. k \in Nat
  <2> HIDE DEF n
  <2>1. n \in 0 .. n
    BY <1>2
  <2> QED BY <1>2, <2>1
<1> QED BY <1>2, <1>5, <1>6

File == Write(written)
Left == Damaged(Write(written), damage)

\* Only intact symbols are read, k of them.
Reading(k) == k \in Nat /\ k < damage.at /\ rest = From(Left, k + 1)
Exact(k) ==
  /\ Reading(k)
  /\ \/ \E i : InSection(k, i)
     \/ \E i : \E j : InFeeds(k, i, j) \/ InAddress(k, i, j)

\* The grammar meets the damage, or is about to, and no feed in front of the
\* damage is lost any more.
Passed == damage.kind # "none" /\ Kept(damage.at - 1)

LEMMA FileIs ==
  ASSUME TInv
  PROVE  /\ File \in Seq(Symbol) /\ Left \in Seq(Symbol) /\ Len(Left) \in Nat /\ Len(File) \in Nat
         /\ damage.at \in 1 .. Len(Left) + 1 /\ damage.at <= Len(File) + 1 /\ damage.at \in Nat
         /\ \A x \in 1 .. damage.at - 1 : Left[x] = File[x]
         /\ damage.kind = "none" => Left = File /\ damage.at = Len(File) + 1
         /\ written \in Written /\ Len(written) \in Nat
         /\ damage.at - 1 \in Int
<1>1. written \in Written /\ damage \in Damages(Write(written))
  BY DEF TInv
<1>2. /\ Write(written) \in Seq(Symbol) /\ Harmed(Left, File, damage)
  BY <1>1, FileTyped DEF Left, File
<1>3. Len(written) \in Nat
  BY <1>1, WrittenParts
<1> QED BY <1>1, <1>2, <1>3 DEF Harmed, File

LEMMA ReadingIs ==
  ASSUME TInv, NEW k, Reading(k)
  PROVE  k \in 0 .. Len(Left) /\ rest = From(Left, k + 1) /\ k \in Nat /\ k + 1 <= damage.at
  BY FileIs DEF Reading

LEMMA BeginSectionExact ==
  ASSUME TInv, NEW k, NEW i, Reading(k), InSection(k, i), i < Len(written),
         FeedEnd(written, i + 1, 0) < damage.at, BeginSection
  PROVE  \E l : Exact(l)'
<1> DEFINE t == written[i + 1].m_media_name
           e == FeedEnd(written, i + 1, 0)
           a == i + 1
<1>1. /\ Left \in Seq(Symbol) /\ Len(Left) \in Nat /\ damage.at \in 1 .. Len(Left) + 1
      /\ \A x \in 1 .. damage.at - 1 : Left[x] = File[x]
      /\ written \in Written /\ Len(written) \in Nat
  BY FileIs
<1>2. k \in 0 .. Len(Left) /\ rest = From(Left, k + 1) /\ k \in Nat
  BY ReadingIs
<1>3. PICK q : Began(Left, k, q)
  BY <1>1, <1>2, BeginSectionReads
<1>4. /\ i \in 0 .. Len(written) /\ k = SectionEnd(written, i) /\ m_medias = SubSeq(written, 1, i)
  BY DEF InSection
<1>5. /\ e \in Nat /\ t \in Word /\ Len(t) \in Nat /\ e = k + 2 + Len(t) + 1
      /\ TextAt(File, k + 2, t) /\ File[e] = "quote"
  BY <1>1, <1>4, SectionAhead DEF File
<1>6. ReadsTo(Left, k + 2, q) /\ k + 2 \in Nat
  BY <1>2, <1>3 DEF Began
<1>7. q = e /\ SubSeq(Left, k + 2 + 1, q - 1) = t /\ q <= Len(Left)
  <2> DEFINE at == damage.at
             o == k + 2
  <2>1. Agrees(Left, File, at) /\ e < at
    BY <1>1 DEF Agrees
  <2>2. o \in Nat /\ e = o + Len(t) + 1 /\ TextAt(File, o, t) /\ ReadsTo(Left, o, q)
    BY <1>5, <1>6
  <2>3. t \in Word /\ File[e] = "quote" /\ e \in Nat /\ Left \in Seq(Symbol)
    BY <1>1, <1>5
  <2> HIDE DEF at, o, e, t
  <2>4. q = e /\ SubSeq(Left, o + 1, q - 1) = t /\ q <= Len(Left)
    BY <2>1, <2>2, <2>3, WordIsRead
  <2> QED BY <2>4 DEF o
<1>8. /\ m_medias' = Append(m_medias, MediaOf(t, <<>>))
      /\ pc' = "feeds" /\ rest' = From(Left, e + 1)
  BY <1>3, <1>7 DEF Began, MediaOf
<1>9. written' = written /\ damage' = damage /\ Left' = Left
  BY DEF BeginSection, files, Left
<1>10. a \in 1 .. Len(written) /\ a - 1 = i
  BY <1>1, <1>4
<1> DEFINE fs == written[a].m_feeds
<1>11. Len(fs) \in Nat /\ fs \in Seq(Feed)
  BY <1>1, <1>10, WrittenIsMedia
<1>12. m_medias' = ReadUpTo(a, SubSeq(fs, 1, 0))
  <2>1. SubSeq(fs, 1, 0) = <<>>
    <3> HIDE DEF fs
    <3> QED BY <1>11, AllOfThem
  <2>2. m_medias' = Append(SubSeq(written, 1, a - 1), MediaOf(written[a].m_media_name, <<>>))
    BY <1>4, <1>8, <1>10
  <2> HIDE DEF a
  <2> QED BY <2>1, <2>2 DEF ReadUpTo
<1>13. InFeeds(e, a, 0)'
  <2>1. 0 \in 0 .. Len(fs)
    BY <1>11
  <2> QED BY <1>8, <1>9, <1>10, <1>12, <2>1 DEF InFeeds, ReadUpTo
<1>14. Reading(e)'
  BY <1>5, <1>8, <1>9 DEF Reading
<1>15. Exact(e)'
  BY <1>13, <1>14 DEF Exact
<1> QED BY <1>15

LEMMA SetCurrentRssNameExact ==
  ASSUME TInv, NEW k, NEW i, NEW j, Reading(k), InFeeds(k, i, j), j < Len(written[i].m_feeds),
         AddressStart(written, i, j + 1) < damage.at, SetCurrentRssName
  PROVE  \E l : Exact(l)'
<1> DEFINE h == j + 1
           fs == written[i].m_feeds
           t == fs[h].m_feed_name
           a == AddressStart(written, i, h)
           c == k + 1 + Len(t) + 1
<1>1. /\ Left \in Seq(Symbol) /\ Len(Left) \in Nat /\ damage.at \in 1 .. Len(Left) + 1
      /\ \A x \in 1 .. damage.at - 1 : Left[x] = File[x]
      /\ written \in Written /\ Len(written) \in Nat
  BY FileIs
<1>2. k \in 0 .. Len(Left) /\ rest = From(Left, k + 1) /\ k \in Nat
  BY ReadingIs
<1>3. PICK q : Named(Left, k, q)
  BY <1>1, <1>2, SetCurrentRssNameReads
<1>4. /\ i \in 1 .. Len(written) /\ j \in 0 .. Len(fs) /\ k = FeedEnd(written, i, j)
      /\ m_medias = ReadUpTo(i, SubSeq(fs, 1, j))
  BY DEF InFeeds
<1>5. Len(fs) \in Nat /\ fs \in Seq(Feed)
  BY <1>1, <1>4, WrittenIsMedia
<1>6. h \in 1 .. Len(fs) /\ h - 1 = j
  BY <1>4, <1>5
<1> HIDE DEF h
<1>7. /\ t \in Word /\ Len(t) \in Nat /\ a = c + 2
      /\ TextAt(File, k + 1, t) /\ File[c] = "quote" /\ File[c + 1] = "=" /\ File[c + 2] = "quote"
  BY <1>1, <1>4, <1>6, FeedAhead DEF File
<1>8. ReadsTo(Left, k + 1, q) /\ k + 1 \in Nat
  BY <1>2, <1>3 DEF Named
<1>9. a < damage.at
  BY <1>6 DEF h
<1>10. c \in Nat /\ c + 2 < damage.at /\ c < damage.at /\ c + 3 = a + 1 /\ a \in Nat /\ c >= 1
  <2> DEFINE l == Len(t)
             at == damage.at
  <2>1. l \in Nat /\ c = k + 1 + l + 1 /\ a = c + 2 /\ a < at /\ at \in Nat
    BY <1>1, <1>7, <1>9
  <2> HIDE DEF l, a, c, at
  <2>2. c \in Nat /\ c >= 1
    BY <1>2, <2>1
  <2>3. c + 2 < at /\ c < at /\ c + 3 = a + 1 /\ a \in Nat
    BY <2>1, <2>2
  <2> QED BY <2>2, <2>3 DEF at
<1>11. q = c /\ SubSeq(Left, k + 1 + 1, q - 1) = t /\ q <= Len(Left)
  <2> DEFINE at == damage.at
             o == k + 1
  <2>1. Agrees(Left, File, at) /\ c < at
    BY <1>1, <1>10 DEF Agrees
  <2>2. o \in Nat /\ c = o + Len(t) + 1 /\ TextAt(File, o, t) /\ ReadsTo(Left, o, q)
    BY <1>7, <1>8
  <2>4. t \in Word /\ File[c] = "quote" /\ c \in Nat /\ Left \in Seq(Symbol)
    BY <1>1, <1>7, <1>10
  <2> HIDE DEF at, o, c, t
  <2>3. q = c /\ SubSeq(Left, o + 1, q - 1) = t /\ q <= Len(Left)
    BY <2>1, <2>2, <2>4, WordIsRead
  <2> QED BY <2>3 DEF o
<1>12. Fits(Left, q)
  <2> DEFINE at == damage.at
  <2>1. at \in 1 .. Len(Left) + 1 /\ \A x \in 1 .. at - 1 : Left[x] = File[x]
    BY <1>1
  <2>2. c \in Nat /\ c >= 1 /\ c + 2 < at
    BY <1>10
  <2>3. File[c] = "quote" /\ File[c + 1] = "=" /\ File[c + 2] = "quote"
    BY <1>7
  <2> HIDE DEF at, c
  <2>4. /\ c \in 1 .. at - 1 /\ c + 1 \in 1 .. at - 1 /\ c + 2 \in 1 .. at - 1
        /\ c <= Len(Left) /\ c + 1 <= Len(Left) /\ c + 2 <= Len(Left)
    BY <1>1, <2>1, <2>2
  <2> QED BY <1>11, <2>1, <2>3, <2>4 DEF Fits, Has
<1>13. /\ m_medias' = WithFeed(m_medias, t) /\ pc' = "address" /\ rest' = From(Left, a + 1)
  <2>1. q + 3 = a + 1
    BY <1>10, <1>11
  <2> QED BY <1>3, <1>11, <1>12, <2>1 DEF Named
<1>14. written' = written /\ damage' = damage /\ Left' = Left
  BY DEF SetCurrentRssName, files, Left
<1> DEFINE p == SubSeq(fs, 1, j)
<1>15. p \in Seq(Feed)
  <2> HIDE DEF fs
  <2> QED BY <1>4, <1>5
<1>16. WithFeed(m_medias, t) = ReadUpTo(i, NameRead(i, h))
  <2> DEFINE g == MediaOf(written[i].m_media_name, p)
             m == ReadUpTo(i, p)
  <2>1. /\ m \in Seq(Media) /\ m # <<>> /\ Front(m) = SubSeq(written, 1, i - 1) /\ Last(m) = g
    <3> HIDE DEF p
    <3> QED BY <1>1, <1>4, <1>15, ReadUpToIs
  <2>2. t \in Seq(Symbol)
    BY <1>7, WordParts
  <2>3. WithFeed(m, t) =
          Append(Front(m), MediaOf(Last(m).m_media_name, Append(Last(m).m_feeds, NewFeed(t))))
    <3> HIDE DEF m, t
    <3> QED BY <2>1, <2>2, WithFeedIs
  <2>4. g.m_media_name = written[i].m_media_name /\ g.m_feeds = p
    BY DEF MediaOf
  <2>5. NameRead(i, h) = Append(p, NewFeed(t))
    BY <1>6 DEF NameRead
  <2> HIDE DEF p, t, g
  <2>6. WithFeed(m, t) = Append(SubSeq(written, 1, i - 1), MediaOf(written[i].m_media_name, NameRead(i, h)))
    <3> HIDE DEF m
    <3> QED BY <2>1, <2>3, <2>4, <2>5
  <2> QED BY <1>4, <2>6 DEF ReadUpTo, p
<1>17. InAddress(a, i, h)'
  BY <1>4, <1>6, <1>13, <1>14, <1>16 DEF InAddress, ReadUpTo, NameRead
<1>18. Reading(a)'
  BY <1>9, <1>10, <1>13, <1>14 DEF Reading
<1>19. Exact(a)'
  BY <1>17, <1>18 DEF Exact
<1> QED BY <1>19

LEMMA AddressCompletes ==
  ASSUME written \in Written, NEW i \in 1 .. Len(written), NEW j \in 1 .. Len(written[i].m_feeds)
  PROVE  WithAddress(ReadUpTo(i, NameRead(i, j)), written[i].m_feeds[j].m_feed_address)
           = ReadUpTo(i, SubSeq(written[i].m_feeds, 1, j))
<1> DEFINE fs == written[i].m_feeds
           f == fs[j]
           u == f.m_feed_address
           r == NameRead(i, j)
           p == SubSeq(fs, 1, j - 1)
           g == MediaOf(written[i].m_media_name, r)
           m == ReadUpTo(i, r)
           d == [m_feed_name |-> f.m_feed_name, m_feed_address |-> u]
<1>0. /\ Len(fs) \in Nat /\ fs \in Seq(Feed) /\ u \in Word
      /\ f = [m_feed_name |-> f.m_feed_name, m_feed_address |-> u]
  BY WrittenIsMedia, FeedAhead
<1>1. /\ r \in Seq(Feed) /\ r # <<>> /\ p \in Seq(Feed)
      /\ Front(r) = p /\ Last(r) = NewFeed(f.m_feed_name)
  BY NameReadIs
<1> HIDE DEF r
<1>2. /\ m \in Seq(Media) /\ m # <<>> /\ Front(m) = SubSeq(written, 1, i - 1) /\ Last(m) = g
  BY <1>1, ReadUpToIs
<1>3. g.m_media_name = written[i].m_media_name /\ g.m_feeds = r
  BY DEF MediaOf
<1>4. u \in Seq(Symbol)
  BY <1>0, WordParts
<1>5. Last(m).m_feeds # <<>> /\ Last(m).m_feeds = r /\ Last(m).m_media_name = written[i].m_media_name
  <2> HIDE DEF m, g
  <2> QED BY <1>1, <1>2, <1>3
<1>6. WithAddress(m, u) =
        Append(Front(m), MediaOf(Last(m).m_media_name,
          Append(Front(Last(m).m_feeds),
                 [m_feed_name |-> Last(Last(m).m_feeds).m_feed_name, m_feed_address |-> u])))
  <2> HIDE DEF m, u
  <2> QED BY <1>2, <1>4, <1>5, WithAddressIs
<1>7. Last(r).m_feed_name = f.m_feed_name
  BY <1>1 DEF NewFeed
<1>8. Append(p, f) = SubSeq(fs, 1, j)
  <2> DEFINE b == j - 1
  <2>1. b \in Nat /\ b + 1 <= Len(fs) /\ b + 1 = j
    BY <1>0
  <2> HIDE DEF b, fs
  <2>2. SubSeq(fs, 1, b + 1) = Append(SubSeq(fs, 1, b), fs[b + 1])
    BY <1>0, <2>1, OneMore
  <2> QED BY <2>1, <2>2 DEF b
<1>9. d = f
  BY <1>0
<1> HIDE DEF m, g, p, f, u, d
<1>10. WithAddress(m, u) =
         Append(SubSeq(written, 1, i - 1), MediaOf(written[i].m_media_name, Append(p, d)))
  BY <1>1, <1>2, <1>5, <1>6, <1>7 DEF d
<1> HIDE DEF r
<1>11. WithAddress(m, u) = Append(SubSeq(written, 1, i - 1), MediaOf(written[i].m_media_name, SubSeq(fs, 1, j)))
  BY <1>8, <1>9, <1>10
<1>12. WithAddress(m, u) = ReadUpTo(i, SubSeq(fs, 1, j))
  BY <1>11 DEF ReadUpTo
<1> QED BY <1>12 DEF m, r, u, f

LEMMA AddRssToSectionExact ==
  ASSUME TInv, NEW k, NEW i, NEW j, Reading(k), InAddress(k, i, j),
         FeedEnd(written, i, j) < damage.at, AddRssToSection
  PROVE  \E l : Exact(l)'
<1> DEFINE fs == written[i].m_feeds
           f == fs[j]
           u == f.m_feed_address
           e == FeedEnd(written, i, j)
<1>1. /\ Left \in Seq(Symbol) /\ Len(Left) \in Nat /\ damage.at \in 1 .. Len(Left) + 1
      /\ \A x \in 1 .. damage.at - 1 : Left[x] = File[x]
      /\ written \in Written /\ Len(written) \in Nat
  BY FileIs
<1>2. k \in 0 .. Len(Left) /\ rest = From(Left, k + 1) /\ k \in Nat
  BY ReadingIs
<1>3. PICK q : Addressed(Left, k, q)
  BY <1>1, <1>2, AddRssToSectionReads
<1>4. /\ i \in 1 .. Len(written) /\ j \in 1 .. Len(fs) /\ k = AddressStart(written, i, j)
      /\ m_medias = ReadUpTo(i, NameRead(i, j))
  BY DEF InAddress
<1>5. Len(fs) \in Nat /\ fs \in Seq(Feed)
  BY <1>1, <1>4, WrittenIsMedia
<1>6. /\ u \in Word /\ Len(u) \in Nat /\ e = k + Len(u) + 1 /\ e \in Nat
      /\ TextAt(File, k, u) /\ File[e] = "quote"
      /\ f = [m_feed_name |-> f.m_feed_name, m_feed_address |-> u]
  BY <1>1, <1>4, FeedAhead DEF File
<1>7. q = e /\ SubSeq(Left, k + 1, q - 1) = u /\ q <= Len(Left)
  <2> DEFINE at == damage.at
  <2>1. Agrees(Left, File, at) /\ e < at
    BY <1>1 DEF Agrees
  <2>2. k \in Nat /\ e = k + Len(u) + 1
    BY <1>2, <1>6
  <2>4. TextAt(File, k, u) /\ ReadsTo(Left, k, q)
    BY <1>3, <1>6 DEF Addressed
  <2>3. u \in Word /\ File[e] = "quote" /\ e \in Nat /\ Left \in Seq(Symbol)
    BY <1>1, <1>6
  <2> HIDE DEF at, e, u, f, fs
  <2>5. q = e /\ SubSeq(Left, k + 1, q - 1) = u /\ q <= Len(Left)
    BY <2>1, <2>2, <2>3, <2>4, WordIsRead
  <2> QED BY <2>5
<1>8. m_medias' = WithAddress(m_medias, u) /\ pc' = "feeds" /\ rest' = From(Left, e + 1)
  BY <1>3, <1>7 DEF Addressed
<1>9. written' = written /\ damage' = damage /\ Left' = Left
  BY DEF AddRssToSection, files, Left
<1>10. WithAddress(m_medias, u) = ReadUpTo(i, SubSeq(fs, 1, j))
  BY <1>1, <1>4, AddressCompletes
<1>11. InFeeds(e, i, j)'
  <2>1. j \in 0 .. Len(fs)
    BY <1>4, <1>5
  <2> QED BY <1>4, <1>8, <1>9, <1>10, <2>1 DEF InFeeds, ReadUpTo
<1>12. Reading(e)'
  BY <1>6, <1>8, <1>9 DEF Reading
<1>13. Exact(e)'
  BY <1>11, <1>12 DEF Exact
<1> QED BY <1>13

LEMMA EndSectionExact ==
  ASSUME TInv, NEW k, NEW i, NEW j, Reading(k), InFeeds(k, i, j), k + 1 < damage.at, EndSection
  PROVE  \E l : Exact(l)'
<1> DEFINE fs == written[i].m_feeds
           w == Write(written)
<1>1. /\ Left \in Seq(Symbol) /\ Len(Left) \in Nat /\ damage.at \in 1 .. Len(Left) + 1
      /\ \A x \in 1 .. damage.at - 1 : Left[x] = File[x]
      /\ written \in Written /\ Len(written) \in Nat
  BY FileIs
<1>2. k \in 0 .. Len(Left) /\ rest = From(Left, k + 1) /\ k \in Nat
  BY ReadingIs
<1>3. /\ Has(Left, k + 1, "end") /\ pc' = "section" /\ rest' = From(Left, k + 1 + 1)
      /\ m_medias' = m_medias
  BY <1>1, <1>2, EndSectionReads
<1>4. /\ i \in 1 .. Len(written) /\ j \in 0 .. Len(fs) /\ k = FeedEnd(written, i, j)
      /\ m_medias = ReadUpTo(i, SubSeq(fs, 1, j))
  BY DEF InFeeds
<1>5. Len(fs) \in Nat /\ fs \in Seq(Feed) /\ written \in Seq(Media)
      /\ written[i] = MediaOf(written[i].m_media_name, fs)
  BY <1>1, <1>4, WrittenIsMedia
<1>6. File[k + 1] = "end"
  <2>1. k + 1 \in 1 .. damage.at - 1
    BY <1>1, <1>2
  <2> QED BY <1>1, <1>3, <2>1 DEF Has
<1>7. j = Len(fs)
  <2>1. SUFFICES ASSUME j < Len(fs) PROVE FALSE
    BY <1>4, <1>5
  <2> DEFINE h == j + 1
  <2>2. h \in 1 .. Len(fs) /\ h - 1 = j
    BY <1>4, <1>5, <2>1
  <2> HIDE DEF h
  <2>3. w[FeedEnd(written, i, h - 1) + 1] = "quote"
    BY <1>1, <1>4, <2>2, FeedAhead
  <2> QED BY <1>4, <1>6, <2>2, <2>3 DEF File
<1>8. SectionEnd(written, i) = k + 1
  BY <1>1, <1>4, <1>7, EndAhead
<1>9. m_medias' = SubSeq(written, 1, i)
  <2>1. SubSeq(fs, 1, Len(fs)) = fs
    <3> HIDE DEF fs
    <3> QED BY <1>5, AllOfThem
  <2>2. m_medias = Append(SubSeq(written, 1, i - 1), written[i])
    BY <1>4, <1>5, <1>7, <2>1 DEF ReadUpTo
  <2>3. Append(SubSeq(written, 1, i - 1), written[i]) = SubSeq(written, 1, i)
    <3> DEFINE b == i - 1
    <3>1. b \in Nat /\ b + 1 <= Len(written) /\ b + 1 = i
      BY <1>1, <1>4
    <3> HIDE DEF b
    <3>2. SubSeq(written, 1, b + 1) = Append(SubSeq(written, 1, b), written[b + 1])
      BY <1>5, <3>1, OneMore
    <3> QED BY <3>1, <3>2 DEF b
  <2> QED BY <1>3, <2>2, <2>3
<1>10. written' = written /\ damage' = damage /\ Left' = Left
  BY DEF EndSection, files, Left
<1>11. InSection(k + 1, i)'
  <2>1. i \in 0 .. Len(written)
    BY <1>1, <1>4
  <2> QED BY <1>3, <1>8, <1>9, <1>10, <2>1 DEF InSection
<1>12. Reading(k + 1)'
  <2>1. k + 1 \in Nat
    BY <1>2
  <2> QED BY <1>3, <1>10, <2>1 DEF Reading
<1>13. Exact(k + 1)'
  BY <1>11, <1>12 DEF Exact
<1> QED BY <1>13

-----------------------------------------------------------------------------
(* Reaching the damage *)

LEMMA SectionPassed ==
  ASSUME TInv, NEW k, NEW i, InSection(k, i), damage.kind # "none",
         i < Len(written) => damage.at <= FeedEnd(written, i + 1, 0) + 1
  PROVE  Passed
<1>1. damage.at - 1 \in Int /\ damage.at \in Nat /\ written \in Written
  BY FileIs
<1>2. i < Len(written) => damage.at - 1 <= FeedEnd(written, i + 1, 0)
  <2>1. SUFFICES ASSUME i < Len(written) PROVE damage.at - 1 <= FeedEnd(written, i + 1, 0)
    OBVIOUS
  <2>2. FeedEnd(written, i + 1, 0) \in Nat
    BY <1>1, <2>1, SectionAhead DEF InSection
  <2> QED BY <1>1, <2>1, <2>2
<1> DEFINE b == damage.at - 1
<1> HIDE DEF b
<1>3. b \in Int /\ (i < Len(written) => b <= FeedEnd(written, i + 1, 0))
  BY <1>1, <1>2 DEF b
<1>4. Kept(b)
  BY <1>1, <1>3, SectionKept
<1> QED BY <1>4 DEF Passed, b

LEMMA FeedsPassed ==
  ASSUME TInv, NEW k, NEW i, NEW j, InFeeds(k, i, j),
         \/ damage.at = k + 1
         \/ j < Len(written[i].m_feeds) /\ damage.at <= FeedEnd(written, i, j + 1)
  PROVE  Passed
<1> DEFINE n == Len(written[i].m_feeds)
           b == damage.at - 1
           e == FeedEnd(written, i, j + 1)
<1>1. /\ damage.at \in Nat /\ written \in Written /\ Len(File) \in Nat /\ Len(written) \in Nat
      /\ damage.kind = "none" => damage.at = Len(File) + 1
  BY FileIs
<1>2. i \in 1 .. Len(written) /\ j \in 0 .. n /\ k = FeedEnd(written, i, j)
  BY DEF InFeeds
<1>3. n \in Nat /\ written \in Seq(WrittenMedia)
  BY <1>1, <1>2, WrittenIsMedia
<1>4. /\ \A x \in 0 .. n : FeedEnd(written, i, x) \in Nat
      /\ \A x \in 0 .. n : \A y \in x .. n : FeedEnd(written, i, x) <= FeedEnd(written, i, y)
  BY <1>2, <1>3, SectionPlaces
<1>5. SectionEnd(written, i) = FeedEnd(written, i, n) + 1 /\ FeedEnd(written, i, n) + 1 <= Len(File)
  BY <1>1, <1>2, EndAhead DEF File
<1>6. j < n => e \in Nat /\ e <= FeedEnd(written, i, n) /\ k < e
  <2>1. SUFFICES ASSUME j < n PROVE e \in Nat /\ e <= FeedEnd(written, i, n) /\ k < e
    OBVIOUS
  <2> DEFINE h == j + 1
  <2>2. h \in 1 .. n /\ h \in 0 .. n /\ n \in h .. n /\ h - 1 = j
    BY <1>2, <1>3, <2>1
  <2> HIDE DEF h
  <2>3. FeedEnd(written, i, h) \in Nat /\ FeedEnd(written, i, h) <= FeedEnd(written, i, n)
    BY <1>4, <2>2
  <2>4. \A l \in 0 .. h - 1 : FeedEnd(written, i, l) < FeedEnd(written, i, h)
    BY <1>2, <1>3, <2>2, FeedOrder
  <2>5. j \in 0 .. h - 1
    BY <1>2, <2>2
  <2> QED BY <1>2, <2>3, <2>4, <2>5 DEF h
<1>7. k \in Nat /\ k <= FeedEnd(written, i, n) /\ FeedEnd(written, i, n) \in Nat
  <2>1. n \in j .. n /\ n \in 0 .. n
    BY <1>2, <1>3
  <2> QED BY <1>2, <1>4, <2>1
<1> HIDE DEF n, e
<1>8. b \in Int /\ b <= FeedEnd(written, i, n) /\ (j < n => b < e)
  <2>1. CASE damage.at = k + 1
    BY <1>1, <1>6, <1>7, <2>1
  <2>2. CASE j < n /\ damage.at <= e
    BY <1>1, <1>6, <1>7, <2>2
  <2> QED BY <2>1, <2>2 DEF n, e
<1>9. damage.kind # "none"
  <2>1. SUFFICES ASSUME damage.kind = "none" PROVE FALSE
    OBVIOUS
  <2>2. b = Len(File)
    BY <1>1, <2>1
  <2> HIDE DEF b
  <2> QED BY <1>1, <1>5, <1>7, <1>8, <2>2
<1> HIDE DEF b
<1>10. b <= SectionEnd(written, i)
  BY <1>5, <1>7, <1>8
<1>11. Kept(b)
  BY <1>1, <1>8, <1>10, FeedsKept DEF n, e
<1> QED BY <1>9, <1>11 DEF Passed, b

LEMMA AddressPassed ==
  ASSUME TInv, NEW k, NEW i, NEW j, InAddress(k, i, j), ~(FeedEnd(written, i, j) < damage.at)
  PROVE  Passed
<1> DEFINE b == damage.at - 1
           e == FeedEnd(written, i, j)
<1>1. /\ damage.at \in Nat /\ written \in Written /\ Len(File) \in Nat /\ b \in Int
      /\ damage.kind = "none" => damage.at = Len(File) + 1
  BY FileIs
<1>2. e \in Nat /\ e < Len(File)
  BY <1>1, FeedAhead DEF InAddress, File
<1> HIDE DEF e
<1>3. b < e /\ damage.kind # "none"
  BY <1>1, <1>2 DEF e
<1> HIDE DEF b
<1>4. Kept(b)
  BY <1>1, <1>3, AddressKept DEF e
<1> QED BY <1>3, <1>4 DEF Passed, b

LEMMA BeginSectionStep ==
  ASSUME TInv, NEW k, NEW i, Reading(k), InSection(k, i), BeginSection
  PROVE  (\E l : Exact(l)') \/ Passed
<1> DEFINE e == FeedEnd(written, i + 1, 0)
<1>1. /\ Left \in Seq(Symbol) /\ Len(File) \in Nat /\ damage.at \in Nat /\ damage.at <= Len(File) + 1
      /\ damage.kind = "none" => Left = File /\ damage.at = Len(File) + 1
      /\ written \in Written /\ Len(written) \in Nat
  BY FileIs
<1>2. k \in 0 .. Len(Left) /\ rest = From(Left, k + 1) /\ k \in Nat
  BY ReadingIs
<1>3. i \in 0 .. Len(written) /\ k = SectionEnd(written, i)
  BY DEF InSection
<1>4. PICK q : Began(Left, k, q)
  BY <1>1, <1>2, BeginSectionReads
<1>5. CASE i < Len(written) /\ e < damage.at
  BY <1>5, BeginSectionExact
<1>6. CASE i < Len(written) /\ ~(e < damage.at)
  <2>1. e \in Nat /\ e < Len(File)
    BY <1>1, <1>3, <1>6, SectionAhead DEF File
  <2>2. damage.kind # "none" /\ damage.at <= e + 1
    BY <1>1, <1>6, <2>1
  <2> QED BY <2>2, SectionPassed
<1>7. CASE i = Len(written)
  <2>1. k = Len(File)
    BY <1>1, <1>3, <1>7, WrittenParts, SectionEnds DEF File
  <2>2. k + 1 <= Len(Left)
    BY <1>4 DEF Began, Has
  <2>3. damage.kind # "none"
    BY <1>1, <1>2, <2>1, <2>2
  <2>4. ~(i < Len(written))
    BY <1>1, <1>7
  <2> QED BY <2>3, <2>4, SectionPassed
<1> QED BY <1>1, <1>3, <1>5, <1>6, <1>7

LEMMA SetCurrentRssNameStep ==
  ASSUME TInv, NEW k, NEW i, NEW j, Reading(k), InFeeds(k, i, j), SetCurrentRssName
  PROVE  (\E l : Exact(l)') \/ Passed
<1> DEFINE n == Len(written[i].m_feeds)
           a == AddressStart(written, i, j + 1)
<1>1. /\ Left \in Seq(Symbol) /\ damage.at \in Nat
      /\ \A x \in 1 .. damage.at - 1 : Left[x] = File[x]
      /\ written \in Written
  BY FileIs
<1>2. k \in 0 .. Len(Left) /\ rest = From(Left, k + 1) /\ k \in Nat /\ k + 1 <= damage.at
  BY ReadingIs
<1>3. i \in 1 .. Len(written) /\ j \in 0 .. n /\ k = FeedEnd(written, i, j)
  BY DEF InFeeds
<1>4. n \in Nat
  BY <1>1, <1>3, WrittenIsMedia
<1>5. PICK q : Named(Left, k, q)
  BY <1>1, <1>2, SetCurrentRssNameReads
<1>6. CASE j < n /\ a < damage.at
  BY <1>6, SetCurrentRssNameExact
<1>7. CASE j < n /\ ~(a < damage.at)
  <2> DEFINE h == j + 1
             u == written[i].m_feeds[h].m_feed_address
  <2>1. h \in 1 .. n
    BY <1>3, <1>4, <1>7
  <2> HIDE DEF h
  <2>2. /\ FeedEnd(written, i, h) = AddressStart(written, i, h) + Len(u) + 1 /\ Len(u) \in Nat
        /\ FeedEnd(written, i, h) \in Nat
    BY <1>1, <1>3, <2>1, FeedAhead
  <2>3. AddressStart(written, i, h) \in Nat
    BY <1>1, <1>3, <2>1, FeedOrder, WrittenParts
  <2>4. ~(AddressStart(written, i, h) < damage.at)
    BY <1>7 DEF h
  <2> HIDE DEF u
  <2>5. damage.at <= FeedEnd(written, i, h)
    BY <1>1, <2>2, <2>3, <2>4
  <2> QED BY <1>7, <2>5, FeedsPassed DEF h
<1>8. CASE j = n
  <2>1. File[k + 1] = "end"
    BY <1>1, <1>3, <1>8, EndAhead DEF File
  <2>2. Left[k + 1] = "quote"
    BY <1>5 DEF Named, Has
  <2>3. damage.at = k + 1
    <3>1. SUFFICES ASSUME damage.at # k + 1 PROVE FALSE
      OBVIOUS
    <3>2. k + 1 \in 1 .. damage.at - 1
      BY <1>1, <1>2, <3>1
    <3> QED BY <1>1, <2>1, <2>2, <3>2
  <2> QED BY <2>3, FeedsPassed
<1> QED BY <1>3, <1>4, <1>6, <1>7, <1>8

LEMMA AddRssToSectionStep ==
  ASSUME TInv, NEW k, NEW i, NEW j, Reading(k), InAddress(k, i, j), AddRssToSection
  PROVE  (\E l : Exact(l)') \/ Passed
<1>1. CASE FeedEnd(written, i, j) < damage.at
  BY <1>1, AddRssToSectionExact
<1>2. CASE ~(FeedEnd(written, i, j) < damage.at)
  BY <1>2, AddressPassed
<1> QED BY <1>1, <1>2

LEMMA EndSectionStep ==
  ASSUME TInv, NEW k, NEW i, NEW j, Reading(k), InFeeds(k, i, j), EndSection
  PROVE  (\E l : Exact(l)') \/ Passed
<1>1. CASE k + 1 < damage.at
  BY <1>1, EndSectionExact
<1>2. CASE ~(k + 1 < damage.at)
  <2>1. k \in Nat /\ k + 1 <= damage.at /\ damage.at \in Nat
    BY ReadingIs, FileIs
  <2>2. damage.at = k + 1
    BY <1>2, <2>1
  <2> QED BY <2>2, FeedsPassed
<1> QED BY <1>1, <1>2

LEMMA RejectStep ==
  ASSUME TInv, NEW k, Exact(k), NotFull
  PROVE  Passed
<1>1. /\ Left \in Seq(Symbol) /\ Len(File) \in Nat /\ damage.at \in Nat /\ damage.at <= Len(File) + 1
      /\ \A x \in 1 .. damage.at - 1 : Left[x] = File[x]
      /\ damage.kind = "none" => Left = File /\ damage.at = Len(File) + 1
      /\ written \in Written /\ Len(written) \in Nat /\ Len(Left) \in Nat
      /\ damage.at <= Len(Left) + 1
  BY FileIs
<1>2. Reading(k)
  BY DEF Exact
<1>3. k \in 0 .. Len(Left) /\ rest = From(Left, k + 1) /\ k \in Nat /\ k + 1 <= damage.at
  BY <1>2, ReadingIs
<1>4. \/ pc = "failed"
      \/ pc = "section" /\ k # Len(Left) /\ ~(Has(Left, k + 1, "section") /\ Has(Left, k + 2, "quote"))
      \/ pc = "feeds" /\ ~Has(Left, k + 1, "quote") /\ ~Has(Left, k + 1, "end")
  BY <1>1, <1>3, NotFullAt
<1>5. ASSUME NEW i, InSection(k, i) PROVE Passed
  <2> DEFINE e == FeedEnd(written, i + 1, 0)
  <2>1. i \in 0 .. Len(written) /\ k = SectionEnd(written, i) /\ pc = "section"
    BY <1>5 DEF InSection
  <2>2. CASE i < Len(written)
    <3>1. /\ e \in Nat /\ e < Len(File) /\ k + 2 < e
          /\ File[k + 1] = "section" /\ File[k + 2] = "quote"
      <4> DEFINE l == Len(written[i + 1].m_media_name)
      <4>1. /\ e \in Nat /\ e < Len(File) /\ e = k + 2 + l + 1 /\ l \in Nat
            /\ File[k + 1] = "section" /\ File[k + 2] = "quote"
        BY <1>1, <2>1, <2>2, SectionAhead DEF File
      <4> HIDE DEF l, e
      <4> QED BY <1>3, <4>1
    <3>2. damage.at <= k + 2
      <4>1. SUFFICES ASSUME damage.at > k + 2 PROVE FALSE
        BY <1>1, <1>3
      <4>2. k + 1 \in 1 .. damage.at - 1 /\ k + 2 \in 1 .. damage.at - 1
            /\ k + 1 <= Len(Left) /\ k + 2 <= Len(Left)
        BY <1>1, <1>3, <4>1
      <4> QED BY <1>1, <1>4, <2>1, <3>1, <4>2 DEF Has
    <3> HIDE DEF e
    <3>3. damage.at <= e + 1 /\ damage.kind # "none"
      BY <1>1, <1>3, <3>1, <3>2
    <3> QED BY <1>5, <3>3, SectionPassed DEF e
  <2>3. CASE i = Len(written)
    <3>1. k = Len(File)
      BY <1>1, <2>1, <2>3, WrittenParts, SectionEnds DEF File
    <3>2. damage.kind # "none"
      BY <1>1, <1>4, <2>1, <3>1
    <3>3. ~(i < Len(written))
      BY <1>1, <2>3
    <3> QED BY <1>5, <3>2, <3>3, SectionPassed
  <2> QED BY <1>1, <2>1, <2>2, <2>3
<1>6. ASSUME NEW i, NEW j, InFeeds(k, i, j) PROVE Passed
  <2> DEFINE n == Len(written[i].m_feeds)
  <2>1. i \in 1 .. Len(written) /\ j \in 0 .. n /\ k = FeedEnd(written, i, j) /\ pc = "feeds"
    BY <1>6 DEF InFeeds
  <2>2. n \in Nat
    BY <1>1, <2>1, WrittenIsMedia
  <2>3. File[k + 1] \in {"quote", "end"}
    <3>1. CASE j < n
      <4> DEFINE h == j + 1
      <4>1. h \in 1 .. n /\ h - 1 = j
        BY <2>1, <2>2, <3>1
      <4> HIDE DEF h
      <4>2. File[FeedEnd(written, i, h - 1) + 1] = "quote"
        BY <1>1, <2>1, <4>1, FeedAhead DEF File
      <4> QED BY <2>1, <4>1, <4>2
    <3>2. CASE j = n
      BY <1>1, <2>1, <3>2, EndAhead DEF File
    <3> QED BY <2>1, <2>2, <3>1, <3>2
  <2>4. damage.at = k + 1
    <3>1. SUFFICES ASSUME damage.at # k + 1 PROVE FALSE
      OBVIOUS
    <3>2. k + 1 \in 1 .. damage.at - 1 /\ k + 1 <= Len(Left)
      BY <1>1, <1>3, <3>1
    <3> QED BY <1>1, <1>4, <2>1, <2>3, <3>2 DEF Has
  <2> QED BY <1>6, <2>4, FeedsPassed
<1>7. ASSUME NEW i, NEW j, InAddress(k, i, j) PROVE FALSE
  BY <1>4, <1>7 DEF InAddress
<1> QED BY <1>5, <1>6, <1>7 DEF Exact

\* A file that is read to its end.
LEMMA AcceptStep ==
  ASSUME TInv, NEW k, Exact(k), Accept
  PROVE  Kept(damage.at - 1) /\ (damage.kind = "none" => m_medias = written)
<1>1. /\ Left \in Seq(Symbol) /\ Len(File) \in Nat /\ damage.at \in Nat
      /\ damage.kind = "none" => Left = File /\ damage.at = Len(File) + 1
      /\ written \in Written /\ Len(written) \in Nat /\ Len(Left) \in Nat
      /\ damage.at <= Len(Left) + 1
  BY FileIs
<1>2. k \in 0 .. Len(Left) /\ rest = From(Left, k + 1) /\ k \in Nat /\ k + 1 <= damage.at
  BY ReadingIs DEF Exact
<1>3. pc = "section" /\ rest = <<>>
  BY DEF Accept
<1>4. k = Len(Left)
  <2>1. Len(From(Left, k + 1)) = Len(Left) - k
    BY <1>1, <1>2, FromIs
  <2>2. Len(From(Left, k + 1)) = 0
    BY <1>2, <1>3
  <2>3. Len(Left) - k = 0
    BY <2>1, <2>2, Zenon
  <2> QED BY <1>1, <1>2, <2>3
<1>5. damage.at = k + 1
  BY <1>1, <1>2, <1>4
<1>6. PICK i : InSection(k, i)
  BY <1>3 DEF Exact, InFeeds, InAddress
<1>7. i \in 0 .. Len(written) /\ k = SectionEnd(written, i) /\ m_medias = SubSeq(written, 1, i)
  BY <1>6 DEF InSection
<1>8. i < Len(written) => k <= FeedEnd(written, i + 1, 0) /\ k < Len(File)
  <2>1. SUFFICES ASSUME i < Len(written) PROVE k <= FeedEnd(written, i + 1, 0) /\ k < Len(File)
    OBVIOUS
  <2> DEFINE l == Len(written[i + 1].m_media_name)
             e == FeedEnd(written, i + 1, 0)
  <2>2. e \in Nat /\ e < Len(File) /\ e = k + 2 + l + 1 /\ l \in Nat
    BY <1>1, <1>7, <2>1, SectionAhead DEF File
  <2> HIDE DEF l, e
  <2>3. k <= e /\ k < Len(File)
    BY <1>1, <1>2, <2>2
  <2> QED BY <2>3 DEF e
<1>9. Kept(k)
  <2>1. k \in Int
    BY <1>2
  <2> QED BY <1>1, <1>6, <1>8, <2>1, SectionKept
<1>10. damage.at - 1 = k
  BY <1>2, <1>5
<1>11. ASSUME damage.kind = "none" PROVE m_medias = written
  <2>1. k = Len(File)
    BY <1>1, <1>4, <1>11
  <2>2. i = Len(written)
    BY <1>1, <1>7, <1>8, <2>1
  <2>3. written \in Seq(Media)
    BY <1>1, WrittenIsMedia
  <2> QED BY <1>7, <2>2, <2>3, AllOfThem
<1> QED BY <1>9, <1>10, <1>11

-----------------------------------------------------------------------------
(* The inductive invariant of IntactFeedsAreConfigured *)

Finished ==
  /\ Kept(damage.at - 1)
  /\ damage.kind = "none" => m_medias = written /\ logged = "nothing"

KInv ==
  /\ TInv
  /\ IF pc = "parse" THEN m_medias = <<>> ELSE lines = <<>>
  /\ pc \notin {"parse", "watch"} => m_feed_filename = FeedsFile
  /\ pc # "watch" => logged = "nothing"
  /\ pc \in {"section", "feeds", "address", "failed"} => (\E k : Exact(k)) \/ Passed
  /\ pc = "watch" => m_feed_filename # FeedsFile \/ Finished

LEMMA KInvIntact == KInv => IntactFeedsAreConfigured
<1> SUFFICES ASSUME KInv, pc = "watch", FeedsFileIsNamed
             PROVE  /\ \A i \in DOMAIN written : \A j \in DOMAIN written[i].m_feeds :
                         Len(UpToFeed(i, j)) < damage.at =>
                           /\ i \in DOMAIN m_medias
                           /\ m_medias[i].m_media_name = written[i].m_media_name
                           /\ j \in DOMAIN m_medias[i].m_feeds
                           /\ m_medias[i].m_feeds[j] = written[i].m_feeds[j]
                    /\ damage.kind = "none" => m_medias = written /\ logged = "nothing"
  BY DEF IntactFeedsAreConfigured
<1>1. /\ TInv /\ written \in Written /\ m_medias \in Seq(Media) /\ lines = <<>> /\ settings \in Settings
      /\ m_feed_filename # FeedsFile \/ Finished
  BY DEF KInv, TInv
<1>2. PICK n : ReadSettings(n)
  BY <1>1 DEF TInv
<1>3. m_feed_filename = FeedsFile
  BY <1>1, <1>2, AllRead
<1>4. Finished
  BY <1>1, <1>3
<1>5. /\ written \in Seq(WrittenMedia) /\ DOMAIN written = 1 .. Len(written)
      /\ \A i \in 1 .. Len(written) : DOMAIN written[i].m_feeds = 1 .. Len(written[i].m_feeds)
  BY <1>1, WrittenIsMedia
<1>6. damage.at \in Nat
  BY <1>1, FileIs
<1>7. ASSUME NEW i \in 1 .. Len(written), NEW j \in 1 .. Len(written[i].m_feeds),
             Len(UpToFeed(i, j)) < damage.at
      PROVE  /\ i \in DOMAIN m_medias
             /\ m_medias[i].m_media_name = written[i].m_media_name
             /\ j \in DOMAIN m_medias[i].m_feeds
             /\ m_medias[i].m_feeds[j] = written[i].m_feeds[j]
  <2> DEFINE e == FeedEnd(written, i, j)
  <2>1. Len(UpToFeed(i, j)) = e
    BY <1>5, UpToFeedIs
  <2>2. e \in Nat
    BY <1>5, FeedOrder
  <2>3. e < damage.at
    BY <1>7, <2>1
  <2> HIDE DEF e
  <2>4. e <= damage.at - 1
    BY <1>6, <2>2, <2>3
  <2>5. Configured(i, j)
    BY <1>4, <2>4 DEF Finished, Kept, e
  <2>6. /\ i \in 1 .. Len(m_medias) /\ m_medias[i].m_media_name = written[i].m_media_name
        /\ j \in 1 .. Len(m_medias[i].m_feeds) /\ m_medias[i].m_feeds[j] = written[i].m_feeds[j]
    BY <2>5 DEF Configured
  <2>7. DOMAIN m_medias = 1 .. Len(m_medias) /\ m_medias[i] \in Media
    BY <1>1, <2>6
  <2>8. DOMAIN m_medias[i].m_feeds = 1 .. Len(m_medias[i].m_feeds)
    <3>1. m_medias[i].m_feeds \in Seq(Feed)
      BY <2>7, MediaFields
    <3> QED BY <3>1
  <2> QED BY <2>6, <2>7, <2>8
<1> QED BY <1>4, <1>5, <1>7 DEF Finished

LEMMA InitKInv == Init => KInv
  BY InitTyped DEF Init, KInv

\* The rest of the file is read.
LEMMA ParsingKeeps ==
  ASSUME KInv, BeginSection \/ SetCurrentRssName \/ AddRssToSection \/ EndSection
  PROVE  (\E k : Exact(k)') \/ Passed'
<1>1. TInv /\ ((\E k : Exact(k)) \/ Passed)
  BY DEF KInv, BeginSection, SetCurrentRssName, AddRssToSection, EndSection
<1>2. (\E k : Exact(k)') \/ Passed
  <2>1. CASE Passed
    BY <2>1
  <2>2. ASSUME NEW k, Exact(k) PROVE (\E l : Exact(l)') \/ Passed
    <3>1. Reading(k)
      BY <2>2 DEF Exact
    <3>2. CASE BeginSection
      <4>1. PICK i : InSection(k, i)
        BY <2>2, <3>2 DEF Exact, BeginSection, InFeeds, InAddress
      <4> QED BY <1>1, <3>1, <3>2, <4>1, BeginSectionStep
    <3>3. CASE SetCurrentRssName
      <4>1. PICK i : \E j : InFeeds(k, i, j)
        BY <2>2, <3>3 DEF Exact, SetCurrentRssName, InSection, InAddress
      <4>2. PICK j : InFeeds(k, i, j)
        BY <4>1
      <4> QED BY <1>1, <3>1, <3>3, <4>2, SetCurrentRssNameStep
    <3>4. CASE AddRssToSection
      <4>1. PICK i : \E j : InAddress(k, i, j)
        BY <2>2, <3>4 DEF Exact, AddRssToSection, InSection, InFeeds
      <4>2. PICK j : InAddress(k, i, j)
        BY <4>1
      <4> QED BY <1>1, <3>1, <3>4, <4>2, AddRssToSectionStep
    <3>5. CASE EndSection
      <4>1. PICK i : \E j : InFeeds(k, i, j)
        BY <2>2, <3>5 DEF Exact, EndSection, InSection, InAddress
      <4>2. PICK j : InFeeds(k, i, j)
        BY <4>1
      <4> QED BY <1>1, <3>1, <3>5, <4>2, EndSectionStep
    <3> QED BY <3>2, <3>3, <3>4, <3>5
  <2> QED BY <1>1, <2>1, <2>2
<1>3. ASSUME Passed PROVE Passed'
  <2>1. damage' = damage
    BY DEF BeginSection, SetCurrentRssName, AddRssToSection, EndSection, files
  <2>2. \E b : b = damage.at - 1
    OBVIOUS
  <2>3. PICK b : b = damage.at - 1
    BY <2>2
  <2>4. Kept(b)
    BY <1>3, <2>3 DEF Passed
  <2>5. Kept(b)'
    <3>1. CASE EndSection
      <4>1. UNCHANGED <<written, m_medias>> /\ pc' # "address"
        BY <3>1 DEF EndSection, files
      <4> QED BY <2>4, <4>1, StaysKept
    <3> QED BY <1>1, <2>4, <3>1, BeginSectionKeeps, SetCurrentRssNameKeeps, AddRssToSectionKeeps
  <2>6. b = damage'.at - 1
    BY <2>1, <2>3
  <2> QED BY <1>3, <2>1, <2>5, <2>6 DEF Passed, Kept
<1> QED BY <1>2, <1>3

LEMMA LeavingKeeps ==
  ASSUME KInv, Reject \/ Accept
  PROVE  Finished'
<1>1. TInv /\ ((\E k : Exact(k)) \/ Passed) /\ logged = "nothing"
  BY DEF KInv, Reject, Accept, NotFull
<1>2. /\ UNCHANGED <<written, damage, m_medias>> /\ pc' = "watch"
      /\ Accept => logged' = logged
  BY DEF Reject, Accept, files
<1>3. /\ Kept(damage.at - 1)
      /\ damage.kind = "none" => m_medias = written /\ Accept
  <2>1. CASE Passed
    BY <2>1 DEF Passed
  <2>2. ASSUME NEW k, Exact(k) PROVE /\ Kept(damage.at - 1)
                                     /\ damage.kind = "none" => m_medias = written /\ Accept
    <3>1. CASE Accept
      BY <1>1, <2>2, <3>1, AcceptStep
    <3>2. CASE Reject
      <4>1. NotFull
        BY <3>2 DEF Reject
      <4>2. Passed
        BY <1>1, <2>2, <4>1, RejectStep
      <4> QED BY <4>2 DEF Passed
    <3> QED BY <3>1, <3>2
  <2> QED BY <1>1, <2>1, <2>2
<1>4. PICK b : b = damage.at - 1
  OBVIOUS
<1>5. Kept(b)
  BY <1>3, <1>4
<1>6. Kept(b)'
  BY <1>2, <1>5, StaysKept
<1>7. b = damage'.at - 1
  BY <1>2, <1>4
<1> QED BY <1>1, <1>2, <1>3, <1>6, <1>7 DEF Finished, Kept

LEMMA StartsExact ==
  ASSUME TInv, m_medias = <<>>, ReadFeedsFile
  PROVE  Exact(0)'
<1>1. /\ TInv /\ m_medias = <<>>
  OBVIOUS
<1>2. /\ Left \in Seq(Symbol) /\ damage.at \in Nat /\ damage.at \in 1 .. Len(Left) + 1
      /\ written \in Written /\ Len(written) \in Nat
  BY <1>1, FileIs
<1>3. /\ written' = written /\ damage' = damage /\ m_medias' = m_medias /\ pc' = "section"
      /\ rest' = Left /\ Left' = Left
  BY DEF ReadFeedsFile, files, Left
<1>4. Left = From(Left, 0 + 1)
  BY <1>2, WholeRest
<1>5. SectionEnd(written, 0) = 0 /\ SubSeq(written, 1, 0) = <<>> /\ 0 \in 0 .. Len(written)
  BY <1>2, WrittenIsMedia, SectionEnds, AllOfThem
<1>6. InSection(0, 0)'
  BY <1>1, <1>3, <1>5 DEF InSection
<1>7. Reading(0)'
  BY <1>2, <1>3, <1>4 DEF Reading
<1> QED BY <1>6, <1>7 DEF Exact

LEMMA ExactStays ==
  ASSUME UNCHANGED <<written, damage, m_medias, rest, pc>>, NEW k, Exact(k)
  PROVE  Exact(k)'
<1>0. Left' = Left
  BY DEF Left
<1>1. Reading(k)'
  BY <1>0 DEF Exact, Reading
<1>2. ASSUME NEW i, InSection(k, i) PROVE InSection(k, i)'
  BY <1>2 DEF InSection
<1>3. ASSUME NEW i, NEW j, InFeeds(k, i, j) PROVE InFeeds(k, i, j)'
  BY <1>3 DEF InFeeds, ReadUpTo
<1>4. ASSUME NEW i, NEW j, InAddress(k, i, j) PROVE InAddress(k, i, j)'
  BY <1>4 DEF InAddress, ReadUpTo, NameRead
<1> QED BY <1>1, <1>2, <1>3, <1>4 DEF Exact

LEMMA KInvStep == KInv /\ [Next]_vars => KInv'
<1> SUFFICES ASSUME KInv, [Next]_vars PROVE KInv'
  OBVIOUS
<1>1. TInv'
  BY TypedStep DEF KInv
<1>2. ASSUME UNCHANGED vars PROVE KInv'
  <2>1. UNCHANGED <<written, damage, lines, m_feed_filename, m_medias, rest, pc, logged>>
    BY <1>2 DEF vars, files
  <2>2. ASSUME NEW k, Exact(k) PROVE Exact(k)'
    BY <2>1, <2>2, ExactStays
  <2>3. ASSUME NEW b, Kept(b) PROVE Kept(b)'
    BY <2>1, <2>3, StaysKept
  <2>4. PICK b : b = damage.at - 1
    OBVIOUS
  <2>5. b = damage'.at - 1
    BY <2>1, <2>4
  <2>6. Kept(damage.at - 1) => Kept(damage.at - 1)'
    BY <2>3, <2>4, <2>5 DEF Kept
  <2> QED BY <1>1, <2>1, <2>2, <2>6 DEF KInv, Passed, Finished
<1>3. ASSUME ReadLine PROVE KInv'
  BY <1>1, <1>3 DEF ReadLine, KInv
<1>4. ASSUME ReadFeedsFile PROVE KInv'
  <2>0. TInv /\ m_medias = <<>>
    BY <1>4 DEF KInv, ReadFeedsFile
  <2>1. Exact(0)'
    BY <1>4, <2>0, StartsExact
  <2> QED BY <1>1, <1>4, <2>1 DEF ReadFeedsFile, KInv
<1>5. ASSUME CouldNotOpen PROVE KInv'
  BY <1>1, <1>5 DEF CouldNotOpen, KInv
<1>6. ASSUME BeginSection \/ SetCurrentRssName \/ AddRssToSection \/ EndSection PROVE KInv'
  <2>1. (\E k : Exact(k)') \/ Passed'
    BY <1>6, ParsingKeeps
  <2>2. /\ UNCHANGED <<lines, m_feed_filename, logged>> /\ pc \in {"section", "feeds", "address"}
    BY <1>6 DEF BeginSection, SetCurrentRssName, AddRssToSection, EndSection
  <2>3. pc' \in {"section", "feeds", "address", "failed"}
    BY <1>6 DEF BeginSection, SetCurrentRssName, AddRssToSection, EndSection, Expect
  <2> QED BY <1>1, <2>1, <2>2, <2>3 DEF KInv
<1>7. ASSUME Reject \/ Accept PROVE KInv'
  <2>1. Finished'
    BY <1>7, LeavingKeeps
  <2>2. pc' = "watch" /\ lines' = lines /\ pc # "parse"
    BY <1>7 DEF Reject, Accept, NotFull
  <2> QED BY <1>1, <2>1, <2>2 DEF KInv
<1>8. ASSUME Restart PROVE KInv'
  BY <1>1, <1>8 DEF Restart, KInv
<1> QED BY <1>2, <1>3, <1>4, <1>5, <1>6, <1>7, <1>8 DEF Next

\* Whatever happened to the feeds file that the last feeds line of the settings
\* names, the feeds that stand in it before the damage are watched as they are
\* written, and a file that is not damaged is read exactly and without complaint.
THEOREM FeedsBeforeDamageAreConfigured == Spec => []IntactFeedsAreConfigured
<1>1. Init => KInv
  BY InitKInv
<1>2. KInv /\ [Next]_vars => KInv'
  BY KInvStep
<1>3. KInv => IntactFeedsAreConfigured
  BY KInvIntact
<1> QED BY <1>1, <1>2, <1>3, PTL DEF Spec

-----------------------------------------------------------------------------
(* The feeds of a configuration, one behind the other *)

Begins(s, t) == Len(s) <= Len(t) /\ \A x \in 1 .. Len(s) : s[x] = t[x]

LEMMA PrefixIs ==
  ASSUME NEW S, NEW s \in Seq(S), NEW t \in Seq(S), Begins(s, t)
  PROVE  IsPrefix(s, t)
<1> DEFINE n == Len(s)
           u == SubSeq(t, 1, n)
<1>1. n \in Nat /\ n <= Len(t) /\ \A x \in 1 .. n : s[x] = t[x]
  BY DEF Begins
<1>2. u \in Seq(S) /\ Len(u) = n /\ \A x \in 1 .. n : u[x] = t[x]
  BY <1>1
<1> HIDE DEF u
<1>3. s = u
  BY <1>1, <1>2, SeqEqual
<1>4. SubSeq(s, 1, n) = s
  BY AllOfThem
<1> QED BY <1>1, <1>3, <1>4 DEF IsPrefix, u

LEMMA BeginsJoined ==
  ASSUME NEW S, NEW s \in Seq(S), NEW t \in Seq(S)
  PROVE  s \o t \in Seq(S) /\ Begins(s, s \o t)
<1> DEFINE u == s \o t
<1>1. u \in Seq(S) /\ Joined(u, s, t)
  BY Concatenated
<1>2. Len(s) \in Nat /\ Len(t) \in Nat
  OBVIOUS
<1> HIDE DEF u
<1>3. Len(s) <= Len(u)
  BY <1>1, <1>2 DEF Joined
<1> QED BY <1>1, <1>3 DEF Joined, Begins, u

LEMMA BeginsBegins ==
  ASSUME NEW S, NEW s \in Seq(S), NEW t \in Seq(S), NEW u \in Seq(S), Begins(s, t), Begins(t, u)
  PROVE  Begins(s, u)
<1>1. Len(s) \in Nat /\ Len(t) \in Nat /\ Len(u) \in Nat /\ Len(s) <= Len(t) /\ Len(t) <= Len(u)
  BY DEF Begins
<1>2. ASSUME NEW x \in 1 .. Len(s) PROVE s[x] = u[x]
  <2>1. x \in 1 .. Len(t)
    BY <1>1
  <2> QED BY <2>1 DEF Begins
<1>3. Len(s) <= Len(u)
  BY <1>1
<1> QED BY <1>2, <1>3 DEF Begins

\* A sequence is in front of another also when both are behind a third.
LEMMA BeginsBehind ==
  ASSUME NEW S, NEW s \in Seq(S), NEW t \in Seq(S), NEW u \in Seq(S), Begins(t, u)
  PROVE  Begins(s \o t, s \o u)
<1> DEFINE a == s \o t
           b == s \o u
<1>1. a \in Seq(S) /\ Joined(a, s, t) /\ b \in Seq(S) /\ Joined(b, s, u)
  BY Concatenated
<1>2. Len(s) \in Nat /\ Len(t) \in Nat /\ Len(u) \in Nat
  OBVIOUS
<1> HIDE DEF a, b
<1>3. Len(t) <= Len(u) /\ \A x \in 1 .. Len(t) : t[x] = u[x]
  BY DEF Begins
<1>4. /\ Len(a) = Len(s) + Len(t) /\ Len(b) = Len(s) + Len(u)
      /\ \A x \in 1 .. Len(s) : a[x] = s[x] /\ b[x] = s[x]
      /\ \A x \in 1 .. Len(t) : a[Len(s) + x] = t[x]
      /\ \A x \in 1 .. Len(u) : b[Len(s) + x] = u[x]
  BY <1>1 DEF Joined
<1>5. ASSUME NEW x \in 1 .. Len(a) PROVE a[x] = b[x]
  <2>1. CASE x \in 1 .. Len(s)
    BY <1>4, <2>1
  <2>2. CASE x \notin 1 .. Len(s)
    <3> DEFINE y == x - Len(s)
    <3>1. y \in 1 .. Len(t) /\ y \in 1 .. Len(u) /\ Len(s) + y = x
      BY <1>2, <1>3, <1>4, <2>2
    <3> HIDE DEF y
    <3> QED BY <1>3, <1>4, <3>1
  <2> QED BY <2>1, <2>2
<1>6. Len(a) <= Len(b)
  BY <1>2, <1>3, <1>4
<1> QED BY <1>5, <1>6 DEF Begins, a, b

LEMMA AppendBehind ==
  ASSUME NEW S, NEW s \in Seq(S), NEW t \in Seq(S), NEW e \in S
  PROVE  /\ s \o t \in Seq(S) /\ s \o Append(t, e) = Append(s \o t, e)
         /\ Front(s \o Append(t, e)) = s \o t
<1> DEFINE o == <<e>>
<1>1. /\ o \in Seq(S) /\ Append(t, e) = t \o o
      /\ \A u \in Seq(S) : Append(u, e) = u \o o
  <2>1. o \in Seq(S)
    OBVIOUS
  <2>2. \A u \in Seq(S) : Append(u, e) = u \o o
    BY AppendIsConcat
  <2> QED BY <2>1, <2>2
<1>2. s \o t \in Seq(S)
  BY ConcatProperties
<1> HIDE DEF o
<1>3. (s \o t) \o o = s \o (t \o o)
  BY <1>1, ConcatAssociative
<1> DEFINE u == s \o t
<1> HIDE DEF u
<1>4. s \o Append(t, e) = Append(u, e)
  BY <1>1, <1>2, <1>3 DEF u
<1>5. Front(Append(u, e)) = u
  BY <1>2, FrontOfAppend DEF u
<1> QED BY <1>2, <1>4, <1>5 DEF u

FeedLists(medias) == [i \in DOMAIN medias |-> medias[i].m_feeds]

LEMMA FeedListsAre ==
  ASSUME NEW medias \in Seq(Media)
  PROVE  /\ FeedLists(medias) \in Seq(Seq(Feed)) /\ Len(FeedLists(medias)) = Len(medias)
         /\ \A i \in 1 .. Len(medias) : FeedLists(medias)[i] = medias[i].m_feeds
         /\ AllFeeds(medias) = FlattenSeq(FeedLists(medias))
<1> DEFINE g == FeedLists(medias)
<1>1. Len(medias) \in Nat /\ DOMAIN medias = 1 .. Len(medias)
  OBVIOUS
<1>2. g = [i \in DOMAIN medias |-> g[i]] /\ \A i \in 1 .. Len(medias) : g[i] = medias[i].m_feeds
  BY <1>1 DEF FeedLists
<1>3. \A i \in 1 .. Len(medias) : g[i] \in Seq(Feed)
  <2>1. ASSUME NEW i \in 1 .. Len(medias) PROVE medias[i].m_feeds \in Seq(Feed)
    BY ElementOf, MediaFields
  <2> QED BY <1>2, <2>1
<1> HIDE DEF g
<1>4. g \in Seq(Seq(Feed)) /\ Len(g) = Len(medias)
  BY <1>1, <1>2, <1>3, MapIsSeq
<1>5. AllFeeds(medias) = FlattenSeq(g)
  BY Zenon DEF AllFeeds, g, FeedLists
<1> QED BY <1>2, <1>4, <1>5 DEF g

LEMMA AllFeedsOfAppend ==
  ASSUME NEW medias \in Seq(Media), NEW m \in Media
  PROVE  /\ AllFeeds(medias) \in Seq(Feed) /\ AllFeeds(Append(medias, m)) \in Seq(Feed)
         /\ m.m_feeds \in Seq(Feed)
         /\ AllFeeds(Append(medias, m)) = AllFeeds(medias) \o m.m_feeds
<1> DEFINE more == Append(medias, m)
           g == FeedLists(medias)
           h == FeedLists(more)
           k == Append(g, m.m_feeds)
<1>1. /\ more \in Seq(Media) /\ Len(more) = Len(medias) + 1 /\ more[Len(medias) + 1] = m
      /\ Len(medias) \in Nat /\ \A x \in 1 .. Len(medias) : more[x] = medias[x]
  BY FrontOfAppend
<1> HIDE DEF more
<1>2. m.m_feeds \in Seq(Feed)
  BY MediaFields
<1>3. /\ g \in Seq(Seq(Feed)) /\ Len(g) = Len(medias) /\ AllFeeds(medias) = FlattenSeq(g)
      /\ \A i \in 1 .. Len(medias) : g[i] = medias[i].m_feeds
  BY FeedListsAre
<1>4. /\ h \in Seq(Seq(Feed)) /\ Len(h) = Len(more) /\ AllFeeds(more) = FlattenSeq(h)
      /\ \A i \in 1 .. Len(more) : h[i] = more[i].m_feeds
  BY <1>1, FeedListsAre
<1> HIDE DEF g, h
<1>5. /\ k \in Seq(Seq(Feed)) /\ Len(k) = Len(g) + 1 /\ k[Len(g) + 1] = m.m_feeds
      /\ \A x \in 1 .. Len(g) : k[x] = g[x]
  BY <1>2, <1>3, FrontOfAppend
<1> HIDE DEF k
<1>6. ASSUME NEW i \in 1 .. Len(k) PROVE h[i] = k[i]
  <2>1. i \in 1 .. Len(more) /\ (i \in 1 .. Len(medias) \/ i = Len(medias) + 1)
    BY <1>1, <1>3, <1>5
  <2>2. CASE i \in 1 .. Len(medias)
    BY <1>1, <1>3, <1>4, <1>5, <2>1, <2>2
  <2>3. CASE i = Len(medias) + 1
    BY <1>1, <1>3, <1>4, <1>5, <2>1, <2>3
  <2> QED BY <2>1, <2>2, <2>3
<1>7. h = k
  <2>1. Len(h) = Len(k)
    BY <1>1, <1>3, <1>4, <1>5
  <2> QED BY <1>4, <1>5, <1>6, <2>1, SeqEqual
<1>8. /\ FlattenSeq(g) \in Seq(Feed) /\ FlattenSeq(k) = FlattenSeq(g) \o m.m_feeds
  BY <1>2, <1>3, FlattenAppend DEF k
<1>9. FlattenSeq(g) \o m.m_feeds \in Seq(Feed)
  BY <1>2, <1>8, ConcatProperties
<1> QED BY <1>2, <1>3, <1>4, <1>7, <1>8, <1>9 DEF more

\* The feeds of the first sections come first.
LEMMA FeedsUpTo ==
  ASSUME NEW medias \in Seq(Media), NEW i \in 0 .. Len(medias), NEW l \in i .. Len(medias)
  PROVE  Begins(AllFeeds(SubSeq(medias, 1, i)), AllFeeds(SubSeq(medias, 1, l)))
<1> DEFINE N == Len(medias)
           F(x) == AllFeeds(SubSeq(medias, 1, x))
           T == {n \in Nat : i + n <= N => Begins(F(i), F(i + n))}
<1>1. N \in Nat /\ i \in Nat /\ l \in Nat /\ i <= l /\ l <= N
  OBVIOUS
<1>2. ASSUME NEW x \in Nat, x + 1 <= N
      PROVE  F(x) \in Seq(Feed) /\ F(x + 1) \in Seq(Feed) /\ Begins(F(x), F(x + 1))
  <2> DEFINE p == SubSeq(medias, 1, x)
             m == medias[x + 1]
  <2>1. p \in Seq(Media) /\ SubSeq(medias, 1, x + 1) = Append(p, m)
    BY <1>2, OneMore
  <2>2. m \in Media
    <3>1. x + 1 \in 1 .. N
      BY <1>1, <1>2
    <3> QED BY <3>1, ElementOf
  <2> HIDE DEF p, m
  <2>3. /\ AllFeeds(p) \in Seq(Feed) /\ AllFeeds(Append(p, m)) \in Seq(Feed)
        /\ m.m_feeds \in Seq(Feed) /\ AllFeeds(Append(p, m)) = AllFeeds(p) \o m.m_feeds
    BY <2>1, <2>2, AllFeedsOfAppend
  <2>4. Begins(AllFeeds(p), AllFeeds(p) \o m.m_feeds)
    BY <2>3, BeginsJoined
  <2> QED BY <2>1, <2>3, <2>4 DEF p
<1> HIDE DEF N, F
<1>3. ASSUME NEW x \in 0 .. N PROVE F(x) \in Seq(Feed)
  <2>1. SubSeq(medias, 1, x) \in Seq(Media)
    BY <1>1 DEF N
  <2>2. FeedLists(SubSeq(medias, 1, x)) \in Seq(Seq(Feed))
        /\ AllFeeds(SubSeq(medias, 1, x)) = FlattenSeq(FeedLists(SubSeq(medias, 1, x)))
    BY <2>1, FeedListsAre
  <2> QED BY <2>2, FlattenPlaces DEF F
<1>4. 0 \in T
  <2>1. i + 0 = i /\ i \in 0 .. N
    BY <1>1
  <2>2. F(i) \in Seq(Feed)
    BY <1>3, <2>1
  <2>3. Begins(F(i), F(i))
    BY <2>2 DEF Begins
  <2> QED BY <2>1, <2>3
<1>5. ASSUME NEW n \in Nat, n \in T PROVE n + 1 \in T
  <2>1. SUFFICES ASSUME i + (n + 1) <= N PROVE Begins(F(i), F(i + (n + 1)))
    OBVIOUS
  <2> DEFINE x == i + n
  <2>2. x \in Nat /\ x + 1 <= N /\ x + 1 = i + (n + 1) /\ x <= N /\ i \in 0 .. N
    BY <1>1, <2>1
  <2>3. Begins(F(i), F(x))
    BY <1>5, <2>2
  <2> HIDE DEF x
  <2>4. F(x) \in Seq(Feed) /\ F(x + 1) \in Seq(Feed) /\ Begins(F(x), F(x + 1))
    BY <1>2, <2>2
  <2>5. F(i) \in Seq(Feed)
    BY <1>3, <2>2
  <2>6. Begins(F(i), F(x + 1))
    BY <2>3, <2>4, <2>5, BeginsBegins
  <2> QED BY <2>2, <2>6
<1> HIDE DEF T
<1>6. l - i \in Nat /\ i + (l - i) = l
  BY <1>1
<1>7. l - i \in T
  BY <1>4, <1>5, <1>6, SetInduction
<1>8. Begins(F(i), F(l))
  BY <1>1, <1>6, <1>7 DEF T
<1> QED BY <1>8 DEF F

-----------------------------------------------------------------------------
(* Behind the damage *)

Good(medias) == Begins(AllFeeds(medias), AllFeeds(written))
Only(medias) == AllFeeds(medias) # <<>> => Begins(Front(AllFeeds(medias)), AllFeeds(written))

\* A quote at q, or the end of the file, behind which the grammar fits nowhere.
OutOfStep(s, q) == q = Len(s) + 1 \/ (q + 1 \in 1 .. Len(s) /\ s[q + 1] \in Texts)
Loose(s, k) == \A q : ReadsTo(s, k, q) => OutOfStep(s, q)

\* The grammar takes texts for what is around them, k symbols behind the start.
Lost(k) ==
  /\ k \in 0 .. Len(Left) /\ rest = From(Left, k + 1) /\ Only(m_medias)
  /\ \/ NotFull
     \/ pc = "feeds" /\ Good(m_medias) /\ Has(Left, k + 1, "quote") /\ Loose(Left, k + 1)
     \/ pc = "address" /\ Loose(Left, k)

\* A text is missing, and behind it the file is read as it is written.
Counts(medias, i, c) ==
  /\ Len(medias) = i
  /\ \A x \in 1 .. i : Len(medias[x].m_feeds) = IF x = i THEN c ELSE Len(written[x].m_feeds)
TextLost == damage.kind = "drop" /\ damage.at \in 1 .. Len(File) /\ File[damage.at] \in Texts
SyncSection(k, i) ==
  /\ pc = "section" /\ i \in 0 .. Len(written) /\ k = SectionEnd(written, i)
  /\ Counts(m_medias, i, IF i = 0 THEN 0 ELSE Len(written[i].m_feeds))
SyncFeeds(k, i, j) ==
  /\ pc = "feeds" /\ i \in 1 .. Len(written) /\ j \in 0 .. Len(written[i].m_feeds)
  /\ k = FeedEnd(written, i, j) /\ Counts(m_medias, i, j)
SyncAddress(k, i, j) ==
  /\ pc = "address" /\ i \in 1 .. Len(written) /\ j \in 1 .. Len(written[i].m_feeds)
  /\ k = AddressStart(written, i, j) /\ Counts(m_medias, i, j)
InStep(k) ==
  \/ \E i : SyncSection(k, i)
  \/ \E i : \E j : SyncFeeds(k, i, j) \/ SyncAddress(k, i, j)
InSync(k) == TextLost /\ k \in 0 .. Len(File) /\ rest = From(File, k + 1) /\ InStep(k)

Intact ==
  \/ damage.kind \in {"none", "cut"} /\ IsPrefix(m_medias, written)
  \/ /\ TextLost /\ Len(m_medias) = Len(written)
     /\ \A i \in 1 .. Len(written) : Len(m_medias[i].m_feeds) = Len(written[i].m_feeds)

LInv ==
  /\ TInv
  /\ pc = "parse" => m_medias = <<>>
  /\ pc \in {"section", "feeds", "address", "failed"} =>
       (\E k : Exact(k)) \/ (\E k : Lost(k)) \/ (\E k : InSync(k))
  /\ pc \in {"parse", "section", "feeds", "address", "failed"} => logged = "nothing"
  /\ pc = "watch" => /\ logged = "parse error" => Only(m_medias)
                     /\ logged = "nothing" => Intact

LEMMA AllFeedsTyped ==
  ASSUME NEW medias \in Seq(Media)
  PROVE  AllFeeds(medias) \in Seq(Feed)
<1>1. /\ FeedLists(medias) \in Seq(Seq(Feed)) /\ AllFeeds(medias) = FlattenSeq(FeedLists(medias))
  BY FeedListsAre
<1> QED BY <1>1, FlattenPlaces

LEMMA GoodIsOnly ==
  ASSUME written \in Written, NEW medias \in Seq(Media), Good(medias)
  PROVE  Only(medias)
<1> DEFINE a == AllFeeds(medias)
           b == AllFeeds(written)
<1>1. a \in Seq(Feed) /\ b \in Seq(Feed)
  BY WrittenIsMedia, AllFeedsTyped
<1>2. Begins(a, b)
  BY DEF Good
<1> HIDE DEF a, b
<1>3. ASSUME a # <<>> PROVE Begins(Front(a), b)
  <2>1. /\ Front(a) \in Seq(Feed) /\ Len(a) \in Nat /\ Len(Front(a)) = Len(a) - 1
        /\ \A x \in 1 .. Len(a) - 1 : Front(a)[x] = a[x]
    BY <1>1, <1>3, FrontAndLast
  <2>2. Begins(Front(a), a)
    BY <2>1 DEF Begins
  <2> QED BY <1>1, <1>2, <2>1, <2>2, BeginsBegins
<1> QED BY <1>3 DEF Only, a, b

\* A section without feeds changes nothing.
LEMMA SectionAdded ==
  ASSUME NEW medias \in Seq(Media), NEW name \in Seq(Symbol)
  PROVE  AllFeeds(Append(medias, MediaOf(name, <<>>))) = AllFeeds(medias)
<1> DEFINE m == MediaOf(name, <<>>)
<1>1. m \in Media
  BY EmptyText, MediaTyped
<1>2. m.m_feeds = <<>>
  BY DEF MediaOf
<1> HIDE DEF m
<1>3. /\ AllFeeds(medias) \in Seq(Feed)
      /\ AllFeeds(Append(medias, m)) = AllFeeds(medias) \o m.m_feeds
  BY <1>1, AllFeedsOfAppend
<1>4. AllFeeds(medias) \o <<>> = AllFeeds(medias)
  BY <1>3, ConcatEmptySeq
<1> QED BY <1>2, <1>3, <1>4 DEF m

\* A feed that is added, or is given an address, is the last one.
LEMMA FeedAdded ==
  ASSUME NEW medias \in Seq(Media), medias # <<>>, NEW name \in Seq(Symbol)
  PROVE  /\ WithFeed(medias, name) \in Seq(Media)
         /\ Front(AllFeeds(WithFeed(medias, name))) = AllFeeds(medias)
<1> DEFINE p == Front(medias)
           m == Last(medias)
           n == MediaOf(m.m_media_name, Append(m.m_feeds, NewFeed(name)))
<1>1. /\ p \in Seq(Media) /\ m \in Media /\ medias = Append(p, m)
  BY FrontAndLast
<1>2. /\ WithFeed(medias, name) = Append(p, n) /\ n \in Media /\ WithFeed(medias, name) \in Seq(Media)
  BY WithFeedIs
<1>3. n.m_feeds = Append(m.m_feeds, NewFeed(name))
  BY DEF MediaOf
<1>4. NewFeed(name) \in Feed
  <2>1. <<>> \in Seq(Symbol)
    BY EmptyText
  <2> QED BY <2>1, FeedTyped DEF NewFeed
<1> HIDE DEF p, m, n
<1>5. /\ AllFeeds(p) \in Seq(Feed) /\ m.m_feeds \in Seq(Feed)
      /\ AllFeeds(medias) = AllFeeds(p) \o m.m_feeds
  BY <1>1, AllFeedsOfAppend
<1>6. AllFeeds(WithFeed(medias, name)) = AllFeeds(p) \o n.m_feeds
  BY <1>1, <1>2, AllFeedsOfAppend
<1>7. Front(AllFeeds(p) \o Append(m.m_feeds, NewFeed(name))) = AllFeeds(p) \o m.m_feeds
  <2> DEFINE s == AllFeeds(p)
             t == m.m_feeds
             e == NewFeed(name)
  <2>1. s \in Seq(Feed) /\ t \in Seq(Feed) /\ e \in Feed
    BY <1>4, <1>5
  <2> HIDE DEF s, t, e
  <2>2. Front(s \o Append(t, e)) = s \o t
    BY <2>1, AppendBehind
  <2> QED BY <2>2 DEF s, t, e
<1> QED BY <1>2, <1>3, <1>5, <1>6, <1>7

LEMMA AddressAdded ==
  ASSUME NEW medias \in Seq(Media), medias # <<>>, Last(medias).m_feeds # <<>>,
         NEW address \in Seq(Symbol)
  PROVE  /\ WithAddress(medias, address) \in Seq(Media)
         /\ Front(AllFeeds(WithAddress(medias, address))) = Front(AllFeeds(medias))
         /\ AllFeeds(medias) # <<>>
<1> DEFINE p == Front(medias)
           m == Last(medias)
           q == Front(m.m_feeds)
           e == Last(m.m_feeds)
           f == [m_feed_name |-> e.m_feed_name, m_feed_address |-> address]
           n == MediaOf(m.m_media_name, Append(q, f))
<1>1. /\ p \in Seq(Media) /\ m \in Media /\ medias = Append(p, m)
  BY FrontAndLast
<1>2. /\ WithAddress(medias, address) = Append(p, n) /\ n \in Media /\ f \in Feed
      /\ WithAddress(medias, address) \in Seq(Media)
  BY WithAddressIs
<1>3. n.m_feeds = Append(q, f)
  BY DEF MediaOf
<1> HIDE DEF n, f
<1>4. m.m_feeds # <<>>
  OBVIOUS
<1> HIDE DEF p, m
<1>5. /\ AllFeeds(p) \in Seq(Feed) /\ m.m_feeds \in Seq(Feed)
      /\ AllFeeds(medias) = AllFeeds(p) \o m.m_feeds
  BY <1>1, AllFeedsOfAppend
<1>6. AllFeeds(WithAddress(medias, address)) = AllFeeds(p) \o n.m_feeds
  BY <1>1, <1>2, AllFeedsOfAppend
<1>7. q \in Seq(Feed) /\ e \in Feed /\ m.m_feeds = Append(q, e)
  BY <1>4, <1>5, FrontAndLast
<1> HIDE DEF q, e
<1>8. Front(AllFeeds(p) \o Append(q, f)) = AllFeeds(p) \o q
  BY <1>2, <1>5, <1>7, AppendBehind
<1>9. /\ Front(AllFeeds(p) \o Append(q, e)) = AllFeeds(p) \o q
      /\ AllFeeds(p) \o Append(q, e) = Append(AllFeeds(p) \o q, e) /\ AllFeeds(p) \o q \in Seq(Feed)
  <2> DEFINE s == AllFeeds(p)
  <2>1. s \in Seq(Feed)
    BY <1>5
  <2> HIDE DEF s
  <2>3. q \in Seq(Feed) /\ e \in Feed
    BY <1>7
  <2>2. s \o q \in Seq(Feed)
    BY <2>1, <2>3, AppendBehind
  <2>4. s \o Append(q, e) = Append(s \o q, e)
    BY <2>1, <2>3, AppendBehind, SMTT(20)
  <2>5. Front(s \o Append(q, e)) = s \o q
    BY <2>1, <2>3, AppendBehind
  <2> QED BY <2>2, <2>4, <2>5 DEF s
<1>10. Append(AllFeeds(p) \o q, e) # <<>>
  BY <1>7, <1>9, FrontOfAppend
<1> QED BY <1>2, <1>3, <1>5, <1>6, <1>7, <1>8, <1>9, <1>10

LEMMA SectionStaysGood ==
  ASSUME NEW medias \in Seq(Media), NEW name \in Seq(Symbol), Good(medias)
  PROVE  Good(Append(medias, MediaOf(name, <<>>)))
  BY SectionAdded DEF Good

LEMMA FeedLeavesOnly ==
  ASSUME NEW medias \in Seq(Media), medias # <<>>, NEW name \in Seq(Symbol), Good(medias)
  PROVE  Only(WithFeed(medias, name))
  BY FeedAdded DEF Good, Only

LEMMA AddressLeavesOnly ==
  ASSUME NEW medias \in Seq(Media), medias # <<>>, Last(medias).m_feeds # <<>>,
         NEW address \in Seq(Symbol), Only(medias)
  PROVE  Only(WithAddress(medias, address))
  BY AddressAdded DEF Only

LEMMA SectionIsGood ==
  ASSUME written \in Written, NEW i \in 0 .. Len(written)
  PROVE  Good(SubSeq(written, 1, i)) /\ SubSeq(written, 1, i) \in Seq(Media)
<1>1. written \in Seq(Media) /\ Len(written) \in Nat
  BY WrittenIsMedia
<1>2. SubSeq(written, 1, Len(written)) = written /\ Len(written) \in i .. Len(written)
  BY <1>1, AllOfThem
<1>3. Begins(AllFeeds(SubSeq(written, 1, i)), AllFeeds(SubSeq(written, 1, Len(written))))
  BY <1>1, <1>2, FeedsUpTo
<1>4. SubSeq(written, 1, i) \in Seq(Media)
  BY <1>1
<1> QED BY <1>2, <1>3, <1>4 DEF Good

LEMMA PartIsGood ==
  ASSUME written \in Written, NEW i \in 1 .. Len(written), NEW feeds \in Seq(Feed),
         Begins(feeds, written[i].m_feeds)
  PROVE  Good(ReadUpTo(i, feeds))
<1> DEFINE p == SubSeq(written, 1, i - 1)
           m == MediaOf(written[i].m_media_name, feeds)
           fs == written[i].m_feeds
           b == i - 1
<1>1. /\ written \in Seq(Media) /\ Len(written) \in Nat /\ written[i] \in Media
      /\ fs \in Seq(Feed) /\ i \in 0 .. Len(written)
  BY WrittenIsMedia
<1>2. p \in Seq(Media) /\ m \in Media /\ m.m_feeds = feeds
  BY ReadUpToIs DEF MediaOf
<1>3. p = SubSeq(written, 1, b) /\ b \in Nat /\ b + 1 <= Len(written) /\ b + 1 = i
  BY <1>1
<1> HIDE DEF b, p, m
<1>4. SubSeq(written, 1, b + 1) = Append(SubSeq(written, 1, b), written[b + 1])
  BY <1>1, <1>3, OneMore
<1>5. SubSeq(written, 1, i) = Append(p, written[i])
  BY <1>3, <1>4
<1>6. /\ AllFeeds(p) \in Seq(Feed) /\ AllFeeds(Append(p, m)) = AllFeeds(p) \o m.m_feeds
      /\ AllFeeds(Append(p, m)) \in Seq(Feed)
  BY <1>2, AllFeedsOfAppend
<1>7. /\ AllFeeds(Append(p, written[i])) = AllFeeds(p) \o fs
      /\ AllFeeds(Append(p, written[i])) \in Seq(Feed)
  BY <1>1, <1>2, AllFeedsOfAppend
<1> HIDE DEF fs
<1>8. Begins(feeds, fs)
  BY DEF fs
<1>9. Begins(AllFeeds(p) \o feeds, AllFeeds(p) \o fs)
  BY <1>1, <1>6, <1>8, BeginsBehind
<1>10. Begins(AllFeeds(Append(p, m)), AllFeeds(SubSeq(written, 1, i)))
  BY <1>2, <1>5, <1>6, <1>7, <1>9
<1>11. Begins(AllFeeds(SubSeq(written, 1, i)), AllFeeds(written))
  BY <1>1, SectionIsGood DEF Good
<1>12. AllFeeds(written) \in Seq(Feed) /\ AllFeeds(SubSeq(written, 1, i)) \in Seq(Feed)
  BY <1>1, <1>5, <1>7, AllFeedsTyped
<1>13. Begins(AllFeeds(Append(p, m)), AllFeeds(written))
  BY <1>6, <1>10, <1>11, <1>12, BeginsBegins
<1>14. ReadUpTo(i, feeds) = Append(p, m)
  BY DEF ReadUpTo, p, m
<1> QED BY <1>13, <1>14 DEF Good

LEMMA FeedsAreGood ==
  ASSUME written \in Written, NEW i \in 1 .. Len(written), NEW j \in 0 .. Len(written[i].m_feeds)
  PROVE  /\ Good(ReadUpTo(i, SubSeq(written[i].m_feeds, 1, j)))
         /\ ReadUpTo(i, SubSeq(written[i].m_feeds, 1, j)) \in Seq(Media)
         /\ ReadUpTo(i, SubSeq(written[i].m_feeds, 1, j)) # <<>>
<1> DEFINE fs == written[i].m_feeds
           p == SubSeq(fs, 1, j)
<1>1. fs \in Seq(Feed) /\ Len(fs) \in Nat /\ j \in 0 .. Len(fs)
  BY WrittenIsMedia
<1>2. p \in Seq(Feed) /\ Begins(p, fs)
  <2> HIDE DEF fs
  <2>1. p \in Seq(Feed) /\ Len(p) = j /\ \A x \in 1 .. j : p[x] = fs[x]
    BY <1>1
  <2>2. Len(p) <= Len(fs)
    BY <1>1, <2>1
  <2> QED BY <2>1, <2>2 DEF Begins
<1> HIDE DEF p
<1>3. Good(ReadUpTo(i, p)) /\ ReadUpTo(i, p) \in Seq(Media) /\ ReadUpTo(i, p) # <<>>
  BY <1>2, PartIsGood, ReadUpToIs
<1> QED BY <1>3 DEF p

LEMMA AddressIsOnly ==
  ASSUME written \in Written, NEW i \in 1 .. Len(written), NEW j \in 1 .. Len(written[i].m_feeds)
  PROVE  Only(ReadUpTo(i, NameRead(i, j)))
<1> DEFINE fs == written[i].m_feeds
           b == j - 1
           medias == ReadUpTo(i, SubSeq(fs, 1, b))
           name == fs[j].m_feed_name
           p == SubSeq(written, 1, i - 1)
           t == SubSeq(fs, 1, j - 1)
           n == MediaOf(written[i].m_media_name, t)
<1>1. fs \in Seq(Feed) /\ Len(fs) \in Nat /\ j \in 1 .. Len(fs) /\ b \in 0 .. Len(fs)
  BY WrittenIsMedia
<1>2. Good(medias) /\ medias \in Seq(Media) /\ medias # <<>>
  <2> HIDE DEF b
  <2> QED BY <1>1, FeedsAreGood
<1>3. name \in Seq(Symbol)
  <2>1. fs[j] \in Feed
    <3> HIDE DEF fs
    <3> QED BY <1>1, ElementOf
  <2> QED BY <2>1, FeedFields
<1>4. Only(WithFeed(medias, name))
  <2> HIDE DEF medias, name
  <2> QED BY <1>2, <1>3, FeedLeavesOnly
<1>5. t \in Seq(Feed) /\ t = SubSeq(fs, 1, b)
  <2> HIDE DEF fs
  <2> QED BY <1>1
<1>6. /\ Front(medias) = p /\ Last(medias) = n
  <2> HIDE DEF t
  <2>1. medias = ReadUpTo(i, t)
    BY <1>5
  <2>2. Front(ReadUpTo(i, t)) = SubSeq(written, 1, i - 1)
        /\ Last(ReadUpTo(i, t)) = MediaOf(written[i].m_media_name, t)
    BY <1>5, ReadUpToIs
  <2> QED BY <2>1, <2>2
<1>7. n.m_feeds = t /\ n.m_media_name = written[i].m_media_name
  BY DEF MediaOf
<1> HIDE DEF medias, n
<1>8. WithFeed(medias, name) =
        Append(Front(medias), MediaOf(Last(medias).m_media_name, Append(Last(medias).m_feeds, NewFeed(name))))
  <2> HIDE DEF name
  <2> QED BY <1>2, <1>3, WithFeedIs
<1>9. WithFeed(medias, name) = Append(p, MediaOf(written[i].m_media_name, Append(t, NewFeed(name))))
  <2> HIDE DEF name, p, t
  <2> QED BY <1>6, <1>7, <1>8
<1>10. ReadUpTo(i, NameRead(i, j)) = Append(p, MediaOf(written[i].m_media_name, Append(t, NewFeed(name))))
  BY DEF ReadUpTo, NameRead
<1> QED BY <1>4, <1>9, <1>10

-----------------------------------------------------------------------------
(* Where the next quote is *)

Quiet(s, a, b) == \A x \in a .. b : s[x] # "quote"

LEMMA NextQuote ==
  ASSUME NEW s \in Seq(Symbol), NEW k \in Nat, NEW p \in Nat, k < p, p <= Len(s),
         s[p] = "quote", Quiet(s, k + 1, p - 1), NEW q, ReadsTo(s, k, q)
  PROVE  q = p
<1>1. /\ Len(s) \in Nat /\ q \in k + 1 .. Len(s) + 1 /\ \A x \in k + 1 .. q - 1 : s[x] # "quote"
      /\ q <= Len(s) => s[q] = "quote"
  BY DEF ReadsTo
<1>2. ~(q < p)
  <2>1. SUFFICES ASSUME q < p PROVE FALSE
    OBVIOUS
  <2>2. q \in k + 1 .. p - 1 /\ q <= Len(s)
    BY <1>1, <2>1
  <2> QED BY <1>1, <2>2 DEF Quiet
<1>3. ~(p < q)
  <2>1. SUFFICES ASSUME p < q PROVE FALSE
    OBVIOUS
  <2>2. p \in k + 1 .. q - 1
    BY <1>1, <2>1
  <2> QED BY <1>1, <2>2
<1> QED BY <1>1, <1>2, <1>3

\* Nothing but the place of the first quote behind k matters.
LEMMA ReadsFurther ==
  ASSUME NEW s \in Seq(Symbol), NEW k \in Nat, NEW l \in Nat, k <= l, l <= Len(s),
         Quiet(s, k + 1, l), NEW q, ReadsTo(s, k, q)
  PROVE  ReadsTo(s, l, q)
<1>1. /\ Len(s) \in Nat /\ q \in k + 1 .. Len(s) + 1 /\ \A x \in k + 1 .. q - 1 : s[x] # "quote"
      /\ q <= Len(s) => s[q] = "quote"
  BY DEF ReadsTo
<1>2. ~(q <= l)
  <2>1. SUFFICES ASSUME q <= l PROVE FALSE
    OBVIOUS
  <2>2. q \in k + 1 .. l /\ q <= Len(s)
    BY <1>1, <2>1
  <2> QED BY <1>1, <2>2 DEF Quiet
<1>3. q \in l + 1 .. Len(s) + 1 /\ \A x \in l + 1 .. q - 1 : x \in k + 1 .. q - 1
  BY <1>1, <1>2
<1> QED BY <1>1, <1>3 DEF ReadsTo

LEMMA LooseBefore ==
  ASSUME NEW s \in Seq(Symbol), NEW k \in Nat, NEW p \in Nat, k < p, p + 1 <= Len(s),
         s[p] = "quote", Quiet(s, k + 1, p - 1), s[p + 1] \in Texts
  PROVE  Loose(s, k)
<1>1. p <= Len(s) /\ p + 1 \in 1 .. Len(s)
  OBVIOUS
<1>2. ASSUME NEW q, ReadsTo(s, k, q) PROVE OutOfStep(s, q)
  <2>1. q = p
    BY <1>1, <1>2, NextQuote
  <2> QED BY <1>1, <2>1 DEF OutOfStep
<1> QED BY <1>2 DEF Loose

LEMMA LooseAtEnd ==
  ASSUME NEW s \in Seq(Symbol), NEW k \in Nat, k <= Len(s), Quiet(s, k + 1, Len(s))
  PROVE  Loose(s, k)
<1>1. ASSUME NEW q, ReadsTo(s, k, q) PROVE OutOfStep(s, q)
  <2>1. Len(s) \in Nat /\ Len(s) <= Len(s)
    OBVIOUS
  <2>2. ReadsTo(s, Len(s), q)
    BY <1>1, <2>1, ReadsFurther
  <2>3. q = Len(s) + 1
    BY <2>1, <2>2 DEF ReadsTo
  <2> QED BY <2>3 DEF OutOfStep
<1> QED BY <1>1 DEF Loose

LEMMA LooseFurther ==
  ASSUME NEW s \in Seq(Symbol), NEW k \in Nat, NEW l \in Nat, k <= l, l <= Len(s),
         Quiet(s, k + 1, l), Loose(s, l)
  PROVE  Loose(s, k)
<1>1. ASSUME NEW q, ReadsTo(s, k, q) PROVE OutOfStep(s, q)
  BY <1>1, ReadsFurther DEF Loose
<1> QED BY <1>1 DEF Loose

LEMMA WordIsQuiet ==
  ASSUME NEW w, NEW t \in Word, NEW k \in Nat, TextAt(w, k, t)
  PROVE  /\ Quiet(w, k + 1, k + Len(t)) /\ w[k + 1] \in Texts
         /\ \A x \in k + 1 .. k + Len(t) : w[x] \in Texts
<1>1. Len(t) \in Nat /\ Len(t) >= 1 /\ \A x \in 1 .. Len(t) : t[x] \in Texts
  BY WordParts
<1>2. ASSUME NEW x \in k + 1 .. k + Len(t) PROVE w[x] \in Texts /\ w[x] # "quote"
  <2> DEFINE y == x - k
  <2>1. y \in 1 .. Len(t) /\ k + y = x
    BY <1>1
  <2> HIDE DEF y
  <2>2. w[k + y] = t[y] /\ t[y] \in Texts
    BY <1>1, <2>1 DEF TextAt
  <2> QED BY <2>1, <2>2, KeywordsAreSymbols
<1>3. k + 1 \in k + 1 .. k + Len(t)
  BY <1>1
<1> QED BY <1>2, <1>3 DEF Quiet

\* Who takes the end of a section's name or of an address for its beginning
\* comes to a quote with a text behind it, and so does who does this with the
\* name of a feed.
LEMMA FeedIsLoose ==
  ASSUME written \in Written, NEW i \in 1 .. Len(written), NEW j \in 0 .. Len(written[i].m_feeds)
  PROVE  Loose(Write(written), FeedEnd(written, i, j))
<1> DEFINE w == Write(written)
           n == Len(written[i].m_feeds)
           k == FeedEnd(written, i, j)
<1>1. w \in Seq(Symbol) /\ Len(w) \in Nat /\ n \in Nat /\ Len(written) \in Nat /\ j \in 0 .. n
  BY WrittenIsMedia, SectionEnds
<1>2. CASE j < n
  <2> DEFINE h == j + 1
  <2>1. h \in 1 .. n /\ h - 1 = j
    BY <1>1, <1>2
  <2> DEFINE t == written[i].m_feeds[h].m_feed_name
             l == Len(t)
             u == Len(written[i].m_feeds[h].m_feed_address)
             a == AddressStart(written, i, h)
             e == FeedEnd(written, i, h)
  <2> HIDE DEF h
  <2>2. /\ FeedEnd(written, i, h - 1) = k /\ k \in Nat /\ t \in Word /\ l \in Nat /\ u \in Nat
        /\ a = k + 1 + l + 1 + 2 /\ e = a + u + 1 /\ e < Len(w)
        /\ w[k + 1] = "quote" /\ TextAt(w, k + 1, t)
    BY <2>1, FeedAhead
  <2> HIDE DEF k, l, u, a, e, w, t
  <2>7. /\ k \in Nat /\ l \in Nat /\ u \in Nat /\ a = k + 1 + l + 1 + 2 /\ e = a + u + 1
        /\ e < Len(w) /\ Len(w) \in Nat
    BY <1>1, <2>2
  <2>3. k + 1 \in Nat /\ k < k + 1 /\ k + 1 + 1 <= Len(w)
    BY <2>7
  <2>4. w[k + 1 + 1] \in Texts
    BY <2>2, <2>3, WordIsQuiet
  <2>5. Quiet(w, k + 1, k + 1 - 1)
    BY <2>2 DEF Quiet
  <2>6. Loose(w, k)
    BY <1>1, <2>2, <2>3, <2>4, <2>5, LooseBefore
  <2> QED BY <2>6 DEF w, k
<1>3. CASE j = n
  <2>1. k \in Nat /\ w[k + 1] = "end" /\ SectionEnd(written, i) = k + 1 /\ k + 1 <= Len(w)
    BY <1>3, EndAhead
  <2>2. CASE i = Len(written)
    <3>1. SectionEnd(written, Len(written)) = Len(w)
      BY WrittenParts, SectionEnds
    <3>2. k + 1 = Len(w)
      BY <2>1, <2>2, <3>1
    <3> HIDE DEF k, w
    <3>3. Quiet(w, k + 1, Len(w)) /\ k <= Len(w)
      BY <2>1, <3>2 DEF Quiet
    <3>4. Loose(w, k)
      BY <1>1, <2>1, <3>3, LooseAtEnd
    <3> QED BY <3>4 DEF w, k
  <2>3. CASE i < Len(written)
    <3> DEFINE t == written[i + 1].m_media_name
               l == Len(t)
               o == SectionEnd(written, i)
               e == FeedEnd(written, i + 1, 0)
    <3>1. i \in 0 .. Len(written)
      BY <1>1
    <3>2. /\ o \in Nat /\ t \in Word /\ l \in Nat /\ e = o + 2 + l + 1 /\ e < Len(w)
          /\ w[o + 1] = "section" /\ w[o + 2] = "quote" /\ TextAt(w, o + 2, t)
      BY <2>3, <3>1, SectionAhead
    <3>3. o = k + 1
      BY <2>1
    <3> HIDE DEF k, w, l, o, e
    <3>4. /\ k + 3 \in Nat /\ k < k + 3 /\ k + 3 + 1 <= Len(w) /\ o + 2 = k + 3 /\ o + 1 = k + 2
      BY <1>1, <2>1, <3>2, <3>3
    <3>5. w[k + 3 + 1] \in Texts
      BY <3>2, <3>4, WordIsQuiet
    <3>6. Quiet(w, k + 1, k + 3 - 1)
      <4>1. ASSUME NEW x \in k + 1 .. k + 3 - 1 PROVE x = k + 1 \/ x = k + 2
        BY <2>1
      <4> QED BY <2>1, <3>2, <3>4, <4>1 DEF Quiet
    <3>7. w[k + 3] = "quote"
      BY <3>2, <3>4
    <3>8. Loose(w, k)
      BY <1>1, <2>1, <3>4, <3>5, <3>6, <3>7, LooseBefore
    <3> QED BY <3>8 DEF w, k
  <2> QED BY <1>1, <2>2, <2>3
<1> QED BY <1>1, <1>2, <1>3

LEMMA NameIsLoose ==
  ASSUME written \in Written, NEW i \in 1 .. Len(written), NEW j \in 1 .. Len(written[i].m_feeds)
  PROVE  Loose(Write(written), AddressStart(written, i, j) - 2)
<1> DEFINE w == Write(written)
           t == written[i].m_feeds[j].m_feed_address
           l == Len(t)
           a == AddressStart(written, i, j)
           n == Len(written[i].m_feeds[j].m_feed_name)
           k == FeedEnd(written, i, j - 1)
           e == FeedEnd(written, i, j)
           c == a - 2
<1>1. w \in Seq(Symbol) /\ Len(w) \in Nat
  BY WrittenIsMedia, SectionEnds
<1>2. /\ k \in Nat /\ t \in Word /\ l \in Nat /\ n \in Nat /\ a = k + 1 + n + 1 + 2
      /\ e = a + l + 1 /\ e < Len(w)
      /\ w[k + 1 + n + 1 + 1] = "=" /\ w[k + 1 + n + 1 + 2] = "quote" /\ TextAt(w, a, t)
  BY FeedAhead
<1> HIDE DEF w, t, l, a, n, k, e
<1>3. /\ c \in Nat /\ c + 2 = a /\ c + 1 = k + 1 + n + 1 + 1 /\ a \in Nat /\ c < a
      /\ a + 1 <= Len(w) /\ a - 1 = c + 1
  BY <1>1, <1>2
<1> HIDE DEF c
<1>4. w[a + 1] \in Texts
  BY <1>2, <1>3, WordIsQuiet
<1>5. Quiet(w, c + 1, a - 1)
  <2>1. ASSUME NEW x \in c + 1 .. a - 1 PROVE x = c + 1
    BY <1>3
  <2>2. w[c + 1] # "quote"
    BY <1>2, <1>3
  <2> QED BY <2>1, <2>2 DEF Quiet
<1>6. w[a] = "quote"
  BY <1>2
<1>7. Loose(w, c)
  BY <1>1, <1>3, <1>4, <1>5, <1>6, LooseBefore
<1> QED BY <1>7 DEF w, c, a

\* Behind the damage the file is shifted by one.
LEMMA QuoteShift ==
  ASSUME NEW s, NEW w, NEW d, Harmed(s, w, d), d.kind = "quote",
         NEW k \in Nat, d.at <= k, k <= Len(s), Loose(w, k - 1)
  PROVE  Loose(s, k)
<1> DEFINE at == d.at
           n == Len(w)
<1>1. /\ s \in Seq(Symbol) /\ Len(s) = n + 1 /\ n \in Nat /\ at \in 1 .. n + 1
      /\ \A x \in at + 1 .. Len(s) : s[x] = w[x - 1]
  BY DEF Harmed
<1>2. at <= k
  OBVIOUS
<1> HIDE DEF at, n
<1>3. ASSUME NEW q, ReadsTo(s, k, q) PROVE OutOfStep(s, q)
  <2>1. /\ q \in k + 1 .. Len(s) + 1 /\ \A x \in k + 1 .. q - 1 : s[x] # "quote"
        /\ q <= Len(s) => s[q] = "quote"
    BY <1>3 DEF ReadsTo
  <2> DEFINE r == q - 1
             l == k - 1
  <2>2. /\ r \in l + 1 .. n + 1 /\ r + 1 = q /\ q \in at + 1 .. n + 2 /\ l \in Nat /\ r \in Nat
        /\ l + 1 = k /\ r \in at .. n + 1
    BY <1>1, <1>2, <2>1
  <2> HIDE DEF r, l
  <2>3. ASSUME NEW x \in l + 1 .. r - 1 PROVE w[x] # "quote"
    <3> DEFINE y == x + 1
    <3>1. y \in k + 1 .. q - 1 /\ y \in at + 1 .. Len(s) /\ y - 1 = x
      BY <1>1, <1>2, <2>2
    <3> HIDE DEF y
    <3>2. s[y] = w[y - 1] /\ s[y] # "quote"
      BY <1>1, <2>1, <3>1
    <3> QED BY <3>1, <3>2
  <2>4. r <= n => w[r] = "quote"
    <3>1. SUFFICES ASSUME r <= n PROVE w[r] = "quote"
      OBVIOUS
    <3>2. q \in at + 1 .. Len(s) /\ q <= Len(s) /\ q - 1 = r
      BY <1>1, <2>2, <3>1
    <3>3. s[q] = w[q - 1] /\ s[q] = "quote"
      BY <1>1, <2>1, <3>2
    <3> QED BY <3>2, <3>3
  <2>5. ReadsTo(w, l, r)
    BY <2>2, <2>3, <2>4 DEF ReadsTo, n
  <2>6. OutOfStep(w, r)
    BY <2>5 DEF Loose, l
  <2>7. CASE r = n + 1
    <3>1. q = Len(s) + 1
      BY <1>1, <2>2, <2>7
    <3> QED BY <3>1 DEF OutOfStep
  <2>8. CASE r + 1 \in 1 .. n /\ w[r + 1] \in Texts
    <3> DEFINE y == q + 1
    <3>1. y \in at + 1 .. Len(s) /\ y \in 1 .. Len(s) /\ y - 1 = r + 1
      BY <1>1, <2>2, <2>8
    <3> HIDE DEF y
    <3>2. s[y] = w[y - 1]
      BY <1>1, <3>1
    <3>3. s[y] \in Texts
      BY <2>8, <3>1, <3>2
    <3> QED BY <3>1, <3>3 DEF OutOfStep, y
  <2> QED BY <2>6, <2>7, <2>8 DEF OutOfStep, n
<1> QED BY <1>3 DEF Loose

LEMMA DropShift ==
  ASSUME NEW s, NEW w, NEW d, Harmed(s, w, d), d.kind = "drop",
         NEW k \in Nat, d.at <= k + 1, k <= Len(s), Loose(w, k + 1)
  PROVE  Loose(s, k)
<1> DEFINE at == d.at
           n == Len(w)
<1>1. /\ s \in Seq(Symbol) /\ Len(s) = n - 1 /\ n \in Nat /\ at \in 1 .. n
      /\ \A x \in at .. Len(s) : s[x] = w[x + 1]
  BY DEF Harmed
<1>2. at <= k + 1
  OBVIOUS
<1> HIDE DEF at, n
<1>3. ASSUME NEW q, ReadsTo(s, k, q) PROVE OutOfStep(s, q)
  <2>1. /\ q \in k + 1 .. Len(s) + 1 /\ \A x \in k + 1 .. q - 1 : s[x] # "quote"
        /\ q <= Len(s) => s[q] = "quote"
    BY <1>3 DEF ReadsTo
  <2> DEFINE r == q + 1
             l == k + 1
  <2>2. /\ r \in l + 1 .. n + 1 /\ r - 1 = q /\ q \in at .. n /\ l \in Nat /\ r \in Nat
        /\ q \in k + 1 .. n
    BY <1>1, <1>2, <2>1
  <2> HIDE DEF r
  <2>3. ASSUME NEW x \in l + 1 .. r - 1 PROVE w[x] # "quote"
    <3> DEFINE y == x - 1
    <3>1. y \in k + 1 .. q - 1 /\ y \in at .. Len(s) /\ y + 1 = x
      BY <1>1, <1>2, <2>2
    <3> HIDE DEF y
    <3>2. s[y] = w[y + 1] /\ s[y] # "quote"
      BY <1>1, <2>1, <3>1
    <3> QED BY <3>1, <3>2
  <2>4. r <= n => w[r] = "quote"
    <3>1. SUFFICES ASSUME r <= n PROVE w[r] = "quote"
      OBVIOUS
    <3>2. q \in at .. Len(s) /\ q <= Len(s) /\ q + 1 = r
      BY <1>1, <2>2, <3>1
    <3>3. s[q] = w[q + 1] /\ s[q] = "quote"
      BY <1>1, <2>1, <3>2
    <3> QED BY <3>2, <3>3
  <2> HIDE DEF l
  <2>5. ReadsTo(w, l, r)
    BY <2>2, <2>3, <2>4 DEF ReadsTo, n
  <2>6. OutOfStep(w, r)
    BY <2>5 DEF Loose, l
  <2>7. CASE r = n + 1
    <3>1. q = Len(s) + 1
      BY <1>1, <2>2, <2>7
    <3> QED BY <3>1 DEF OutOfStep
  <2>8. CASE r + 1 \in 1 .. n /\ w[r + 1] \in Texts
    <3> DEFINE y == q + 1
    <3>1. y \in at .. Len(s) /\ y \in 1 .. Len(s) /\ y + 1 = r + 1
      BY <1>1, <2>2, <2>8
    <3> HIDE DEF y
    <3>2. s[y] = w[y + 1]
      BY <1>1, <3>1
    <3>3. s[y] \in Texts
      BY <2>8, <3>1, <3>2
    <3> QED BY <3>1, <3>3 DEF OutOfStep, y
  <2> QED BY <2>6, <2>7, <2>8 DEF OutOfStep, n
<1> QED BY <1>3 DEF Loose

LEMMA SameRest ==
  ASSUME NEW s, NEW w \in Seq(Symbol), NEW d, Harmed(s, w, d), d.kind = "drop",
         NEW k \in Nat, d.at <= k + 1, k <= Len(s)
  PROVE  From(s, k + 1) = From(w, k + 1 + 1) /\ k + 1 \in 0 .. Len(w)
<1> DEFINE at == d.at
           n == Len(w)
           l == k + 1
           a == From(s, k + 1)
           b == From(w, l + 1)
<1>1. /\ s \in Seq(Symbol) /\ Len(s) = n - 1 /\ n \in Nat /\ at \in 1 .. n
      /\ \A x \in at .. Len(s) : s[x] = w[x + 1]
  BY DEF Harmed
<1>2. at <= k + 1 /\ k \in 0 .. Len(s)
  OBVIOUS
<1> HIDE DEF at, n
<1>3. l \in 0 .. Len(w)
  BY <1>1, <1>2 DEF n
<1>4. a \in Seq(Symbol) /\ Len(a) = Len(s) - k /\ \A x \in 1 .. Len(s) - k : a[x] = s[k + x]
  <2>1. s \in Seq(Symbol) /\ k \in 0 .. Len(s)
    BY <1>1, <1>2
  <2> QED BY <2>1, FromIs
<1>5. b \in Seq(Symbol) /\ Len(b) = Len(w) - l /\ \A x \in 1 .. Len(w) - l : b[x] = w[l + x]
  <2> HIDE DEF l
  <2> QED BY <1>3, FromIs
<1> HIDE DEF a, b
<1>6. Len(w) = n /\ Len(w) - l = Len(s) - k
  BY <1>1, <1>2 DEF n
<1>7. ASSUME NEW x \in 1 .. Len(a) PROVE a[x] = b[x]
  <2> DEFINE y == k + x
  <2>1. x \in 1 .. Len(s) - k /\ x \in 1 .. Len(w) - l /\ y \in at .. Len(s) /\ y + 1 = l + x
    BY <1>1, <1>2, <1>4, <1>6
  <2>2. a[x] = s[y] /\ b[x] = w[l + x]
    BY <1>4, <1>5, <2>1
  <2> HIDE DEF y
  <2>3. s[y] = w[y + 1]
    BY <1>1, <2>1
  <2> QED BY <2>1, <2>2, <2>3
<1>8. a = b
  <2>1. Len(a) = Len(b)
    BY <1>4, <1>5, <1>6
  <2> QED BY <1>4, <1>5, <1>7, <2>1, SeqEqual
<1> QED BY <1>3, <1>8 DEF a, b, l

\* What becomes of a word when the damage is in it or in the quote at its end:
\* a quote that is behind it no more, the word less one symbol, or a quote more.
Shortened(s, w, d, p, q) ==
  d.kind = "drop" /\ d.at \in 1 .. Len(w) /\ w[d.at] \in Texts /\ d.at < p /\ q = p - 1 /\ q <= Len(s)
Doubled(s, q) == q <= Len(s) /\ Has(s, q + 1, "quote") /\ Loose(s, q + 1)

LEMMA CutWord ==
  ASSUME NEW s, NEW w, NEW d, Harmed(s, w, d), d.kind = "cut",
         NEW t \in Word, NEW o \in Nat, NEW p \in Nat, p = o + Len(t) + 1,
         TextAt(w, o, t), o < d.at, d.at <= p
  PROVE  Loose(s, o)
<1> DEFINE at == d.at
           n == Len(s)
<1>1. /\ s \in Seq(Symbol) /\ n \in Nat /\ n = at - 1 /\ at \in Nat
      /\ \A x \in 1 .. at - 1 : s[x] = w[x]
  BY DEF Harmed
<1>2. o < at /\ at <= p /\ Len(t) \in Nat
  BY WordParts
<1>3. \A x \in o + 1 .. o + Len(t) : w[x] # "quote"
  BY WordIsQuiet DEF Quiet
<1> HIDE DEF at, n
<1>4. ASSUME NEW x \in o + 1 .. n PROVE s[x] # "quote"
  <2>1. x \in o + 1 .. o + Len(t) /\ x \in 1 .. at - 1
    BY <1>1, <1>2
  <2> QED BY <1>1, <1>3, <2>1
<1>5. Quiet(s, o + 1, Len(s)) /\ o <= Len(s)
  BY <1>1, <1>2, <1>4 DEF Quiet, n
<1> QED BY <1>1, <1>5, LooseAtEnd

LEMMA QuoteInWord ==
  ASSUME NEW s, NEW w, NEW d, Harmed(s, w, d), d.kind = "quote",
         NEW t \in Word, NEW o \in Nat, NEW p \in Nat, p = o + Len(t) + 1, p <= Len(w),
         TextAt(w, o, t), o < d.at, d.at < p
  PROVE  Loose(s, o)
<1> DEFINE at == d.at
           n == Len(w)
           l == Len(t)
<1>1. /\ s \in Seq(Symbol) /\ n \in Nat /\ Len(s) = n + 1 /\ at \in Nat
      /\ s[at] = "quote" /\ \A x \in 1 .. at - 1 : s[x] = w[x]
      /\ \A x \in at + 1 .. Len(s) : s[x] = w[x - 1]
  BY DEF Harmed
<1>2. o < at /\ at < p /\ l \in Nat /\ p = o + l + 1 /\ p <= n
  BY WordParts
<1>3. \A x \in o + 1 .. o + l : w[x] # "quote" /\ w[x] \in Texts
  BY WordIsQuiet DEF Quiet
<1> HIDE DEF at, n, l
<1>4. ASSUME NEW x \in o + 1 .. at - 1 PROVE s[x] # "quote"
  <2>1. x \in o + 1 .. o + l /\ x \in 1 .. at - 1
    BY <1>1, <1>2
  <2> QED BY <1>1, <1>3, <2>1
<1>5. Quiet(s, o + 1, at - 1)
  BY <1>4 DEF Quiet
<1>6. s[at + 1] \in Texts
  <2> DEFINE y == at + 1
  <2>1. y \in at + 1 .. Len(s) /\ y - 1 = at /\ at \in o + 1 .. o + l
    BY <1>1, <1>2
  <2> HIDE DEF y
  <2>2. s[y] = w[y - 1]
    BY <1>1, <2>1
  <2>3. s[y] \in Texts
    BY <1>3, <2>1, <2>2
  <2> QED BY <2>3 DEF y
<1>7. at + 1 <= Len(s) /\ o < at
  BY <1>1, <1>2
<1> QED BY <1>1, <1>5, <1>6, <1>7, LooseBefore

LEMMA QuoteBehindWord ==
  ASSUME NEW s, NEW w, NEW d, Harmed(s, w, d), d.kind = "quote",
         NEW t \in Word, NEW o \in Nat, NEW p \in Nat, p = o + Len(t) + 1, p <= Len(w),
         TextAt(w, o, t), w[p] = "quote", d.at = p, Loose(w, p), NEW q, ReadsTo(s, o, q)
  PROVE  q = p /\ Doubled(s, q) /\ SubSeq(s, o + 1, q - 1) = t
<1> DEFINE n == Len(w)
           l == Len(t)
           at == Len(s) + 1
<1>1. /\ s \in Seq(Symbol) /\ n \in Nat /\ Len(s) = n + 1
      /\ s[p] = "quote" /\ \A x \in 1 .. p - 1 : s[x] = w[x]
      /\ \A x \in p + 1 .. Len(s) : s[x] = w[x - 1]
  BY DEF Harmed
<1>2. l \in Nat /\ p = o + l + 1 /\ p <= n
  BY WordParts
<1>3. \A x \in 1 .. l : w[o + x] = t[x]
  BY DEF TextAt
<1> HIDE DEF n, l
<1>4. ASSUME NEW x \in 1 .. l PROVE s[o + x] = t[x]
  <2>1. o + x \in 1 .. p - 1
    BY <1>2
  <2> QED BY <1>1, <1>3, <2>1
<1>5. TextAt(s, o, t)
  BY <1>4 DEF TextAt, l
<1>6. Agrees(s, s, at) /\ p < at
  BY <1>1, <1>2 DEF Agrees
<1> HIDE DEF at
<1>7. q = p /\ SubSeq(s, o + 1, q - 1) = t /\ q <= Len(s)
  BY <1>1, <1>5, <1>6, WordIsRead
<1> DEFINE k == p + 1
<1>8. k \in Nat /\ k - 1 = p /\ d.at <= k /\ k <= Len(s) /\ k \in p + 1 .. Len(s)
  BY <1>1, <1>2
<1> HIDE DEF k
<1>9. Loose(s, k)
  BY <1>8, QuoteShift
<1>10. Has(s, k, "quote")
  BY <1>1, <1>8 DEF Has
<1> QED BY <1>7, <1>9, <1>10 DEF Doubled, k

LEMMA DropInWord ==
  ASSUME NEW s, NEW w, NEW d, Harmed(s, w, d), d.kind = "drop",
         NEW t \in Word, NEW o \in Nat, NEW p \in Nat, p = o + Len(t) + 1, p <= Len(w),
         TextAt(w, o, t), w[p] = "quote", o < d.at, d.at < p, NEW q, ReadsTo(s, o, q)
  PROVE  Shortened(s, w, d, p, q)
<1> DEFINE at == d.at
           n == Len(w)
           l == Len(t)
           r == p - 1
<1>1. /\ s \in Seq(Symbol) /\ n \in Nat /\ Len(s) = n - 1 /\ at \in Nat
      /\ \A x \in 1 .. at - 1 : s[x] = w[x]
      /\ \A x \in at .. Len(s) : s[x] = w[x + 1]
  BY DEF Harmed
<1>2. o < at /\ at < p /\ l \in Nat /\ l >= 1 /\ p = o + l + 1 /\ p <= n
  BY WordParts
<1>3. \A x \in o + 1 .. o + l : w[x] # "quote" /\ w[x] \in Texts
  BY WordIsQuiet DEF Quiet
<1> HIDE DEF at, n, l
<1>4. r \in Nat /\ o < r /\ r <= Len(s) /\ r \in at .. Len(s) /\ r + 1 = p
  BY <1>1, <1>2
<1> HIDE DEF r
<1>5. ASSUME NEW x \in o + 1 .. r - 1 PROVE s[x] # "quote"
  <2>1. CASE x < at
    <3>1. x \in o + 1 .. o + l /\ x \in 1 .. at - 1
      BY <1>1, <1>2, <2>1
    <3> QED BY <1>1, <1>3, <3>1
  <2>2. CASE ~(x < at)
    <3> DEFINE y == x + 1
    <3>1. y \in o + 1 .. o + l /\ x \in at .. Len(s)
      BY <1>1, <1>2, <1>4, <2>2
    <3> HIDE DEF y
    <3>2. s[x] = w[y]
      BY <1>1, <3>1 DEF y
    <3> QED BY <1>3, <3>1, <3>2
  <2> QED BY <2>1, <2>2
<1>6. Quiet(s, o + 1, r - 1)
  BY <1>5 DEF Quiet
<1>7. s[r] = "quote"
  BY <1>1, <1>4
<1>8. q = r
  BY <1>1, <1>4, <1>6, <1>7, NextQuote
<1>9. at \in o + 1 .. o + l /\ at \in 1 .. n
  BY <1>1, <1>2
<1>10. w[at] \in Texts
  BY <1>3, <1>9
<1>11. q = p - 1 /\ q <= Len(s) /\ at < p
  BY <1>2, <1>4, <1>8
<1> QED BY <1>9, <1>10, <1>11 DEF Shortened, at, n

LEMMA DropBehindWord ==
  ASSUME NEW s, NEW w, NEW d, Harmed(s, w, d), d.kind = "drop",
         NEW t \in Word, NEW o \in Nat, NEW p \in Nat, p = o + Len(t) + 1, p <= Len(w),
         TextAt(w, o, t), d.at = p, Loose(w, p)
  PROVE  Loose(s, o)
<1> DEFINE n == Len(w)
           l == Len(t)
           r == p - 1
<1>1. /\ s \in Seq(Symbol) /\ n \in Nat /\ Len(s) = n - 1
      /\ \A x \in 1 .. p - 1 : s[x] = w[x]
  BY DEF Harmed
<1>2. l \in Nat /\ p = o + l + 1 /\ p <= n
  BY WordParts
<1>3. \A x \in o + 1 .. o + l : w[x] # "quote"
  BY WordIsQuiet DEF Quiet
<1> HIDE DEF n, l
<1>4. r \in Nat /\ o <= r /\ r <= Len(s) /\ r + 1 = p /\ r = o + l /\ d.at <= r + 1
  BY <1>1, <1>2
<1>5. ASSUME NEW x \in o + 1 .. r PROVE s[x] # "quote"
  <2>1. x \in o + 1 .. o + l /\ x \in 1 .. p - 1
    BY <1>2, <1>4
  <2> QED BY <1>1, <1>3, <2>1
<1> HIDE DEF r
<1>6. Quiet(s, o + 1, r)
  BY <1>5 DEF Quiet
<1>7. Loose(s, r)
  BY <1>4, DropShift
<1> QED BY <1>1, <1>4, <1>6, <1>7, LooseFurther

LEMMA DamagedWord ==
  ASSUME NEW s, NEW w, NEW d, Harmed(s, w, d),
         NEW t \in Word, NEW o \in Nat, NEW p \in Nat, p = o + Len(t) + 1, p <= Len(w),
         TextAt(w, o, t), w[p] = "quote", o < d.at, d.at <= p, Loose(w, p),
         NEW q, ReadsTo(s, o, q)
  PROVE  \/ OutOfStep(s, q)
         \/ Shortened(s, w, d, p, q)
         \/ q = p /\ Doubled(s, q) /\ SubSeq(s, o + 1, q - 1) = t
<1>1. /\ d.kind \in {"none", "cut", "drop", "quote"} /\ d.at \in Nat /\ Len(w) \in Nat
      /\ d.kind = "none" => d.at = Len(w) + 1
  BY DEF Harmed
<1>2. d.kind # "none" /\ (d.at < p \/ d.at = p)
  BY <1>1
<1>3. Loose(s, o) => OutOfStep(s, q)
  BY DEF Loose
<1>4. CASE d.kind = "cut"
  BY <1>3, <1>4, CutWord
<1>5. CASE d.kind = "quote"
  BY <1>2, <1>3, <1>5, QuoteInWord, QuoteBehindWord
<1>6. CASE d.kind = "drop"
  BY <1>2, <1>3, <1>6, DropInWord, DropBehindWord
<1> QED BY <1>1, <1>2, <1>4, <1>5, <1>6

-----------------------------------------------------------------------------
(* How many sections and feeds there are *)

FeedsIn(i) == IF i = 0 THEN 0 ELSE Len(written[i].m_feeds)

LEMMA SectionCounts ==
  ASSUME NEW medias \in Seq(Media), NEW m, m.m_feeds = <<>>, NEW i \in Nat,
         Counts(medias, i, FeedsIn(i))
  PROVE  Counts(Append(medias, m), i + 1, 0)
<1> DEFINE t == Append(medias, m)
           a == i + 1
<1>1. /\ Len(medias) = i
      /\ \A x \in 1 .. i : Len(medias[x].m_feeds) = IF x = i THEN FeedsIn(i) ELSE Len(written[x].m_feeds)
  BY DEF Counts
<1>2. Len(t) = a /\ t[a] = m /\ \A x \in 1 .. i : t[x] = medias[x]
  BY <1>1
<1>3. a \in Nat /\ i = a - 1
  OBVIOUS
<1> HIDE DEF t, a
<1>4. ASSUME NEW x \in 1 .. a PROVE Len(t[x].m_feeds) = IF x = a THEN 0 ELSE Len(written[x].m_feeds)
  <2>1. CASE x = a
    <3>1. Len(<<>>) = 0
      OBVIOUS
    <3> QED BY <1>2, <2>1, <3>1
  <2>2. CASE x # a
    <3>1. x \in 1 .. i /\ x # 0
      BY <1>3, <2>2
    <3>2. x = i => FeedsIn(i) = Len(written[x].m_feeds)
      BY <3>1 DEF FeedsIn
    <3>3. t[x] = medias[x]
      BY <1>2, <3>1
    <3>4. Len(medias[x].m_feeds) = IF x = i THEN FeedsIn(i) ELSE Len(written[x].m_feeds)
      BY <1>1, <3>1
    <3> QED BY <2>2, <3>2, <3>3, <3>4
  <2> QED BY <2>1, <2>2
<1>5. Counts(t, a, 0)
  BY <1>2, <1>4 DEF Counts
<1> QED BY <1>5 DEF t, a

LEMMA LastCounts ==
  ASSUME NEW medias \in Seq(Media), medias # <<>>, NEW m \in Media, NEW i, NEW c,
         Counts(medias, i, c)
  PROVE  /\ Counts(Append(Front(medias), m), i, Len(m.m_feeds))
         /\ Len(Last(medias).m_feeds) = c /\ i \in Nat /\ i >= 1
<1> DEFINE t == Append(Front(medias), m)
<1>1. /\ Len(medias) = i
      /\ \A x \in 1 .. i : Len(medias[x].m_feeds) = IF x = i THEN c ELSE Len(written[x].m_feeds)
  BY DEF Counts
<1>2. i \in Nat /\ i >= 1 /\ Last(medias) = medias[i]
  BY <1>1, FrontAndLast DEF Last
<1>3. Len(t) = i /\ t[i] = m /\ \A x \in 1 .. i - 1 : t[x] = medias[x]
  BY <1>1, LastReplaced
<1> HIDE DEF t
<1>4. ASSUME NEW x \in 1 .. i
      PROVE  Len(t[x].m_feeds) = IF x = i THEN Len(m.m_feeds) ELSE Len(written[x].m_feeds)
  <2>1. CASE x = i
    BY <1>3, <2>1
  <2>2. CASE x # i
    <3>1. x \in 1 .. i - 1
      BY <1>2, <2>2
    <3>2. t[x] = medias[x]
      BY <1>3, <3>1
    <3>3. Len(medias[x].m_feeds) = Len(written[x].m_feeds)
      BY <1>1, <2>2
    <3> QED BY <2>2, <3>2, <3>3
  <2> QED BY <2>1, <2>2
<1>5. Counts(t, i, Len(m.m_feeds))
  BY <1>3, <1>4 DEF Counts
<1>6. i \in 1 .. i
  BY <1>2
<1>7. Len(Last(medias).m_feeds) = c
  BY <1>1, <1>2, <1>6
<1> QED BY <1>2, <1>5, <1>7 DEF t

LEMMA FeedCounts ==
  ASSUME NEW medias \in Seq(Media), medias # <<>>, NEW name \in Seq(Symbol), NEW i, NEW c,
         Counts(medias, i, c)
  PROVE  Counts(WithFeed(medias, name), i, c + 1)
<1> DEFINE m == Last(medias)
           fs == Append(m.m_feeds, NewFeed(name))
           n == MediaOf(m.m_media_name, fs)
<1>1. WithFeed(medias, name) = Append(Front(medias), n) /\ n \in Media
  BY WithFeedIs
<1>2. n.m_feeds = fs
  BY DEF MediaOf
<1>3. m \in Media
  BY FrontAndLast
<1> HIDE DEF n
<1>4. Counts(Append(Front(medias), n), i, Len(n.m_feeds)) /\ Len(m.m_feeds) = c
  BY <1>1, LastCounts
<1> HIDE DEF m
<1>5. m.m_feeds \in Seq(Feed)
  BY <1>3, MediaFields
<1>6. Len(fs) = Len(m.m_feeds) + 1
  BY <1>5
<1> QED BY <1>1, <1>2, <1>4, <1>6

LEMMA AddressCounts ==
  ASSUME NEW medias \in Seq(Media), medias # <<>>, Last(medias).m_feeds # <<>>,
         NEW address \in Seq(Symbol), NEW i, NEW c, Counts(medias, i, c)
  PROVE  Counts(WithAddress(medias, address), i, c)
<1> DEFINE m == Last(medias)
           f == [m_feed_name |-> Last(m.m_feeds).m_feed_name, m_feed_address |-> address]
           fs == Append(Front(m.m_feeds), f)
           n == MediaOf(m.m_media_name, fs)
<1>1. WithAddress(medias, address) = Append(Front(medias), n) /\ n \in Media /\ f \in Feed
  BY WithAddressIs
<1>2. n.m_feeds = fs
  BY DEF MediaOf
<1>3. m \in Media /\ m.m_feeds # <<>>
  BY FrontAndLast
<1> HIDE DEF n, f
<1>4. Counts(Append(Front(medias), n), i, Len(n.m_feeds)) /\ Len(m.m_feeds) = c
  BY <1>1, LastCounts
<1> HIDE DEF m
<1>5. m.m_feeds \in Seq(Feed)
  BY <1>3, MediaFields
<1> DEFINE g == m.m_feeds
<1>6. g \in Seq(Feed) /\ g # <<>>
  BY <1>3, <1>5
<1>7. Len(fs) = Len(g)
  <2> HIDE DEF g
  <2>1. Front(g) \in Seq(Feed) /\ Len(Front(g)) = Len(g) - 1 /\ Len(g) \in Nat
    BY <1>6, FrontAndLast
  <2>2. Len(Append(Front(g), f)) = Len(Front(g)) + 1
    BY <1>1, <2>1
  <2>3. Len(Append(Front(g), f)) = Len(g)
    BY <2>1, <2>2
  <2> QED BY <2>3 DEF g
<1> QED BY <1>1, <1>2, <1>4, <1>7

LEMMA SectionsCount ==
  ASSUME written \in Written, NEW i \in 0 .. Len(written)
  PROVE  Counts(SubSeq(written, 1, i), i, FeedsIn(i))
<1>1. written \in Seq(Media) /\ Len(written) \in Nat
  BY WrittenIsMedia
<1> DEFINE t == SubSeq(written, 1, i)
<1>2. Len(t) = i /\ \A x \in 1 .. i : t[x] = written[x]
  BY <1>1
<1> HIDE DEF t
<1>3. ASSUME NEW x \in 1 .. i
      PROVE  Len(t[x].m_feeds) = IF x = i THEN FeedsIn(i) ELSE Len(written[x].m_feeds)
  <2>1. x # 0 /\ t[x] = written[x]
    BY <1>2
  <2> QED BY <2>1 DEF FeedsIn
<1> QED BY <1>2, <1>3 DEF Counts, t

LEMMA PartCounts ==
  ASSUME written \in Written, NEW i \in 1 .. Len(written), NEW feeds \in Seq(Feed)
  PROVE  Counts(ReadUpTo(i, feeds), i, Len(feeds))
<1> DEFINE t == ReadUpTo(i, feeds)
<1>1. /\ Len(t) = i /\ t[i] = MediaOf(written[i].m_media_name, feeds)
      /\ \A x \in 1 .. i - 1 : t[x] = written[x]
  BY ReadUpToIs
<1>2. MediaOf(written[i].m_media_name, feeds).m_feeds = feeds
  BY DEF MediaOf
<1> HIDE DEF t
<1>3. ASSUME NEW x \in 1 .. i
      PROVE  Len(t[x].m_feeds) = IF x = i THEN Len(feeds) ELSE Len(written[x].m_feeds)
  <2>1. CASE x = i
    BY <1>1, <1>2, <2>1
  <2>2. CASE x # i
    <3>1. x \in 1 .. i - 1
      BY <2>2
    <3> QED BY <1>1, <2>2, <3>1
  <2> QED BY <2>1, <2>2
<1> QED BY <1>1, <1>3 DEF Counts, t

LEMMA FeedsCount ==
  ASSUME written \in Written, NEW i \in 1 .. Len(written), NEW j \in 0 .. Len(written[i].m_feeds)
  PROVE  Counts(ReadUpTo(i, SubSeq(written[i].m_feeds, 1, j)), i, j)
<1> DEFINE fs == written[i].m_feeds
           p == SubSeq(fs, 1, j)
<1>1. fs \in Seq(Feed) /\ Len(fs) \in Nat /\ j \in 0 .. Len(fs)
  BY WrittenIsMedia
<1>2. p \in Seq(Feed) /\ Len(p) = j
  <2> HIDE DEF fs
  <2> QED BY <1>1
<1> HIDE DEF p
<1>3. Counts(ReadUpTo(i, p), i, Len(p))
  BY <1>2, PartCounts
<1> QED BY <1>2, <1>3 DEF p

LEMMA NamesCount ==
  ASSUME written \in Written, NEW i \in 1 .. Len(written), NEW j \in 1 .. Len(written[i].m_feeds)
  PROVE  Counts(ReadUpTo(i, NameRead(i, j)), i, j)
<1>1. NameRead(i, j) \in Seq(Feed) /\ Len(NameRead(i, j)) = j
  BY NameReadIs
<1>2. Counts(ReadUpTo(i, NameRead(i, j)), i, Len(NameRead(i, j)))
  BY <1>1, PartCounts
<1> QED BY <1>1, <1>2

-----------------------------------------------------------------------------
(* Where the grammar goes from the damage *)

LEMMA LeftIsHarmed ==
  ASSUME TInv
  PROVE  /\ Harmed(Left, File, damage) /\ File \in Seq(Symbol) /\ Left \in Seq(Symbol)
         /\ Len(File) \in Nat /\ Len(Left) \in Nat /\ damage.at \in Nat
         /\ written \in Written /\ Len(written) \in Nat
<1>1. written \in Written /\ damage \in Damages(Write(written))
  BY DEF TInv
<1>2. Harmed(Left, File, damage)
  BY <1>1, FileTyped DEF Left, File
<1> QED BY <1>2, FileIs

\* Where the grammar goes when it has read a name of a section or an address.
ReachesFeeds(q) ==
  /\ q <= Len(Left) => pc' = "feeds" /\ rest' = From(Left, q + 1)
  /\ q > Len(Left) => pc' = "failed" /\ UNCHANGED rest

LEMMA BecomesLost ==
  ASSUME NEW k \in 0 .. Len(Left), rest' = From(Left, k + 1), UNCHANGED <<written, damage>>,
         Only(m_medias'),
         \/ NotFull'
         \/ pc' = "feeds" /\ Good(m_medias') /\ Has(Left, k + 1, "quote") /\ Loose(Left, k + 1)
         \/ pc' = "address" /\ Loose(Left, k)
  PROVE  Lost(k)'
<1>1. Left' = Left /\ written' = written
  BY DEF Left
<1>2. (k \in 0 .. Len(Left))' /\ (rest = From(Left, k + 1))'
  BY <1>1
<1>3. Only(m_medias)'
  BY <1>1 DEF Only
<1>4. Good(m_medias') => Good(m_medias)'
  BY <1>1 DEF Good
<1>5. Has(Left, k + 1, "quote") => Has(Left, k + 1, "quote")'
  BY <1>1
<1>6. Loose(Left, k + 1) => Loose(Left, k + 1)'
  BY <1>1
<1>7. Loose(Left, k) => Loose(Left, k)'
  BY <1>1
<1> QED BY <1>2, <1>3, <1>4, <1>5, <1>6, <1>7 DEF Lost

LEMMA FailingIsLost ==
  ASSUME NEW k \in 0 .. Len(Left), rest = From(Left, k + 1), UNCHANGED <<written, damage>>,
         Only(m_medias'), pc' = "failed", UNCHANGED rest
  PROVE  Lost(k)'
<1>1. NotFull'
  BY DEF NotFull
<1>2. rest' = From(Left, k + 1)
  OBVIOUS
<1> QED BY <1>1, <1>2, BecomesLost

LEMMA FeedsOutOfStep ==
  ASSUME TInv, NEW k \in 0 .. Len(Left), rest = From(Left, k + 1), NEW q \in k + 1 .. Len(Left) + 1,
         ReachesFeeds(q), OutOfStep(Left, q), UNCHANGED <<written, damage>>, Only(m_medias')
  PROVE  \E l : Lost(l)'
<1>1. Left \in Seq(Symbol) /\ Len(Left) \in Nat
  BY LeftIsHarmed
<1>2. CASE q > Len(Left)
  <2>1. Lost(k)'
    BY <1>2, FailingIsLost DEF ReachesFeeds
  <2> QED BY <2>1
<1>3. CASE q <= Len(Left)
  <2>1. pc' = "feeds" /\ rest' = From(Left, q + 1) /\ q \in 0 .. Len(Left)
    BY <1>1, <1>3 DEF ReachesFeeds
  <2>2. Left[q + 1] \in Texts
    BY <1>1, <1>3 DEF OutOfStep
  <2>3. ~Has(Left, q + 1, "quote") /\ ~Has(Left, q + 1, "end")
    BY <2>2, KeywordsAreSymbols DEF Has
  <2>4. /\ IsPrefix(<<"quote">>, From(Left, q + 1)) <=> Has(Left, q + 1, "quote")
        /\ IsPrefix(<<"end">>, From(Left, q + 1)) <=> Has(Left, q + 1, "end")
    BY <1>1, <2>1, OneSymbol
  <2>5. NotFull'
    BY <2>1, <2>3, <2>4 DEF NotFull
  <2>6. Lost(q)'
    BY <2>1, <2>5, BecomesLost
  <2> QED BY <2>6
<1> QED BY <1>1, <1>2, <1>3

LEMMA FeedsDoubled ==
  ASSUME TInv, NEW q \in Nat, ReachesFeeds(q), Doubled(Left, q), UNCHANGED <<written, damage>>,
         Good(m_medias'), Only(m_medias')
  PROVE  \E l : Lost(l)'
<1>1. Left \in Seq(Symbol) /\ Len(Left) \in Nat
  BY LeftIsHarmed
<1>2. /\ pc' = "feeds" /\ rest' = From(Left, q + 1) /\ q \in 0 .. Len(Left)
      /\ Has(Left, q + 1, "quote") /\ Loose(Left, q + 1)
  BY <1>1 DEF ReachesFeeds, Doubled
<1>3. Lost(q)'
  BY <1>2, BecomesLost
<1> QED BY <1>3

LEMMA BecomesInSync ==
  ASSUME NEW k \in 0 .. Len(File), TextLost, rest' = From(File, k + 1), UNCHANGED <<written, damage>>,
         InStep(k)'
  PROVE  InSync(k)'
<1>1. File' = File /\ damage' = damage
  BY DEF File
<1>2. TextLost' /\ (k \in 0 .. Len(File))' /\ (rest = From(File, k + 1))'
  BY <1>1 DEF TextLost
<1> QED BY <1>2 DEF InSync

LEMMA FeedsInSync ==
  ASSUME written \in Written, TextLost, UNCHANGED <<written, damage>>, pc' = "feeds",
         NEW i \in 1 .. Len(written), NEW j \in 0 .. Len(written[i].m_feeds), Counts(m_medias', i, j),
         FeedEnd(written, i, j) \in 0 .. Len(File), rest' = From(File, FeedEnd(written, i, j) + 1)
  PROVE  \E l : InSync(l)'
<1>0. PICK e : e = FeedEnd(written, i, j)
  OBVIOUS
<1>1. Counts(m_medias, i, j)'
  BY DEF Counts
<1>6. FeedEnd(written, i, j)' = e
  BY <1>0 DEF FeedEnd, SectionEnd
<1>2. SyncFeeds(e, i, j)'
  BY <1>1, <1>6 DEF SyncFeeds
<1>3. InStep(e)'
  BY <1>2 DEF InStep
<1>4. e \in 0 .. Len(File) /\ rest' = From(File, e + 1)
  BY <1>0
<1>5. InSync(e)'
  BY <1>3, <1>4, BecomesInSync
<1> QED BY <1>5

LEMMA FeedsShortened ==
  ASSUME TInv, NEW i \in 1 .. Len(written), NEW j \in 0 .. Len(written[i].m_feeds),
         NEW p \in Nat, p >= 1, p = FeedEnd(written, i, j), NEW q, ReachesFeeds(q),
         Shortened(Left, File, damage, p, q), UNCHANGED <<written, damage>>, Counts(m_medias', i, j)
  PROVE  \E l : InSync(l)'
<1>1. /\ Harmed(Left, File, damage) /\ File \in Seq(Symbol) /\ Len(Left) \in Nat /\ damage.at \in Nat
      /\ written \in Written /\ Len(File) \in Nat
  BY LeftIsHarmed
<1>2. /\ TextLost /\ damage.kind = "drop" /\ damage.at < p /\ q = p - 1 /\ q <= Len(Left)
  BY DEF Shortened, TextLost
<1>3. pc' = "feeds" /\ rest' = From(Left, q + 1)
  BY <1>2 DEF ReachesFeeds
<1> DEFINE at == damage.at
<1>4. at \in Nat /\ at < p
  BY <1>1, <1>2
<1> HIDE DEF at
<1>5. q \in Nat /\ at <= q + 1 /\ q + 1 = p
  BY <1>2, <1>4
<1>6. From(Left, q + 1) = From(File, q + 1 + 1) /\ q + 1 \in 0 .. Len(File)
  BY <1>1, <1>2, <1>5, SameRest DEF at
<1>7. p \in 0 .. Len(File) /\ rest' = From(File, p + 1)
  BY <1>3, <1>5, <1>6
<1> QED BY <1>1, <1>2, <1>3, <1>7, FeedsInSync

\* The damage is in front of the name of a section.
LEMMA NotBeforeSection ==
  ASSUME NEW s, NEW w, NEW d, Harmed(s, w, d), NEW k \in Nat, k + 3 <= Len(w), d.at = k + 1,
         w[k + 2] = "quote", Has(s, k + 1, "section")
  PROVE  FALSE
<1> DEFINE n == Len(w)
           m == Len(s)
           at == d.at
<1>1. /\ m \in Nat /\ n \in Nat /\ d.kind \in {"none", "cut", "drop", "quote"}
      /\ d.kind = "none" => at = n + 1
      /\ d.kind = "cut" => m = at - 1
      /\ d.kind = "drop" => m = n - 1 /\ \A x \in at .. m : s[x] = w[x + 1]
      /\ d.kind = "quote" => s[at] = "quote"
  BY DEF Harmed
<1>2. at = k + 1 /\ k + 3 <= n
  OBVIOUS
<1>3. k + 1 <= m /\ s[k + 1] = "section"
  BY DEF Has
<1> HIDE DEF n, m, at
<1>4. d.kind = "drop"
  <2>1. d.kind # "none"
    BY <1>1, <1>2
  <2>2. d.kind # "cut"
    BY <1>1, <1>2, <1>3
  <2>3. d.kind # "quote"
    BY <1>1, <1>2, <1>3
  <2> QED BY <1>1, <2>1, <2>2, <2>3
<1> DEFINE y == k + 1
<1>5. y \in at .. m /\ y + 1 = k + 2
  BY <1>1, <1>2, <1>3
<1> HIDE DEF y
<1>6. s[y] = w[y + 1]
  BY <1>1, <1>4, <1>5
<1>7. s[k + 1] = "quote"
  BY <1>5, <1>6 DEF y
<1> QED BY <1>3, <1>7

LEMMA AtSectionQuote ==
  ASSUME NEW s, NEW w, NEW d, Harmed(s, w, d), NEW k \in Nat, k + 3 <= Len(w), d.at = k + 2,
         w[k + 2] = "quote", w[k + 3] \in Texts, Has(s, k + 2, "quote"), NEW q, ReadsTo(s, k + 2, q)
  PROVE  OutOfStep(s, q)
<1> DEFINE n == Len(w)
           m == Len(s)
           at == d.at
           l == k + 2
           y == k + 3
<1>1. /\ s \in Seq(Symbol) /\ m \in Nat /\ n \in Nat /\ d.kind \in {"none", "cut", "drop", "quote"}
      /\ d.kind = "none" => at = n + 1
      /\ d.kind = "cut" => m = at - 1
      /\ d.kind = "drop" => m = n - 1 /\ \A x \in at .. m : s[x] = w[x + 1]
      /\ d.kind = "quote" => m = n + 1 /\ \A x \in at + 1 .. m : s[x] = w[x - 1]
  BY DEF Harmed
<1>2. at = l /\ k + 3 <= n /\ l \in Nat /\ y \in Nat /\ y = l + 1 /\ y + 1 = k + 4 /\ l < y
  OBVIOUS
<1>3. l <= m /\ s[l] = "quote"
  BY DEF Has
<1>4. w[l] = "quote" /\ w[y] \in Texts
  OBVIOUS
<1> HIDE DEF n, m, at, l
<1>5. d.kind = "quote"
  <2>1. d.kind # "none"
    BY <1>1, <1>2 DEF l
  <2>2. d.kind # "cut"
    BY <1>1, <1>2, <1>3
  <2>3. d.kind # "drop"
    <3>1. SUFFICES ASSUME d.kind = "drop" PROVE FALSE
      OBVIOUS
    <3>2. l \in at .. m
      BY <1>1, <1>2, <1>3
    <3>3. s[l] = w[l + 1]
      BY <1>1, <3>1, <3>2
    <3>4. w[y] = "quote"
      BY <1>2, <1>3, <3>3
    <3> QED BY <1>4, <3>4, KeywordsAreSymbols
  <2> QED BY <1>1, <2>1, <2>2, <2>3
<1>6. m = n + 1 /\ \A x \in at + 1 .. m : s[x] = w[x - 1]
  BY <1>1, <1>5
<1> DEFINE z == y + 1
<1>7. y \in at + 1 .. m /\ z \in at + 1 .. m /\ y - 1 = l /\ z - 1 = y /\ z <= m
  BY <1>1, <1>2, <1>6 DEF l
<1> HIDE DEF y, z
<1>8. s[y] = w[l] /\ s[z] = w[y]
  BY <1>6, <1>7
<1>9. Quiet(s, l + 1, y - 1)
  BY <1>2, <1>7 DEF Quiet
<1>10. Loose(s, l)
  BY <1>1, <1>2, <1>4, <1>7, <1>8, <1>9, LooseBefore DEF z, m
<1> QED BY <1>10 DEF Loose, l

LEMMA SectionWord ==
  ASSUME TInv, NEW i \in 0 .. Len(written), i < Len(written),
         NEW k, k = SectionEnd(written, i), NEW e, e = FeedEnd(written, i + 1, 0),
         k < damage.at, damage.at <= e, Has(Left, k + 1, "section"), Has(Left, k + 2, "quote"),
         NEW q, ReadsTo(Left, k + 2, q)
  PROVE  OutOfStep(Left, q) \/ Shortened(Left, File, damage, e, q) \/ Doubled(Left, q)
<1> DEFINE t == written[i + 1].m_media_name
           l == Len(t)
           o == k + 2
           at == damage.at
<1>1. /\ Harmed(Left, File, damage) /\ File \in Seq(Symbol) /\ Len(File) \in Nat /\ at \in Nat
      /\ written \in Written
  BY LeftIsHarmed
<1>2. /\ k \in Nat /\ e \in Nat /\ t \in Word /\ l \in Nat /\ e = o + l + 1 /\ e < Len(File)
      /\ File[o] = "quote" /\ TextAt(File, o, t) /\ File[e] = "quote"
  BY <1>1, SectionAhead DEF File
<1>3. l >= 1
  BY <1>2, WordParts
<1>4. k < at /\ at <= e
  OBVIOUS
<1> HIDE DEF t, l, at
<1>9. /\ k \in Nat /\ e \in Nat /\ l \in Nat /\ l >= 1 /\ e = o + l + 1 /\ e < Len(File)
      /\ Len(File) \in Nat /\ at \in Nat
  BY <1>1, <1>2, <1>3
<1>5. o \in Nat /\ k + 3 <= Len(File) /\ k + 3 = o + 1 /\ e <= Len(File)
      /\ (at = k + 1 \/ at = k + 2 \/ o < at)
  <2> DEFINE n == Len(File)
  <2>1. n \in Nat /\ e < n
    BY <1>9
  <2> HIDE DEF n
  <2>2. k + 3 <= n /\ e <= n
    BY <1>9, <2>1
  <2>3. at = k + 1 \/ at = k + 2 \/ o < at
    BY <1>4, <1>9
  <2>4. o \in Nat /\ k + 3 = o + 1
    BY <1>9
  <2> QED BY <2>2, <2>3, <2>4 DEF n
<1>6. CASE at = k + 1
  <2>1. FALSE
    BY <1>1, <1>2, <1>5, <1>6, NotBeforeSection DEF at
  <2> QED BY <2>1
<1>7. CASE at = k + 2
  <2>1. File[k + 3] \in Texts
    BY <1>2, <1>5, WordIsQuiet
  <2>2. OutOfStep(Left, q)
    BY <1>1, <1>2, <1>5, <1>7, <2>1, AtSectionQuote DEF at
  <2> QED BY <2>2
<1>8. CASE o < at
  <2> DEFINE a == i + 1
  <2>1. Loose(File, e)
    <3>1. a \in 1 .. Len(written) /\ 0 \in 0 .. Len(written[a].m_feeds)
      <4>1. a \in 1 .. Len(written)
        BY LeftIsHarmed
      <4>2. Len(written[a].m_feeds) \in Nat
        <5> HIDE DEF a
        <5> QED BY <1>1, <4>1, WrittenIsMedia
      <4> QED BY <4>1, <4>2
    <3> HIDE DEF a
    <3>2. Loose(Write(written), FeedEnd(written, a, 0))
      BY <1>1, <3>1, FeedIsLoose
    <3> QED BY <3>2 DEF File, a
  <2>2. ReadsTo(Left, o, q)
    OBVIOUS
  <2>3. e = o + Len(t) + 1
    BY <1>2 DEF l
  <2>4. o < damage.at /\ damage.at <= e
    BY <1>4, <1>8 DEF at
  <2> HIDE DEF o
  <2> QED BY <1>1, <1>2, <1>5, <2>1, <2>2, <2>3, <2>4, DamagedWord
<1> QED BY <1>5, <1>6, <1>7, <1>8

LEMMA BeginSectionDamaged ==
  ASSUME TInv, NEW k, NEW i, Reading(k), InSection(k, i), i < Len(written),
         ~(FeedEnd(written, i + 1, 0) < damage.at), BeginSection
  PROVE  (\E l : Lost(l)') \/ (\E l : InSync(l)')
<1> DEFINE a == i + 1
<1>0. PICK e : e = FeedEnd(written, i + 1, 0)
  OBVIOUS
<1>1. /\ Left \in Seq(Symbol) /\ Len(Left) \in Nat /\ written \in Written /\ Len(written) \in Nat
      /\ Len(File) \in Nat /\ damage.at \in Nat
  BY LeftIsHarmed
<1>2. k \in 0 .. Len(Left) /\ rest = From(Left, k + 1) /\ k \in Nat
  BY ReadingIs
<1>3. PICK q : Began(Left, k, q)
  BY <1>1, <1>2, BeginSectionReads
<1>4. /\ i \in 0 .. Len(written) /\ k = SectionEnd(written, i) /\ m_medias = SubSeq(written, 1, i)
  BY DEF InSection
<1>5. e \in Nat /\ e < Len(File)
  BY <1>0, <1>1, <1>4, SectionAhead DEF File
<1>6. damage.at <= e /\ k < damage.at
  BY <1>0, <1>1, <1>5 DEF Reading
<1>7. /\ Has(Left, k + 1, "section") /\ Has(Left, k + 2, "quote") /\ ReadsTo(Left, k + 2, q)
      /\ ReachesFeeds(q)
  BY <1>3 DEF Began, ReachesFeeds
<1>8. OutOfStep(Left, q) \/ Shortened(Left, File, damage, e, q) \/ Doubled(Left, q)
  BY <1>0, <1>1, <1>4, <1>6, <1>7, SectionWord
<1> DEFINE name == SubSeq(Left, k + 2 + 1, q - 1)
           h == k + 2
<1>9. h \in 0 .. Len(Left)
  BY <1>1, <1>2, <1>7 DEF Has
<1>10. name \in Seq(Symbol) /\ q \in h + 1 .. Len(Left) + 1
  <2> HIDE DEF h
  <2> QED BY <1>1, <1>7, <1>9, TextTyped DEF h
<1>11. m_medias' = Append(m_medias, MediaOf(name, <<>>))
  BY <1>3 DEF Began, MediaOf
<1> HIDE DEF name
<1>12. Good(m_medias) /\ m_medias \in Seq(Media)
  BY <1>1, <1>4, SectionIsGood
<1>13. Good(m_medias')
  BY <1>10, <1>11, <1>12, SectionStaysGood
<1>14. Append(m_medias, MediaOf(name, <<>>)) \in Seq(Media)
  <2>1. MediaOf(name, <<>>) \in Media
    BY <1>10, EmptyText, MediaTyped
  <2> QED BY <1>12, <2>1
<1>15. Only(m_medias')
  BY <1>1, <1>11, <1>13, <1>14, GoodIsOnly
<1>16. UNCHANGED <<written, damage>>
  BY DEF BeginSection, files
<1>17. q \in k + 1 .. Len(Left) + 1 /\ q \in Nat
  BY <1>1, <1>2, <1>10
<1>18. CASE OutOfStep(Left, q)
  BY <1>2, <1>7, <1>15, <1>16, <1>17, <1>18, FeedsOutOfStep
<1>19. CASE Doubled(Left, q)
  BY <1>7, <1>13, <1>15, <1>16, <1>17, <1>19, FeedsDoubled
<1>20. CASE Shortened(Left, File, damage, e, q)
  <2>1. Counts(m_medias, i, FeedsIn(i))
    BY <1>1, <1>4, SectionsCount
  <2>2. i \in Nat /\ a \in 1 .. Len(written) /\ i + 1 = a
    BY <1>1, <1>4
  <2>3. MediaOf(name, <<>>).m_feeds = <<>>
    BY DEF MediaOf
  <2>4. Counts(m_medias', a, 0)
    BY <1>11, <1>12, <2>1, <2>2, <2>3, SectionCounts
  <2>5. 0 \in 0 .. Len(written[a].m_feeds)
    <3> HIDE DEF a
    <3>1. Len(written[a].m_feeds) \in Nat
      BY <1>1, <2>2, WrittenIsMedia
    <3> QED BY <3>1
  <2>6. e = FeedEnd(written, a, 0) /\ e >= 1
    BY <1>0, <1>1, <1>5, <1>6, <1>2
  <2> HIDE DEF a
  <2> QED BY <1>5, <1>7, <1>16, <1>20, <2>2, <2>4, <2>5, <2>6, FeedsShortened
<1> QED BY <1>8, <1>18, <1>19, <1>20

\* Behind the last section there is none.
LEMMA NoSectionBehind ==
  ASSUME TInv, NEW k, Reading(k), InSection(k, Len(written)), BeginSection
  PROVE  FALSE
<1> DEFINE n == Len(File)
           at == damage.at
           m == Len(Left)
<1>1. /\ Left \in Seq(Symbol) /\ m \in Nat /\ written \in Written /\ n \in Nat /\ at \in Nat
      /\ Harmed(Left, File, damage)
  BY LeftIsHarmed
<1>2. k \in 0 .. Len(Left) /\ rest = From(Left, k + 1) /\ k \in Nat /\ k + 1 <= at
  BY ReadingIs
<1>3. PICK q : Began(Left, k, q)
  BY <1>1, <1>2, BeginSectionReads
<1>4. k + 1 <= m /\ Left[k + 1] = "section"
  BY <1>3 DEF Began, Has
<1>5. k = n
  BY <1>1, WrittenParts, SectionEnds DEF InSection, File
<1>6. /\ damage.kind \in {"none", "cut", "drop", "quote"} /\ at \in 1 .. n + 1
      /\ damage.kind = "none" => Left = File
      /\ damage.kind = "cut" => at <= n
      /\ damage.kind = "drop" => at <= n
      /\ damage.kind = "quote" => Left[at] = "quote"
  BY <1>1 DEF Harmed
<1> HIDE DEF n, at, m
<1>7. at = k + 1
  BY <1>1, <1>2, <1>5, <1>6
<1>8. damage.kind # "quote"
  BY <1>4, <1>6, <1>7
<1>9. damage.kind # "none"
  <2>1. SUFFICES ASSUME damage.kind = "none" PROVE FALSE
    OBVIOUS
  <2>2. m = n
    BY <1>6, <2>1 DEF m, n
  <2> QED BY <1>1, <1>4, <1>5, <2>2
<1> QED BY <1>1, <1>5, <1>6, <1>7, <1>8, <1>9

LEMMA BehindFeed ==
  ASSUME written \in Written, NEW i \in 1 .. Len(written), NEW j \in 0 .. Len(written[i].m_feeds)
  PROVE  LET w == Write(written)
             k == FeedEnd(written, i, j)
         IN /\ k \in Nat /\ k + 1 <= Len(w)
            /\ j < Len(written[i].m_feeds) => w[k + 1] = "quote" /\ k + 1 < Len(w)
            /\ j = Len(written[i].m_feeds) => w[k + 1] = "end"
            /\ k + 2 <= Len(w) => w[k + 2] \in Texts \cup {"section"}
<1> DEFINE w == Write(written)
           n == Len(written[i].m_feeds)
           k == FeedEnd(written, i, j)
<1>1. Len(w) \in Nat /\ n \in Nat /\ Len(written) \in Nat /\ j \in 0 .. n
  BY WrittenIsMedia, SectionEnds
<1>2. CASE j < n
  <2> DEFINE h == j + 1
  <2>1. h \in 1 .. n /\ h - 1 = j
    BY <1>1, <1>2
  <2> DEFINE t == written[i].m_feeds[h].m_feed_name
             l == Len(t)
             u == Len(written[i].m_feeds[h].m_feed_address)
             a == AddressStart(written, i, h)
             e == FeedEnd(written, i, h)
  <2> HIDE DEF h
  <2>2. /\ FeedEnd(written, i, h - 1) = k /\ k \in Nat /\ t \in Word /\ l \in Nat /\ u \in Nat
        /\ a = k + 1 + l + 1 + 2 /\ e = a + u + 1 /\ e < Len(w)
        /\ w[k + 1] = "quote" /\ TextAt(w, k + 1, t)
    BY <2>1, FeedAhead
  <2> HIDE DEF k, l, u, a, e, w, t
  <2>3. /\ k \in Nat /\ l \in Nat /\ u \in Nat /\ a = k + 1 + l + 1 + 2 /\ e = a + u + 1
        /\ e < Len(w) /\ Len(w) \in Nat
    BY <1>1, <2>2
  <2>4. k + 1 \in Nat /\ k + 1 + 1 = k + 2 /\ k + 1 <= Len(w) /\ k + 1 < Len(w)
    BY <2>3
  <2>5. w[k + 1 + 1] \in Texts
    BY <2>2, <2>4, WordIsQuiet
  <2>6. w[k + 2] \in Texts
    BY <2>4, <2>5
  <2>7. ~(j = n)
    BY <1>1, <1>2
  <2> HIDE DEF n
  <2> QED BY <2>2, <2>4, <2>6, <2>7 DEF w, k, n
<1>3. CASE j = n
  <2>1. k \in Nat /\ w[k + 1] = "end" /\ SectionEnd(written, i) = k + 1 /\ k + 1 <= Len(w)
    BY <1>3, EndAhead
  <2>2. k + 2 <= Len(w) => w[k + 2] = "section"
    <3>1. CASE i = Len(written)
      <4>1. SectionEnd(written, Len(written)) = Len(w)
        BY WrittenParts, SectionEnds
      <4>2. k + 1 = Len(w)
        BY <2>1, <3>1, <4>1
      <4> HIDE DEF k, w
      <4> QED BY <2>1, <4>2
    <3>2. CASE i < Len(written)
      <4>1. i \in 0 .. Len(written)
        BY <1>1
      <4>2. w[SectionEnd(written, i) + 1] = "section"
        BY <3>2, <4>1, SectionAhead
      <4> HIDE DEF k, w
      <4>3. k + 1 + 1 = k + 2
        BY <2>1
      <4> QED BY <2>1, <4>2, <4>3
    <3> QED BY <1>1, <3>1, <3>2
  <2>3. ~(j < n)
    BY <1>1, <1>3
  <2> HIDE DEF n, k, w
  <2> QED BY <2>1, <2>2, <2>3, <1>3 DEF w, k, n
<1> QED BY <1>1, <1>2, <1>3

\* Where a feed or the end of a section is expected, only a quote too much is
\* taken for one.
LEMMA FeedsBroken ==
  ASSUME NEW s, NEW w, NEW d, Harmed(s, w, d), NEW k \in Nat, k + 1 <= Len(w), d.at = k + 1,
         k + 2 <= Len(w) => w[k + 2] \in Texts \cup {"section"},
         NEW a \in {"quote", "end"}, Has(s, k + 1, a)
  PROVE  d.kind = "quote" /\ a = "quote"
<1> DEFINE n == Len(w)
           m == Len(s)
           at == d.at
           l == k + 1
<1>1. /\ m \in Nat /\ n \in Nat /\ d.kind \in {"none", "cut", "drop", "quote"}
      /\ d.kind = "none" => at = n + 1
      /\ d.kind = "cut" => m = at - 1
      /\ d.kind = "drop" => m = n - 1 /\ \A x \in at .. m : s[x] = w[x + 1]
      /\ d.kind = "quote" => s[at] = "quote"
  BY DEF Harmed
<1>2. at = l /\ l <= n /\ l + 1 = k + 2 /\ l \in Nat
  OBVIOUS
<1>3. l <= m /\ s[l] = a
  BY DEF Has
<1>4. l + 1 <= n => w[l + 1] \in Texts \cup {"section"}
  BY <1>2
<1> HIDE DEF n, m, at, l
<1>5. d.kind # "none"
  BY <1>1, <1>2
<1>6. d.kind # "cut"
  BY <1>1, <1>2, <1>3
<1>7. d.kind # "drop"
  <2>1. SUFFICES ASSUME d.kind = "drop" PROVE FALSE
    OBVIOUS
  <2>2. l \in at .. m /\ l + 1 <= n
    BY <1>1, <1>2, <1>3, <2>1
  <2>3. s[l] = w[l + 1]
    BY <1>1, <2>1, <2>2
  <2>4. a \in Texts \cup {"section"}
    BY <1>3, <1>4, <2>2, <2>3
  <2> QED BY <2>4, KeywordsAreSymbols
<1>8. d.kind = "quote"
  BY <1>1, <1>5, <1>6, <1>7
<1>9. a = "quote"
  BY <1>1, <1>2, <1>3, <1>8
<1> QED BY <1>8, <1>9

LEMMA OutOfStepFits ==
  ASSUME NEW s \in Seq(Symbol), NEW q, OutOfStep(s, q)
  PROVE  ~Fits(s, q)
<1> SUFFICES ASSUME Fits(s, q) PROVE FALSE
  OBVIOUS
<1>1. q + 1 <= Len(s) /\ s[q + 1] = "=" /\ Len(s) \in Nat
  BY DEF Fits, Has
<1>2. s[q + 1] \notin Texts
  BY <1>1, KeywordsAreSymbols
<1> QED BY <1>1, <1>2 DEF OutOfStep

LEMMA DoubledFits ==
  ASSUME NEW s, NEW q, Doubled(s, q)
  PROVE  ~Fits(s, q)
  BY DEF Doubled, Fits, Has

\* The damage is in what stands between the name and the address of a feed.
LEMMA AtEquals ==
  ASSUME NEW s, NEW w, NEW d, Harmed(s, w, d), NEW c \in Nat, c + 2 <= Len(w), d.at = c + 1,
         w[c + 2] = "quote"
  PROVE  ~Fits(s, c)
<1> DEFINE n == Len(w)
           m == Len(s)
           at == d.at
           l == c + 1
<1>1. /\ m \in Nat /\ n \in Nat /\ d.kind \in {"none", "cut", "drop", "quote"}
      /\ d.kind = "none" => at = n + 1
      /\ d.kind = "cut" => m = at - 1
      /\ d.kind = "drop" => m = n - 1 /\ \A x \in at .. m : s[x] = w[x + 1]
      /\ d.kind = "quote" => s[at] = "quote"
  BY DEF Harmed
<1>2. at = l /\ l + 1 <= n /\ l + 1 = c + 2 /\ l \in Nat
  OBVIOUS
<1>3. w[l + 1] = "quote"
  BY <1>2
<1> HIDE DEF n, m, at
<1> SUFFICES ASSUME Fits(s, c) PROVE FALSE
  OBVIOUS
<1>4. l <= m /\ s[l] = "="
  BY DEF Fits, Has, m
<1> HIDE DEF l
<1>5. d.kind # "none"
  BY <1>1, <1>2
<1>6. d.kind # "cut"
  BY <1>1, <1>2, <1>4
<1>7. d.kind # "quote"
  BY <1>1, <1>2, <1>4
<1>8. d.kind # "drop"
  <2>1. SUFFICES ASSUME d.kind = "drop" PROVE FALSE
    OBVIOUS
  <2>2. l \in at .. m
    BY <1>1, <1>2, <1>4
  <2>3. s[l] = w[l + 1]
    BY <1>1, <2>1, <2>2
  <2> QED BY <1>3, <1>4, <2>3
<1> QED BY <1>1, <1>5, <1>6, <1>7, <1>8

LEMMA AtAddressQuote ==
  ASSUME NEW s, NEW w, NEW d, Harmed(s, w, d), NEW c \in Nat, c + 3 <= Len(w), d.at = c + 2,
         w[c + 2] = "quote", w[c + 3] \in Texts
  PROVE  ~Fits(s, c) \/ Loose(s, c + 2)
<1> DEFINE n == Len(w)
           m == Len(s)
           at == d.at
           l == c + 2
           y == l + 1
           z == y + 1
<1>1. /\ s \in Seq(Symbol) /\ m \in Nat /\ n \in Nat /\ d.kind \in {"none", "cut", "drop", "quote"}
      /\ d.kind = "none" => at = n + 1
      /\ d.kind = "cut" => m = at - 1
      /\ d.kind = "drop" => m = n - 1 /\ \A x \in at .. m : s[x] = w[x + 1]
      /\ d.kind = "quote" => m = n + 1 /\ \A x \in at + 1 .. m : s[x] = w[x - 1]
  BY DEF Harmed
<1>2. at = l /\ y <= n /\ y = c + 3 /\ l \in Nat
  OBVIOUS
<1>3. w[l] = "quote" /\ w[y] \in Texts
  BY <1>2
<1>4. Fits(s, c) => l <= m /\ s[l] = "quote"
  BY DEF Fits, Has
<1> HIDE DEF n, m, at, l
<1>5. CASE d.kind = "none"
  BY <1>1, <1>2, <1>5
<1>6. CASE d.kind = "cut"
  BY <1>1, <1>2, <1>4, <1>6
<1>7. CASE d.kind = "drop"
  <2>1. SUFFICES ASSUME Fits(s, c) PROVE FALSE
    OBVIOUS
  <2>2. l \in at .. m
    BY <1>1, <1>2, <1>4, <2>1
  <2>3. s[l] = w[l + 1]
    BY <1>1, <1>7, <2>2
  <2>4. w[y] = "quote"
    BY <1>4, <2>1, <2>3
  <2> QED BY <1>3, <2>4, KeywordsAreSymbols
<1>8. CASE d.kind = "quote"
  <2>1. m = n + 1 /\ \A x \in at + 1 .. m : s[x] = w[x - 1]
    BY <1>1, <1>8
  <2>2. /\ y \in at + 1 .. m /\ z \in at + 1 .. m /\ y - 1 = l /\ z - 1 = y /\ z <= m
        /\ l < y /\ y \in Nat
    BY <1>1, <1>2, <2>1
  <2>3. Quiet(s, l + 1, y - 1)
    BY <1>2, <2>2 DEF Quiet
  <2> HIDE DEF y
  <2>4. s[z] = w[y]
    BY <2>1, <2>2
  <2>5. s[y] = w[l]
    BY <2>1, <2>2
  <2>6. Loose(s, l)
    BY <1>1, <1>2, <1>3, <2>2, <2>3, <2>4, <2>5, LooseBefore DEF z, m
  <2> QED BY <2>6 DEF l
<1> QED BY <1>1, <1>5, <1>6, <1>7, <1>8

LEMMA NameWord ==
  ASSUME NEW s, NEW w \in Seq(Symbol), NEW d, Harmed(s, w, d),
         NEW t \in Word, NEW o \in Nat, NEW c \in Nat, c = o + Len(t) + 1, c + 3 <= Len(w),
         TextAt(w, o, t), w[c] = "quote", w[c + 2] = "quote", w[c + 3] \in Texts,
         o < d.at, d.at <= c + 2, Loose(w, c), NEW q, ReadsTo(s, o, q)
  PROVE  \/ ~Fits(s, q)
         \/ /\ d.kind = "drop" /\ d.at \in 1 .. Len(w) /\ w[d.at] \in Texts
            /\ From(s, q + 3) = From(w, c + 3)
         \/ Loose(s, q + 2) /\ q = c
<1> DEFINE n == Len(w)
           at == d.at
<1>1. s \in Seq(Symbol) /\ n \in Nat /\ at \in Nat /\ (d.kind = "drop" => Len(s) = n - 1)
  BY DEF Harmed
<1>2. o < at /\ at <= c + 2 /\ c + 3 <= n /\ c <= n /\ c + 2 <= n
  BY <1>1
<1> HIDE DEF n, at
<1>3. CASE at <= c
  <2>1. d.at <= c /\ c <= Len(w)
    BY <1>2, <1>3 DEF at, n
  <2>2. \/ OutOfStep(s, q)
        \/ Shortened(s, w, d, c, q)
        \/ q = c /\ Doubled(s, q) /\ SubSeq(s, o + 1, q - 1) = t
    BY <2>1, DamagedWord
  <2>3. CASE OutOfStep(s, q)
    BY <1>1, <2>3, OutOfStepFits
  <2>4. CASE Doubled(s, q)
    BY <2>4, DoubledFits
  <2>5. CASE Shortened(s, w, d, c, q)
    <3>1. d.kind = "drop" /\ d.at \in 1 .. Len(w) /\ w[d.at] \in Texts /\ q = c - 1
      BY <2>5 DEF Shortened
    <3> DEFINE b == c + 1
    <3>2. b \in Nat /\ at <= b + 1 /\ b <= Len(s) /\ q + 3 = b + 1 /\ c + 3 = b + 1 + 1
      BY <1>1, <1>2, <1>3, <3>1
    <3> HIDE DEF b
    <3>3. From(s, b + 1) = From(w, b + 1 + 1)
      BY <3>1, <3>2, SameRest DEF at
    <3> QED BY <3>1, <3>2, <3>3
  <2> QED BY <2>2, <2>3, <2>4, <2>5
<1>4. CASE ~(at <= c)
  <2>1. Agrees(s, w, at) /\ c < at
    BY <1>1, <1>4 DEF Agrees, Harmed, at
  <2>2. q = c
    BY <1>1, <2>1, WordIsRead
  <2>3. at = c + 1 \/ at = c + 2
    BY <1>1, <1>2, <1>4
  <2>4. CASE at = c + 1
    <3>1. d.at = c + 1 /\ c + 2 <= Len(w)
      BY <1>2, <2>4 DEF at, n
    <3>2. ~Fits(s, c)
      BY <3>1, AtEquals
    <3> QED BY <2>2, <3>2
  <2>5. CASE at = c + 2
    <3>1. d.at = c + 2
      BY <2>5 DEF at
    <3>2. ~Fits(s, c) \/ Loose(s, c + 2)
      BY <3>1, AtAddressQuote
    <3> QED BY <2>2, <3>2
  <2> QED BY <2>3, <2>4, <2>5
<1> QED BY <1>3, <1>4

\* How far a name, what stands behind it, and an address reach in n symbols.
Spans(k, l, a, z, e, n) ==
  /\ k \in Nat /\ l \in Nat /\ z \in Nat /\ z >= 1 /\ n \in Nat
  /\ a = k + 1 + l + 1 + 2 /\ e = a + z + 1 /\ e < n

LEMMA NamePlaces ==
  ASSUME NEW k, NEW l, NEW a, NEW z, NEW e, NEW n, Spans(k, l, a, z, e, n), NEW c, c = a - 2
  PROVE  /\ c \in Nat /\ c = k + 1 + l + 1 /\ c + 2 = a /\ c + 3 = a + 1 /\ c + 3 <= n
         /\ a \in Nat /\ k + 1 \in Nat
<1>0. /\ k \in Nat /\ l \in Nat /\ z \in Nat /\ z >= 1 /\ n \in Nat
      /\ a = k + 1 + l + 1 + 2 /\ e = a + z + 1 /\ e < n
  BY DEF Spans
<1>1. a \in Nat /\ c = k + 1 + l + 1
  BY <1>0
<1>2. c \in Nat /\ c + 2 = a /\ c + 3 = a + 1
  BY <1>0, <1>1
<1>3. a + 1 <= e /\ e \in Nat
  BY <1>0, <1>1
<1> QED BY <1>0, <1>1, <1>2, <1>3

LEMMA NameDamaged ==
  ASSUME TInv, NEW i \in 1 .. Len(written), NEW h \in 1 .. Len(written[i].m_feeds),
         NEW k, k = FeedEnd(written, i, h - 1), NEW a, a = AddressStart(written, i, h),
         k + 1 < damage.at, damage.at <= a, NEW q, ReadsTo(Left, k + 1, q)
  PROVE  \/ ~Fits(Left, q)
         \/ TextLost /\ From(Left, q + 3) = From(File, a + 1) /\ a \in 0 .. Len(File)
         \/ Loose(Left, q + 2) /\ q + 2 \in Nat
<1> DEFINE t == written[i].m_feeds[h].m_feed_name
           u == written[i].m_feeds[h].m_feed_address
           l == Len(t)
           z == Len(u)
           n == Len(File)
           e == FeedEnd(written, i, h)
           c == a - 2
           o == k + 1
<1>1. /\ Harmed(Left, File, damage) /\ File \in Seq(Symbol) /\ n \in Nat /\ written \in Written
  BY LeftIsHarmed
<1>2. /\ k \in Nat /\ l \in Nat /\ z \in Nat /\ a = k + 1 + l + 1 + 2 /\ e = a + z + 1 /\ e < n
  BY <1>1, FeedAhead DEF File
<1>3. /\ t \in Word /\ u \in Word /\ TextAt(File, k + 1, t) /\ TextAt(File, a, u)
      /\ File[k + 1 + l + 1] = "quote" /\ File[k + 1 + l + 1 + 2] = "quote"
  BY <1>1, FeedAhead DEF File
<1>4. z >= 1
  BY <1>3, WordParts
<1>13. c = a - 2
  OBVIOUS
<1> HIDE DEF t, u, l, z, e, c, n, o
<1>14. Spans(k, l, a, z, e, n)
  BY <1>1, <1>2, <1>4 DEF Spans
<1>15. /\ c \in Nat /\ c = k + 1 + l + 1 /\ c + 2 = a /\ c + 3 = a + 1 /\ c + 3 <= n
      /\ a \in Nat /\ k + 1 \in Nat
  BY <1>13, <1>14, NamePlaces
<1>5. /\ c \in Nat /\ c = o + l + 1 /\ c + 2 = a /\ c + 3 = a + 1 /\ c + 3 <= n
      /\ a \in Nat /\ o \in Nat
  BY <1>15 DEF o
<1>6. Loose(File, c)
  BY <1>1, NameIsLoose DEF File, c
<1>7. File[c] = "quote" /\ File[c + 2] = "quote" /\ File[c + 3] \in Texts
  <2>1. File[a + 1] \in Texts
    BY <1>3, <1>5, WordIsQuiet
  <2> QED BY <1>3, <1>15, <2>1
<1>8. /\ c = o + Len(t) + 1 /\ c + 3 <= Len(File) /\ TextAt(File, o, t)
      /\ o < damage.at /\ damage.at <= c + 2 /\ ReadsTo(Left, o, q)
  BY <1>3, <1>5 DEF l, n, o
<1>9. \/ ~Fits(Left, q)
      \/ /\ damage.kind = "drop" /\ damage.at \in 1 .. Len(File) /\ File[damage.at] \in Texts
         /\ From(Left, q + 3) = From(File, c + 3)
      \/ Loose(Left, q + 2) /\ q = c
  <2>1. Harmed(Left, File, damage) /\ File \in Seq(Symbol) /\ t \in Word
    BY <1>1, <1>3
  <2>2. o \in Nat /\ c \in Nat
    BY <1>5
  <2> QED BY <2>1, <2>2, <1>6, <1>7, <1>8, NameWord
<1>10. a \in 0 .. Len(File)
  BY <1>1, <1>5 DEF n
<1>11. q = c => q + 2 \in Nat
  BY <1>5
<1>12. From(Left, q + 3) = From(File, c + 3) => From(Left, q + 3) = From(File, a + 1)
  BY <1>5
<1> QED BY <1>9, <1>10, <1>11, <1>12 DEF TextLost

\* The name of a feed is read, and nothing fits behind it.
LEMMA NameFails ==
  ASSUME TInv, NEW k \in 0 .. Len(Left), rest = From(Left, k + 1), NEW q, Named(Left, k, q),
         ~Fits(Left, q), m_medias # <<>>, Good(m_medias), UNCHANGED <<written, damage>>
  PROVE  \E l : Lost(l)'
<1> DEFINE name == SubSeq(Left, k + 1 + 1, q - 1)
           h == k + 1
<1>1. Left \in Seq(Symbol) /\ Len(Left) \in Nat
  BY LeftIsHarmed
<1>2. /\ Has(Left, k + 1, "quote") /\ ReadsTo(Left, k + 1, q) /\ m_medias' = WithFeed(m_medias, name)
      /\ pc' = "failed" /\ UNCHANGED rest
  BY DEF Named
<1>3. h \in 0 .. Len(Left)
  BY <1>1, <1>2 DEF Has
<1>4. name \in Seq(Symbol)
  <2> HIDE DEF h
  <2> QED BY <1>1, <1>2, <1>3, TextTyped DEF h
<1> HIDE DEF name
<1>5. m_medias \in Seq(Media)
  BY DEF TInv
<1>6. Only(m_medias')
  BY <1>2, <1>4, <1>5, FeedLeavesOnly
<1>7. Lost(k)'
  BY <1>2, <1>6, FailingIsLost
<1> QED BY <1>7

LEMMA AddressInSync ==
  ASSUME written \in Written, TextLost, UNCHANGED <<written, damage>>, pc' = "address",
         NEW i \in 1 .. Len(written), NEW j \in 1 .. Len(written[i].m_feeds), Counts(m_medias', i, j),
         AddressStart(written, i, j) \in 0 .. Len(File), rest' = From(File, AddressStart(written, i, j) + 1)
  PROVE  \E l : InSync(l)'
<1>0. PICK a : a = AddressStart(written, i, j)
  OBVIOUS
<1>1. Counts(m_medias, i, j)'
  BY DEF Counts
<1>6. AddressStart(written, i, j)' = a
  BY <1>0 DEF AddressStart, FeedEnd, SectionEnd
<1>2. SyncAddress(a, i, j)'
  BY <1>1, <1>6 DEF SyncAddress
<1>3. InStep(a)'
  BY <1>2 DEF InStep
<1>4. a \in 0 .. Len(File) /\ rest' = From(File, a + 1)
  BY <1>0
<1>5. InSync(a)'
  BY <1>3, <1>4, BecomesInSync
<1> QED BY <1>5

LEMMA SetCurrentRssNameDamaged ==
  ASSUME TInv, NEW k, NEW i, NEW j, Reading(k), InFeeds(k, i, j), SetCurrentRssName,
         ~(j < Len(written[i].m_feeds) /\ AddressStart(written, i, j + 1) < damage.at)
  PROVE  (\E l : Lost(l)') \/ (\E l : InSync(l)')
<1> DEFINE n == Len(written[i].m_feeds)
           h == j + 1
<1>0. PICK a : a = AddressStart(written, i, h)
  OBVIOUS
<1>1. /\ Left \in Seq(Symbol) /\ Len(Left) \in Nat /\ written \in Written /\ Len(written) \in Nat
      /\ Len(File) \in Nat /\ damage.at \in Nat /\ Harmed(Left, File, damage)
  BY LeftIsHarmed
<1>2. k \in 0 .. Len(Left) /\ rest = From(Left, k + 1) /\ k \in Nat /\ k + 1 <= damage.at
  BY ReadingIs
<1>3. PICK q : Named(Left, k, q)
  BY <1>1, <1>2, SetCurrentRssNameReads
<1>4. /\ i \in 1 .. Len(written) /\ j \in 0 .. n /\ k = FeedEnd(written, i, j)
      /\ m_medias = ReadUpTo(i, SubSeq(written[i].m_feeds, 1, j))
  BY DEF InFeeds
<1>5. n \in Nat
  BY <1>1, <1>4, WrittenIsMedia
<1>6. Good(m_medias) /\ m_medias \in Seq(Media) /\ m_medias # <<>>
  BY <1>1, <1>4, FeedsAreGood
<1>7. UNCHANGED <<written, damage>>
  BY DEF SetCurrentRssName, files
<1>8. Has(Left, k + 1, "quote") /\ ReadsTo(Left, k + 1, q)
  BY <1>3 DEF Named
<1>9. /\ k + 1 <= Len(File)
      /\ j < n => File[k + 1] = "quote"
      /\ j = n => File[k + 1] = "end"
      /\ k + 2 <= Len(File) => File[k + 2] \in Texts \cup {"section"}
  BY <1>1, <1>4, BehindFeed DEF File
<1>10. ~Fits(Left, q) => \E l : Lost(l)'
  BY <1>2, <1>3, <1>6, <1>7, NameFails
<1>11. CASE damage.at = k + 1
  <2>1. damage.kind = "quote"
    BY <1>1, <1>2, <1>8, <1>9, <1>11, FeedsBroken
  <2>2. Loose(File, k)
    BY <1>1, <1>4, FeedIsLoose DEF File
  <2> DEFINE x == k + 1
  <2>3. x \in Nat /\ damage.at <= x /\ x <= Len(Left) /\ x - 1 = k
    BY <1>2, <1>8, <1>11 DEF Has
  <2> HIDE DEF x
  <2>4. Loose(Left, x)
    BY <1>1, <2>1, <2>2, <2>3, QuoteShift
  <2>5. OutOfStep(Left, q)
    BY <1>8, <2>4 DEF Loose, x
  <2>6. ~Fits(Left, q)
    BY <1>1, <2>5, OutOfStepFits
  <2> QED BY <1>10, <2>6
<1>12. CASE damage.at # k + 1
  <2>1. k + 1 < damage.at /\ k + 1 \in 1 .. damage.at - 1
    BY <1>1, <1>2, <1>12
  <2>2. Left[k + 1] = File[k + 1] /\ Left[k + 1] = "quote"
    BY <1>1, <1>8, <2>1 DEF Harmed, Has
  <2>3. j < n
    BY <1>4, <1>5, <1>9, <2>2
  <2>4. h \in 1 .. n /\ h - 1 = j
    BY <1>4, <1>5, <2>3
  <2>5. ~(a < damage.at)
    BY <1>0, <2>3
  <2> HIDE DEF h
  <2>6. a \in Nat
    BY <1>0, <1>1, <1>4, <2>4, FeedOrder, WrittenParts
  <2>7. damage.at <= a
    BY <1>1, <2>5, <2>6
  <2>8. \/ ~Fits(Left, q)
        \/ TextLost /\ From(Left, q + 3) = From(File, a + 1) /\ a \in 0 .. Len(File)
        \/ Loose(Left, q + 2) /\ q + 2 \in Nat
    BY <1>0, <1>4, <1>8, <2>1, <2>4, <2>7, NameDamaged
  <2>9. ASSUME Fits(Left, q) PROVE pc' = "address" /\ rest' = From(Left, q + 3) /\ q + 2 <= Len(Left)
    BY <1>3, <2>9 DEF Named, Fits, Has
  <2> DEFINE name == SubSeq(Left, k + 1 + 1, q - 1)
             y == k + 1
  <2>10. m_medias' = WithFeed(m_medias, name)
    BY <1>3 DEF Named
  <2>11. y \in 0 .. Len(Left)
    BY <1>1, <1>2, <1>8 DEF Has
  <2>12. name \in Seq(Symbol)
    <3> HIDE DEF y
    <3> QED BY <1>1, <1>8, <2>11, TextTyped DEF y
  <2> HIDE DEF name
  <2>13. CASE Fits(Left, q) /\ TextLost /\ From(Left, q + 3) = From(File, a + 1) /\ a \in 0 .. Len(File)
    <3>1. Counts(m_medias, i, j)
      BY <1>1, <1>4, FeedsCount
    <3>2. Counts(m_medias', i, j + 1)
      BY <1>6, <2>10, <2>12, <3>1, FeedCounts
    <3>3. Counts(m_medias', i, h)
      BY <3>2 DEF h
    <3>4. pc' = "address" /\ rest' = From(File, a + 1)
      BY <2>9, <2>13
    <3>5. TextLost /\ a \in 0 .. Len(File)
      BY <2>13
    <3> QED BY <1>0, <1>1, <1>4, <1>7, <2>4, <3>3, <3>4, <3>5, AddressInSync
  <2>14. CASE Fits(Left, q) /\ Loose(Left, q + 2) /\ q + 2 \in Nat
    <3>1. PICK b : b = q + 2
      OBVIOUS
    <3>2. b \in 0 .. Len(Left) /\ b + 1 = q + 3
      <4>1. q \in Int
        BY <1>1, <1>2, <1>8 DEF ReadsTo
      <4> QED BY <1>1, <2>9, <2>14, <3>1, <4>1
    <3>3. Only(m_medias')
      BY <1>6, <2>10, <2>12, FeedLeavesOnly
    <3>4. pc' = "address" /\ rest' = From(Left, b + 1) /\ Loose(Left, b)
      BY <2>9, <2>14, <3>1, <3>2
    <3>5. Lost(b)'
      BY <1>7, <3>2, <3>3, <3>4, BecomesLost
    <3> QED BY <3>5
  <2> QED BY <1>10, <2>8, <2>13, <2>14
<1> QED BY <1>11, <1>12

LEMMA AddressWord ==
  ASSUME TInv, NEW i \in 1 .. Len(written), NEW j \in 1 .. Len(written[i].m_feeds),
         NEW k, k = AddressStart(written, i, j), NEW e, e = FeedEnd(written, i, j),
         k < damage.at, damage.at <= e, NEW q, ReadsTo(Left, k, q)
  PROVE  \/ OutOfStep(Left, q)
         \/ Shortened(Left, File, damage, e, q)
         \/ /\ q = e /\ Doubled(Left, q)
            /\ SubSeq(Left, k + 1, q - 1) = written[i].m_feeds[j].m_feed_address
<1> DEFINE u == written[i].m_feeds[j].m_feed_address
           n == Len(written[i].m_feeds)
<1>1. /\ Harmed(Left, File, damage) /\ File \in Seq(Symbol) /\ written \in Written /\ Len(File) \in Nat
  BY LeftIsHarmed
<1>2. /\ e = k + Len(u) + 1 /\ e \in Nat /\ e < Len(File) /\ u \in Word
      /\ TextAt(File, k, u) /\ File[e] = "quote"
  BY <1>1, FeedAhead DEF File
<1>3. k \in Nat /\ e <= Len(File)
  <2>1. k \in Nat
    BY <1>1, FeedOrder, WrittenParts
  <2> QED BY <1>1, <1>2, <2>1
<1>4. j \in 0 .. n /\ n \in Nat
  <2>1. n \in Nat
    BY <1>1, WrittenIsMedia
  <2> QED BY <2>1
<1>5. Loose(File, e)
  BY <1>1, <1>4, FeedIsLoose DEF File
<1> HIDE DEF u
<1>6. \/ OutOfStep(Left, q)
      \/ Shortened(Left, File, damage, e, q)
      \/ q = e /\ Doubled(Left, q) /\ SubSeq(Left, k + 1, q - 1) = u
  <2>1. Harmed(Left, File, damage) /\ ReadsTo(Left, k, q) /\ k < damage.at /\ damage.at <= e
    BY <1>1
  <2>2. u \in Word /\ TextAt(File, k, u) /\ e = k + Len(u) + 1
    BY <1>2
  <2>3. k \in Nat /\ e \in Nat /\ e <= Len(File) /\ File[e] = "quote"
    BY <1>2, <1>3
  <2> QED BY <1>5, <2>1, <2>2, <2>3, DamagedWord, SMTT(20)
<1> QED BY <1>6 DEF u

LEMMA AddRssToSectionDamaged ==
  ASSUME TInv, NEW k, NEW i, NEW j, Reading(k), InAddress(k, i, j),
         ~(FeedEnd(written, i, j) < damage.at), AddRssToSection
  PROVE  (\E l : Lost(l)') \/ (\E l : InSync(l)')
<1> DEFINE n == Len(written[i].m_feeds)
           u == written[i].m_feeds[j].m_feed_address
           address(q) == SubSeq(Left, k + 1, q - 1)
<1>0. PICK e : e = FeedEnd(written, i, j)
  OBVIOUS
<1>1. /\ Left \in Seq(Symbol) /\ Len(Left) \in Nat /\ written \in Written
      /\ Len(File) \in Nat /\ damage.at \in Nat
  BY LeftIsHarmed
<1>2. k \in 0 .. Len(Left) /\ rest = From(Left, k + 1) /\ k \in Nat
  BY ReadingIs
<1>3. PICK q : Addressed(Left, k, q)
  BY <1>1, <1>2, AddRssToSectionReads
<1>4. /\ i \in 1 .. Len(written) /\ j \in 1 .. n /\ k = AddressStart(written, i, j)
      /\ m_medias = ReadUpTo(i, NameRead(i, j)) /\ pc = "address"
  BY DEF InAddress
<1>5. n \in Nat /\ j \in 0 .. n
  <2>1. n \in Nat
    BY <1>1, <1>4, WrittenIsMedia
  <2> QED BY <1>4, <2>1
<1>6. e \in Nat /\ k < e
  BY <1>0, <1>1, <1>4, FeedOrder, WrittenParts
<1>7. damage.at <= e /\ k < damage.at
  BY <1>0, <1>1, <1>6 DEF Reading
<1>8. ReadsTo(Left, k, q) /\ ReachesFeeds(q) /\ m_medias' = WithAddress(m_medias, address(q))
  BY <1>3 DEF Addressed, ReachesFeeds
<1>9. \/ OutOfStep(Left, q)
      \/ Shortened(Left, File, damage, e, q)
      \/ q = e /\ Doubled(Left, q) /\ address(q) = u
  BY <1>0, <1>4, <1>7, <1>8, AddressWord
<1>10. address(q) \in Seq(Symbol) /\ q \in k + 1 .. Len(Left) + 1 /\ q \in Nat
  BY <1>1, <1>2, <1>8, TextTyped
<1> HIDE DEF address
<1>11. m_medias \in Seq(Media) /\ m_medias # <<>> /\ Last(m_medias).m_feeds # <<>>
  BY <1>4 DEF TInv
<1>12. Only(m_medias)
  BY <1>1, <1>4, AddressIsOnly
<1>13. Only(m_medias')
  BY <1>8, <1>10, <1>11, <1>12, AddressLeavesOnly
<1>14. UNCHANGED <<written, damage>>
  BY DEF AddRssToSection, files
<1>15. CASE OutOfStep(Left, q)
  BY <1>2, <1>8, <1>10, <1>13, <1>14, <1>15, FeedsOutOfStep
<1>16. CASE Doubled(Left, q) /\ address(q) = u
  <2>1. m_medias' = ReadUpTo(i, SubSeq(written[i].m_feeds, 1, j))
    BY <1>1, <1>4, <1>8, <1>16, AddressCompletes
  <2>2. Good(ReadUpTo(i, SubSeq(written[i].m_feeds, 1, j)))
    BY <1>1, <1>4, <1>5, FeedsAreGood
  <2>3. Good(m_medias')
    BY <2>1, <2>2
  <2> QED BY <1>8, <1>10, <1>13, <1>14, <1>16, <2>3, FeedsDoubled
<1>17. CASE Shortened(Left, File, damage, e, q)
  <2>1. Counts(m_medias, i, j)
    BY <1>1, <1>4, NamesCount
  <2>2. Counts(m_medias', i, j)
    BY <1>8, <1>10, <1>11, <2>1, AddressCounts
  <2>3. e >= 1
    BY <1>2, <1>6
  <2> QED BY <1>0, <1>4, <1>5, <1>6, <1>8, <1>14, <1>17, <2>2, <2>3, FeedsShortened
<1> QED BY <1>9, <1>15, <1>16, <1>17

LEMMA EndSectionDamaged ==
  ASSUME TInv, NEW k, NEW i, NEW j, Reading(k), InFeeds(k, i, j), ~(k + 1 < damage.at), EndSection
  PROVE  FALSE
<1>1. /\ Left \in Seq(Symbol) /\ Len(Left) \in Nat /\ written \in Written
      /\ Len(File) \in Nat /\ damage.at \in Nat /\ Harmed(Left, File, damage)
  BY LeftIsHarmed
<1>2. k \in 0 .. Len(Left) /\ rest = From(Left, k + 1) /\ k \in Nat /\ k + 1 <= damage.at
  BY ReadingIs
<1>3. Has(Left, k + 1, "end")
  BY <1>1, <1>2, EndSectionReads
<1>4. /\ i \in 1 .. Len(written) /\ j \in 0 .. Len(written[i].m_feeds) /\ k = FeedEnd(written, i, j)
  BY DEF InFeeds
<1>5. k + 1 <= Len(File) /\ (k + 2 <= Len(File) => File[k + 2] \in Texts \cup {"section"})
  BY <1>1, <1>4, BehindFeed DEF File
<1>6. damage.at = k + 1
  BY <1>1, <1>2
<1>7. "end" = "quote"
  BY <1>1, <1>2, <1>3, <1>5, <1>6, FeedsBroken
<1> QED BY <1>7

Parses == BeginSection \/ SetCurrentRssName \/ AddRssToSection \/ EndSection
Somewhere == (\E k : Exact(k)) \/ (\E k : Lost(k)) \/ (\E k : InSync(k))

LEMMA ExactParses ==
  ASSUME TInv, NEW k, Exact(k), Parses
  PROVE  Somewhere'
<1>1. Reading(k)
  BY DEF Exact
<1>2. written \in Written /\ Len(written) \in Nat
  BY LeftIsHarmed
<1>3. CASE BeginSection
  <2>1. PICK i : InSection(k, i)
    BY <1>3 DEF Exact, BeginSection, InFeeds, InAddress
  <2>2. i \in 0 .. Len(written)
    BY <2>1 DEF InSection
  <2>3. CASE i = Len(written)
    BY <1>1, <1>3, <2>1, <2>3, NoSectionBehind
  <2>4. CASE i < Len(written)
    BY <1>1, <1>3, <2>1, <2>4, BeginSectionExact, BeginSectionDamaged DEF Somewhere
  <2> QED BY <1>2, <2>2, <2>3, <2>4
<1>4. CASE SetCurrentRssName
  <2>1. PICK i : \E j : InFeeds(k, i, j)
    BY <1>4 DEF Exact, SetCurrentRssName, InSection, InAddress
  <2>2. PICK j : InFeeds(k, i, j)
    BY <2>1
  <2> QED BY <1>1, <1>4, <2>2, SetCurrentRssNameExact, SetCurrentRssNameDamaged DEF Somewhere
<1>5. CASE AddRssToSection
  <2>1. PICK i : \E j : InAddress(k, i, j)
    BY <1>5 DEF Exact, AddRssToSection, InSection, InFeeds
  <2>2. PICK j : InAddress(k, i, j)
    BY <2>1
  <2> QED BY <1>1, <1>5, <2>2, AddRssToSectionExact, AddRssToSectionDamaged DEF Somewhere
<1>6. CASE EndSection
  <2>1. PICK i : \E j : InFeeds(k, i, j)
    BY <1>6 DEF Exact, EndSection, InSection, InAddress
  <2>2. PICK j : InFeeds(k, i, j)
    BY <2>1
  <2> QED BY <1>1, <1>6, <2>2, EndSectionExact, EndSectionDamaged DEF Somewhere
<1> QED BY <1>3, <1>4, <1>5, <1>6 DEF Parses

LEMMA LostParses ==
  ASSUME TInv, NEW k, Lost(k), Parses
  PROVE  Somewhere'
<1>1. Left \in Seq(Symbol) /\ Len(Left) \in Nat
  BY LeftIsHarmed
<1>2. k \in 0 .. Len(Left) /\ rest = From(Left, k + 1) /\ Only(m_medias) /\ k \in Nat
  BY DEF Lost
<1>3. UNCHANGED <<written, damage>>
  BY DEF Parses, BeginSection, SetCurrentRssName, AddRssToSection, EndSection, files
<1>4. m_medias \in Seq(Media)
  BY DEF TInv
<1>5. CASE NotFull
  BY <1>5 DEF NotFull, Parses, BeginSection, SetCurrentRssName, AddRssToSection, EndSection
<1>6. CASE pc = "feeds" /\ Good(m_medias) /\ Has(Left, k + 1, "quote") /\ Loose(Left, k + 1)
  <2>1. ~EndSection
    <3>1. EndSection => Has(Left, k + 1, "end")
      BY <1>1, <1>2, EndSectionReads
    <3> QED BY <1>6, <3>1 DEF Has
  <2>2. SetCurrentRssName
    BY <1>6, <2>1 DEF Parses, BeginSection, AddRssToSection
  <2>3. PICK q : Named(Left, k, q)
    BY <1>1, <1>2, <2>2, SetCurrentRssNameReads
  <2>4. OutOfStep(Left, q)
    BY <1>6, <2>3 DEF Named, Loose
  <2>5. ~Fits(Left, q)
    BY <1>1, <2>4, OutOfStepFits
  <2>6. m_medias # <<>>
    BY <1>6 DEF TInv
  <2> QED BY <1>2, <1>3, <1>6, <2>3, <2>5, <2>6, NameFails DEF Somewhere
<1>7. CASE pc = "address" /\ Loose(Left, k)
  <2>1. AddRssToSection
    BY <1>7 DEF Parses, BeginSection, SetCurrentRssName, EndSection
  <2>2. PICK q : Addressed(Left, k, q)
    BY <1>1, <1>2, <2>1, AddRssToSectionReads
  <2> DEFINE address == SubSeq(Left, k + 1, q - 1)
  <2>3. ReadsTo(Left, k, q) /\ ReachesFeeds(q) /\ m_medias' = WithAddress(m_medias, address)
    BY <2>2 DEF Addressed, ReachesFeeds
  <2>4. address \in Seq(Symbol) /\ q \in k + 1 .. Len(Left) + 1
    BY <1>1, <1>2, <2>3, TextTyped
  <2> HIDE DEF address
  <2>5. OutOfStep(Left, q)
    BY <1>7, <2>3 DEF Loose
  <2>6. m_medias # <<>> /\ Last(m_medias).m_feeds # <<>>
    BY <1>7 DEF TInv
  <2>7. Only(m_medias')
    BY <1>2, <1>4, <2>3, <2>4, <2>6, AddressLeavesOnly
  <2> QED BY <1>2, <1>3, <2>3, <2>4, <2>5, <2>7, FeedsOutOfStep DEF Somewhere
<1> QED BY <1>5, <1>6, <1>7 DEF Lost

-----------------------------------------------------------------------------
(* Behind a text that is missing *)

LEMMA SyncSectionBegins ==
  ASSUME TInv, NEW k, InSync(k), NEW i, SyncSection(k, i), BeginSection
  PROVE  \E l : InSync(l)'
<1> DEFINE a == i + 1
           t == written[i + 1].m_media_name
           n == Len(File)
           at == n + 1
           o == k + 2
<1>0. PICK e : e = FeedEnd(written, i + 1, 0)
  OBVIOUS
<1>1. File \in Seq(Symbol) /\ n \in Nat /\ written \in Written /\ Len(written) \in Nat
  BY LeftIsHarmed
<1>2. TextLost /\ k \in 0 .. Len(File) /\ rest = From(File, k + 1) /\ k \in Nat
  BY DEF InSync
<1>3. i \in 0 .. Len(written) /\ k = SectionEnd(written, i) /\ Counts(m_medias, i, FeedsIn(i))
  BY DEF SyncSection, FeedsIn
<1>4. PICK q : Began(File, k, q)
  BY <1>1, <1>2, BeginSectionReads
<1>5. i < Len(written)
  <2>1. SUFFICES ASSUME i = Len(written) PROVE FALSE
    BY <1>1, <1>3
  <2>2. k = Len(File)
    BY <1>1, <1>3, <2>1, WrittenParts, SectionEnds DEF File
  <2>3. k + 1 <= Len(File)
    BY <1>4 DEF Began, Has
  <2> QED BY <1>1, <2>2, <2>3
<1>6. /\ e \in Nat /\ t \in Word /\ e = o + Len(t) + 1 /\ e < n
      /\ TextAt(File, o, t) /\ File[e] = "quote"
  BY <1>0, <1>1, <1>3, <1>5, SectionAhead DEF File
<1>7. Agrees(File, File, at) /\ e < at /\ e \in 0 .. n
  BY <1>1, <1>6 DEF Agrees
<1>8. ReadsTo(File, o, q) /\ o \in Nat
  BY <1>2, <1>4 DEF Began
<1> HIDE DEF t, at, o
<1>9. q = e /\ q <= Len(File)
  BY <1>1, <1>6, <1>7, <1>8, WordIsRead
<1> DEFINE m == [m_media_name |-> SubSeq(File, k + 2 + 1, q - 1), m_feeds |-> <<>>]
<1>10. m_medias' = Append(m_medias, m) /\ pc' = "feeds" /\ rest' = From(File, e + 1)
  BY <1>4, <1>9 DEF Began
<1>11. m.m_feeds = <<>>
  OBVIOUS
<1> HIDE DEF m
<1>12. m_medias \in Seq(Media) /\ i \in Nat
  <2>1. m_medias \in Seq(Media)
    BY DEF TInv
  <2>2. i \in Nat
    BY <1>1, <1>3
  <2> QED BY <2>1, <2>2
<1>13. Counts(m_medias', i + 1, 0)
  BY <1>3, <1>10, <1>11, <1>12, SectionCounts
<1>14. a \in 1 .. Len(written)
  BY <1>1, <1>3, <1>5
<1>15. 0 \in 0 .. Len(written[a].m_feeds)
  <2> HIDE DEF a
  <2>1. Len(written[a].m_feeds) \in Nat
    BY <1>1, <1>14, WrittenIsMedia
  <2> QED BY <2>1
<1>16. UNCHANGED <<written, damage>>
  BY DEF BeginSection, files
<1>17. /\ Counts(m_medias', a, 0) /\ FeedEnd(written, a, 0) \in 0 .. Len(File)
       /\ rest' = From(File, FeedEnd(written, a, 0) + 1)
  BY <1>0, <1>7, <1>10, <1>13
<1> HIDE DEF a
<1> QED BY <1>1, <1>2, <1>10, <1>14, <1>15, <1>16, <1>17, FeedsInSync

LEMMA SyncFeedsName ==
  ASSUME TInv, NEW k, InSync(k), NEW i, NEW j, SyncFeeds(k, i, j), SetCurrentRssName
  PROVE  \E l : InSync(l)'
<1> DEFINE n == Len(written[i].m_feeds)
           h == j + 1
           o == k + 1
           at == Len(File) + 1
<1>0. PICK a : a = AddressStart(written, i, h)
  OBVIOUS
<1>1. File \in Seq(Symbol) /\ Len(File) \in Nat /\ written \in Written
  BY LeftIsHarmed
<1>2. TextLost /\ k \in 0 .. Len(File) /\ rest = From(File, k + 1) /\ k \in Nat
  BY DEF InSync
<1>3. /\ i \in 1 .. Len(written) /\ j \in 0 .. n /\ k = FeedEnd(written, i, j)
      /\ Counts(m_medias, i, j) /\ pc = "feeds"
  BY DEF SyncFeeds
<1>4. PICK q : Named(File, k, q)
  BY <1>1, <1>2, SetCurrentRssNameReads
<1>5. Has(File, k + 1, "quote") /\ ReadsTo(File, o, q)
  BY <1>4 DEF Named
<1>6. n \in Nat
  BY <1>1, <1>3, WrittenIsMedia
<1>7. j < n
  <2>1. j = n => File[k + 1] = "end"
    BY <1>1, <1>3, BehindFeed DEF File
  <2>2. j # n
    BY <1>5, <2>1 DEF Has
  <2> QED BY <1>3, <1>6, <2>2
<1>8. h \in 1 .. n /\ h - 1 = j
  BY <1>3, <1>6, <1>7
<1> HIDE DEF h
<1> DEFINE t == written[i].m_feeds[h].m_feed_name
           u == written[i].m_feeds[h].m_feed_address
           l == Len(t)
           z == Len(u)
           e == FeedEnd(written, i, h)
           c == a - 2
<1>9. /\ k \in Nat /\ l \in Nat /\ z \in Nat /\ a = k + 1 + l + 1 + 2 /\ e = a + z + 1 /\ e < Len(File)
  BY <1>0, <1>1, <1>3, <1>8, FeedAhead DEF File
<1>10. /\ t \in Word /\ u \in Word /\ TextAt(File, o, t)
       /\ File[k + 1 + l + 1] = "quote" /\ File[k + 1 + l + 1 + 1] = "=" /\ File[k + 1 + l + 1 + 2] = "quote"
  BY <1>0, <1>1, <1>3, <1>8, FeedAhead DEF File
<1>11. z >= 1 /\ c = a - 2
  BY <1>10, WordParts
<1> HIDE DEF t, u, l, z, e, c, o
<1>12. Spans(k, l, a, z, e, Len(File))
  BY <1>1, <1>9, <1>11 DEF Spans
<1>13. /\ c \in Nat /\ c = k + 1 + l + 1 /\ c + 2 = a /\ c + 3 = a + 1 /\ c + 3 <= Len(File)
       /\ a \in Nat /\ k + 1 \in Nat
  BY <1>11, <1>12, NamePlaces
<1>14. /\ c = o + Len(t) + 1 /\ o \in Nat /\ File[c] = "quote"
  BY <1>10, <1>13 DEF l, o
<1>15. Agrees(File, File, at) /\ c < at
  BY <1>1, <1>13 DEF Agrees
<1> HIDE DEF at
<1>16. q = c
  <2>1. t \in Word /\ TextAt(File, o, t)
    BY <1>10
  <2>2. c \in Nat
    BY <1>13
  <2> QED BY <1>1, <1>5, <1>14, <1>15, <2>1, <2>2, WordIsRead
<1>17. Fits(File, q)
  <2>1. File[c + 1] = "=" /\ File[c + 2] = "quote"
    BY <1>10, <1>13
  <2>2. c <= Len(File) /\ c + 1 <= Len(File) /\ c + 2 <= Len(File)
    BY <1>1, <1>13
  <2> QED BY <1>14, <1>16, <2>1, <2>2 DEF Fits, Has
<1> DEFINE name == SubSeq(File, k + 1 + 1, q - 1)
<1>18. m_medias' = WithFeed(m_medias, name) /\ pc' = "address" /\ rest' = From(File, a + 1)
  <2>1. q + 3 = a + 1
    BY <1>13, <1>16
  <2> QED BY <1>4, <1>17, <2>1 DEF Named
<1>19. name \in Seq(Symbol)
  <2>1. o \in 0 .. Len(File)
    BY <1>1, <1>2, <1>5 DEF Has, o
  <2> QED BY <1>1, <1>5, <2>1, TextTyped DEF o
<1> HIDE DEF name
<1>20. m_medias \in Seq(Media) /\ m_medias # <<>>
  BY <1>3 DEF TInv
<1>21. Counts(m_medias', i, j + 1)
  BY <1>3, <1>18, <1>19, <1>20, FeedCounts
<1>22. Counts(m_medias', i, h)
  BY <1>21 DEF h
<1>23. UNCHANGED <<written, damage>>
  BY DEF SetCurrentRssName, files
<1>24. a \in 0 .. Len(File)
  BY <1>1, <1>13
<1> QED BY <1>0, <1>1, <1>2, <1>3, <1>8, <1>18, <1>22, <1>23, <1>24, AddressInSync

LEMMA SyncAddressRead ==
  ASSUME TInv, NEW k, InSync(k), NEW i, NEW j, SyncAddress(k, i, j), AddRssToSection
  PROVE  \E l : InSync(l)'
<1> DEFINE n == Len(written[i].m_feeds)
           u == written[i].m_feeds[j].m_feed_address
           at == Len(File) + 1
           address(q) == SubSeq(File, k + 1, q - 1)
<1>0. PICK e : e = FeedEnd(written, i, j)
  OBVIOUS
<1>1. File \in Seq(Symbol) /\ Len(File) \in Nat /\ written \in Written
  BY LeftIsHarmed
<1>2. TextLost /\ k \in 0 .. Len(File) /\ rest = From(File, k + 1) /\ k \in Nat
  BY DEF InSync
<1>3. /\ i \in 1 .. Len(written) /\ j \in 1 .. n /\ k = AddressStart(written, i, j)
      /\ Counts(m_medias, i, j) /\ pc = "address"
  BY DEF SyncAddress
<1>4. PICK q : Addressed(File, k, q)
  BY <1>1, <1>2, AddRssToSectionReads
<1>5. /\ e = k + Len(u) + 1 /\ e \in Nat /\ e < Len(File) /\ u \in Word
      /\ TextAt(File, k, u) /\ File[e] = "quote"
  BY <1>0, <1>1, <1>3, FeedAhead DEF File
<1>6. Agrees(File, File, at) /\ e < at /\ e \in 0 .. Len(File)
  BY <1>1, <1>5 DEF Agrees
<1>7. ReadsTo(File, k, q)
  BY <1>4 DEF Addressed
<1> HIDE DEF u, at
<1>8. q = e /\ q <= Len(File)
  BY <1>1, <1>2, <1>5, <1>6, <1>7, WordIsRead
<1>9. /\ m_medias' = WithAddress(m_medias, address(q)) /\ pc' = "feeds" /\ rest' = From(File, e + 1)
  BY <1>4, <1>8 DEF Addressed
<1>10. address(q) \in Seq(Symbol)
  BY <1>1, <1>2, <1>7, TextTyped
<1> HIDE DEF address
<1>11. m_medias \in Seq(Media) /\ m_medias # <<>> /\ Last(m_medias).m_feeds # <<>>
  BY <1>3 DEF TInv
<1>12. Counts(m_medias', i, j)
  BY <1>3, <1>9, <1>10, <1>11, AddressCounts
<1>13. UNCHANGED <<written, damage>>
  BY DEF AddRssToSection, files
<1>14. j \in 0 .. n
  <2>1. n \in Nat
    BY <1>1, <1>3, WrittenIsMedia
  <2> QED BY <1>3, <2>1
<1> QED BY <1>0, <1>1, <1>2, <1>3, <1>6, <1>9, <1>12, <1>13, <1>14, FeedsInSync

LEMMA SyncFeedsEnd ==
  ASSUME TInv, NEW k, InSync(k), NEW i, NEW j, SyncFeeds(k, i, j), EndSection
  PROVE  \E l : InSync(l)'
<1> DEFINE n == Len(written[i].m_feeds)
<1>1. File \in Seq(Symbol) /\ Len(File) \in Nat /\ written \in Written /\ Len(written) \in Nat
  BY LeftIsHarmed
<1>2. TextLost /\ k \in 0 .. Len(File) /\ rest = From(File, k + 1) /\ k \in Nat
  BY DEF InSync
<1>3. /\ i \in 1 .. Len(written) /\ j \in 0 .. n /\ k = FeedEnd(written, i, j)
      /\ Counts(m_medias, i, j) /\ pc = "feeds"
  BY DEF SyncFeeds
<1>4. /\ Has(File, k + 1, "end") /\ k + 1 \in 0 .. Len(File)
      /\ pc' = "section" /\ rest' = From(File, k + 1 + 1) /\ m_medias' = m_medias
  BY <1>1, <1>2, EndSectionReads
<1>5. n \in Nat
  BY <1>1, <1>3, WrittenIsMedia
<1>6. j = n
  <2>1. j < n => File[k + 1] = "quote"
    BY <1>1, <1>3, BehindFeed DEF File
  <2>2. ~(j < n)
    BY <1>4, <2>1 DEF Has
  <2> QED BY <1>3, <1>5, <2>2
<1>7. SectionEnd(written, i) = k + 1
  BY <1>1, <1>3, <1>6, EndAhead
<1>8. UNCHANGED <<written, damage>>
  BY DEF EndSection, files
<1>9. i # 0 /\ i \in 0 .. Len(written)
  BY <1>1, <1>3
<1>10. Counts(m_medias', i, n)
  BY <1>3, <1>4, <1>6
<1>11. Counts(m_medias, i, IF i = 0 THEN 0 ELSE Len(written[i].m_feeds))'
  BY <1>8, <1>9, <1>10 DEF Counts
<1> DEFINE x == k + 1
<1>12. SectionEnd(written, i)' = x
  BY <1>7, <1>8 DEF SectionEnd
<1>13. SyncSection(x, i)'
  BY <1>4, <1>8, <1>9, <1>11, <1>12 DEF SyncSection
<1>14. InStep(x)'
  BY <1>13 DEF InStep
<1>15. x \in 0 .. Len(File) /\ rest' = From(File, x + 1)
  BY <1>4
<1> HIDE DEF x
<1>16. InSync(x)'
  BY <1>2, <1>8, <1>14, <1>15, BecomesInSync
<1> QED BY <1>16

LEMMA SyncParses ==
  ASSUME TInv, NEW k, InSync(k), Parses
  PROVE  Somewhere'
<1>1. ASSUME \E l : InSync(l)' PROVE Somewhere'
  BY <1>1 DEF Somewhere
<1>2. ASSUME NEW i, SyncSection(k, i) PROVE Somewhere'
  <2>1. BeginSection
    BY <1>2 DEF SyncSection, Parses, SetCurrentRssName, AddRssToSection, EndSection
  <2> QED BY <1>1, <1>2, <2>1, SyncSectionBegins
<1>3. ASSUME NEW i, NEW j, SyncFeeds(k, i, j) PROVE Somewhere'
  <2>1. SetCurrentRssName \/ EndSection
    BY <1>3 DEF SyncFeeds, Parses, BeginSection, AddRssToSection
  <2> QED BY <1>1, <1>3, <2>1, SyncFeedsName, SyncFeedsEnd
<1>4. ASSUME NEW i, NEW j, SyncAddress(k, i, j) PROVE Somewhere'
  <2>1. AddRssToSection
    BY <1>4 DEF SyncAddress, Parses, BeginSection, SetCurrentRssName, EndSection
  <2> QED BY <1>1, <1>4, <2>1, SyncAddressRead
<1> QED BY <1>2, <1>3, <1>4 DEF InSync, InStep

-----------------------------------------------------------------------------
(* The grammar is left *)

LEMMA SyncIsFull ==
  ASSUME TInv, NEW k, InSync(k)
  PROVE  ~NotFull
<1>1. File \in Seq(Symbol) /\ Len(File) \in Nat /\ written \in Written /\ Len(written) \in Nat
  BY LeftIsHarmed
<1>2. k \in 0 .. Len(File) /\ rest = From(File, k + 1) /\ k \in Nat
  BY DEF InSync
<1>3. NotFull <=>
        \/ pc = "failed"
        \/ pc = "section" /\ k # Len(File) /\ ~(Has(File, k + 1, "section") /\ Has(File, k + 2, "quote"))
        \/ pc = "feeds" /\ ~Has(File, k + 1, "quote") /\ ~Has(File, k + 1, "end")
  BY <1>1, <1>2, NotFullAt
<1>4. ASSUME NEW i, SyncSection(k, i) PROVE ~NotFull
  <2> DEFINE e == FeedEnd(written, i + 1, 0)
             l == Len(written[i + 1].m_media_name)
             n == Len(File)
  <2>1. i \in 0 .. Len(written) /\ k = SectionEnd(written, i) /\ pc = "section"
    BY <1>4 DEF SyncSection
  <2>2. CASE i < Len(written)
    <3>1. /\ e \in Nat /\ e < n /\ e = k + 2 + l + 1 /\ l \in Nat /\ n \in Nat
          /\ File[k + 1] = "section" /\ File[k + 2] = "quote"
      BY <1>1, <2>1, <2>2, SectionAhead DEF File
    <3> HIDE DEF e, l, n
    <3>2. k + 1 <= n /\ k + 2 <= n
      BY <1>2, <3>1
    <3>3. Has(File, k + 1, "section") /\ Has(File, k + 2, "quote")
      BY <3>1, <3>2 DEF Has, n
    <3> QED BY <1>3, <2>1, <3>3
  <2>3. CASE i = Len(written)
    <3>1. k = n
      BY <1>1, <2>1, <2>3, WrittenParts, SectionEnds DEF File
    <3> QED BY <1>3, <2>1, <3>1
  <2> QED BY <1>1, <2>1, <2>2, <2>3
<1>5. ASSUME NEW i, NEW j, SyncFeeds(k, i, j) PROVE ~NotFull
  <2> DEFINE n == Len(written[i].m_feeds)
  <2>1. i \in 1 .. Len(written) /\ j \in 0 .. n /\ k = FeedEnd(written, i, j) /\ pc = "feeds"
    BY <1>5 DEF SyncFeeds
  <2>2. n \in Nat
    BY <1>1, <2>1, WrittenIsMedia
  <2>3. k + 1 <= Len(File) /\ (j < n => File[k + 1] = "quote") /\ (j = n => File[k + 1] = "end")
    BY <1>1, <2>1, BehindFeed DEF File
  <2>4. j < n \/ j = n
    BY <2>1, <2>2
  <2>5. Has(File, k + 1, "quote") \/ Has(File, k + 1, "end")
    BY <2>3, <2>4 DEF Has
  <2> QED BY <1>3, <2>1, <2>5
<1>6. ASSUME NEW i, NEW j, SyncAddress(k, i, j) PROVE ~NotFull
  BY <1>3, <1>6 DEF SyncAddress
<1> QED BY <1>4, <1>5, <1>6 DEF InSync, InStep

LEMMA RejectLeavesOnly ==
  ASSUME TInv, Somewhere, NotFull
  PROVE  Only(m_medias)
<1>1. written \in Written /\ Len(written) \in Nat
  BY LeftIsHarmed
<1>2. ASSUME NEW k, Exact(k) PROVE Only(m_medias)
  <2>1. ASSUME NEW i, InSection(k, i) PROVE Only(m_medias)
    <3>1. i \in 0 .. Len(written) /\ m_medias = SubSeq(written, 1, i)
      BY <2>1 DEF InSection
    <3> QED BY <1>1, <3>1, SectionIsGood, GoodIsOnly
  <2>2. ASSUME NEW i, NEW j, InFeeds(k, i, j) PROVE Only(m_medias)
    <3>1. /\ i \in 1 .. Len(written) /\ j \in 0 .. Len(written[i].m_feeds)
          /\ m_medias = ReadUpTo(i, SubSeq(written[i].m_feeds, 1, j))
      BY <2>2 DEF InFeeds
    <3> QED BY <1>1, <3>1, FeedsAreGood, GoodIsOnly
  <2>3. ASSUME NEW i, NEW j, InAddress(k, i, j) PROVE FALSE
    BY <2>3 DEF InAddress, NotFull
  <2> QED BY <1>2, <2>1, <2>2, <2>3 DEF Exact
<1>3. ASSUME NEW k, Lost(k) PROVE Only(m_medias)
  BY <1>3 DEF Lost
<1>4. ASSUME NEW k, InSync(k) PROVE FALSE
  BY <1>4, SyncIsFull
<1> QED BY <1>2, <1>3, <1>4 DEF Somewhere

\* Nothing is left to be read.
LEMMA EndReached ==
  ASSUME NEW s \in Seq(Symbol), NEW k \in 0 .. Len(s), From(s, k + 1) = <<>>
  PROVE  k = Len(s)
<1>1. Len(From(s, k + 1)) = Len(s) - k
  BY FromIs
<1>2. Len(From(s, k + 1)) = 0
  OBVIOUS
<1>3. Len(s) - k = 0
  BY <1>1, <1>2, Zenon
<1> QED BY <1>3

LEMMA AcceptExact ==
  ASSUME TInv, NEW k, Exact(k), Accept
  PROVE  Intact
<1>1. /\ Left \in Seq(Symbol) /\ written \in Written /\ Harmed(Left, File, damage)
      /\ Len(Left) \in Nat /\ Len(File) \in Nat /\ damage.at \in Nat
  BY LeftIsHarmed
<1>2. k \in 0 .. Len(Left) /\ rest = From(Left, k + 1) /\ k \in Nat /\ k < damage.at
  BY ReadingIs DEF Exact, Reading
<1>3. pc = "section" /\ rest = <<>>
  BY DEF Accept
<1>4. k = Len(Left)
  BY <1>1, <1>2, <1>3, EndReached
<1>5. PICK i : InSection(k, i)
  BY <1>3 DEF Exact, InFeeds, InAddress
<1>6. i \in 0 .. Len(written) /\ m_medias = SubSeq(written, 1, i)
  BY <1>5 DEF InSection
<1>7. written \in Seq(Media) /\ Len(written) \in Nat
  BY <1>1, WrittenIsMedia
<1>8. Begins(m_medias, written) /\ m_medias \in Seq(Media)
  <2>1. m_medias \in Seq(Media) /\ Len(m_medias) = i /\ \A x \in 1 .. i : m_medias[x] = written[x]
    BY <1>6, <1>7
  <2>2. Len(m_medias) <= Len(written)
    BY <1>6, <1>7, <2>1
  <2> QED BY <2>1, <2>2 DEF Begins
<1>9. IsPrefix(m_medias, written)
  BY <1>7, <1>8, PrefixIs
<1>10. damage.kind \in {"none", "cut"}
  <2> DEFINE n == Len(File)
             m == Len(Left)
             at == damage.at
  <2>1. /\ damage.kind \in {"none", "cut", "drop", "quote"} /\ at \in 1 .. n + 1 /\ at <= m + 1
        /\ damage.kind = "drop" => m = n - 1 /\ at <= n
        /\ damage.kind = "quote" => m = n + 1
    BY <1>1 DEF Harmed
  <2>2. m \in Nat /\ n \in Nat /\ at \in Nat /\ m < at
    BY <1>1, <1>2, <1>4
  <2> HIDE DEF n, m, at
  <2>3. damage.kind # "quote"
    BY <2>1, <2>2
  <2>4. CASE damage.kind = "drop"
    <3>1. k = SectionEnd(written, i)
      BY <1>5 DEF InSection
    <3>2. k = m
      BY <1>4 DEF m
    <3>3. m = n - 1
      BY <2>1, <2>4
    <3>4. CASE i = Len(written)
      <4>1. k = n
        BY <1>1, <3>1, <3>4, WrittenParts, SectionEnds DEF File, n
      <4> QED BY <2>2, <3>2, <3>3, <4>1
    <3>5. CASE i < Len(written)
      <4> DEFINE e == FeedEnd(written, i + 1, 0)
                 l == Len(written[i + 1].m_media_name)
      <4>1. e \in Nat /\ e < n /\ e = k + 2 + l + 1 /\ l \in Nat
        BY <1>1, <1>6, <3>1, <3>5, SectionAhead DEF File, n
      <4> HIDE DEF e, l
      <4> QED BY <1>2, <2>2, <3>2, <3>3, <4>1
    <3> QED BY <1>6, <1>7, <3>4, <3>5
  <2> QED BY <2>1, <2>3, <2>4
<1> QED BY <1>9, <1>10 DEF Intact

LEMMA AcceptSync ==
  ASSUME TInv, NEW k, InSync(k), Accept
  PROVE  Intact
<1>1. File \in Seq(Symbol) /\ Len(File) \in Nat /\ written \in Written /\ Len(written) \in Nat
  BY LeftIsHarmed
<1>2. TextLost /\ k \in 0 .. Len(File) /\ rest = From(File, k + 1) /\ k \in Nat
  BY DEF InSync
<1>3. pc = "section" /\ rest = <<>>
  BY DEF Accept
<1>4. k = Len(File)
  BY <1>1, <1>2, <1>3, EndReached
<1>5. PICK i : SyncSection(k, i)
  BY <1>3 DEF InSync, InStep, SyncFeeds, SyncAddress
<1>6. i \in 0 .. Len(written) /\ k = SectionEnd(written, i) /\ Counts(m_medias, i, FeedsIn(i))
  BY <1>5 DEF SyncSection, FeedsIn
<1>7. ~(i < Len(written))
  <2> SUFFICES ASSUME i < Len(written) PROVE FALSE
    OBVIOUS
  <2> DEFINE e == FeedEnd(written, i + 1, 0)
             l == Len(written[i + 1].m_media_name)
             n == Len(File)
  <2>1. e \in Nat /\ e < n /\ e = k + 2 + l + 1 /\ l \in Nat
    BY <1>1, <1>6, SectionAhead DEF File
  <2>2. k = n
    BY <1>4
  <2> HIDE DEF e, l, n
  <2> QED BY <1>2, <2>1, <2>2
<1>8. i = Len(written)
  BY <1>1, <1>6, <1>7
<1>9. /\ Len(m_medias) = i
      /\ \A x \in 1 .. i : Len(m_medias[x].m_feeds) = IF x = i THEN FeedsIn(i) ELSE Len(written[x].m_feeds)
  BY <1>6 DEF Counts
<1>10. ASSUME NEW x \in 1 .. i PROVE Len(m_medias[x].m_feeds) = Len(written[x].m_feeds)
  BY <1>6, <1>9 DEF FeedsIn
<1> QED BY <1>2, <1>8, <1>9, <1>10 DEF Intact

LEMMA AcceptLosesNothing ==
  ASSUME TInv, Somewhere, Accept
  PROVE  Intact
<1>1. ASSUME NEW k, Lost(k) PROVE FALSE
  <2>1. NotFull
    BY <1>1 DEF Lost, Accept
  <2> QED BY <2>1 DEF NotFull, Accept
<1> QED BY <1>1, AcceptExact, AcceptSync DEF Somewhere

-----------------------------------------------------------------------------
(* The inductive invariant of OnlyTheLastIsBroken and NoSilentLoss *)

LEMMA OnlyStays ==
  ASSUME UNCHANGED <<written, m_medias>>, Only(m_medias)
  PROVE  Only(m_medias)'
  BY DEF Only, AllFeeds

LEMMA IntactStays ==
  ASSUME UNCHANGED <<written, damage, m_medias>>, Intact
  PROVE  Intact'
<1>1. File' = File
  BY DEF File
<1>2. TextLost => TextLost'
  BY <1>1 DEF TextLost
<1> QED BY <1>2 DEF Intact

LEMMA SomewhereStays ==
  ASSUME UNCHANGED <<written, damage, m_medias, rest, pc>>, Somewhere
  PROVE  Somewhere'
<1>1. ASSUME NEW k, Exact(k) PROVE Exact(k)'
  BY <1>1, ExactStays
<1>2. ASSUME NEW k, Lost(k) PROVE Lost(k)'
  <2>1. k \in 0 .. Len(Left) /\ rest' = From(Left, k + 1)
    BY <1>2 DEF Lost
  <2>2. Only(m_medias) /\ m_medias' = m_medias
    BY <1>2 DEF Lost
  <2>3. \/ NotFull'
        \/ pc' = "feeds" /\ Good(m_medias') /\ Has(Left, k + 1, "quote") /\ Loose(Left, k + 1)
        \/ pc' = "address" /\ Loose(Left, k)
    BY <1>2, <2>2 DEF Lost, NotFull
  <2> QED BY <2>1, <2>2, <2>3, BecomesLost
<1>3. ASSUME NEW k, InSync(k) PROVE InSync(k)'
  <2>1. TextLost /\ k \in 0 .. Len(File) /\ rest' = From(File, k + 1) /\ InStep(k)
    BY <1>3 DEF InSync
  <2>2. ASSUME NEW i, SyncSection(k, i) PROVE SyncSection(k, i)'
    BY <2>2 DEF SyncSection, Counts
  <2>3. ASSUME NEW i, NEW j, SyncFeeds(k, i, j) PROVE SyncFeeds(k, i, j)'
    BY <2>3 DEF SyncFeeds, Counts
  <2>4. ASSUME NEW i, NEW j, SyncAddress(k, i, j) PROVE SyncAddress(k, i, j)'
    BY <2>4 DEF SyncAddress, Counts
  <2>5. InStep(k)'
    BY <2>1, <2>2, <2>3, <2>4 DEF InStep
  <2> QED BY <2>1, <2>5, BecomesInSync
<1> QED BY <1>1, <1>2, <1>3 DEF Somewhere

LEMMA LInvIs ==
  LInv <=> /\ TInv
           /\ pc = "parse" => m_medias = <<>>
           /\ pc \in {"section", "feeds", "address", "failed"} => Somewhere
           /\ pc \in {"parse", "section", "feeds", "address", "failed"} => logged = "nothing"
           /\ pc = "watch" => /\ logged = "parse error" => Only(m_medias)
                              /\ logged = "nothing" => Intact
  BY DEF LInv, Somewhere

LEMMA InitLInv == Init => LInv
  BY InitTyped DEF Init, LInv

LEMMA LInvStep == LInv /\ [Next]_vars => LInv'
<1> SUFFICES ASSUME LInv, [Next]_vars PROVE LInv'
  OBVIOUS
<1>1. TInv /\ TInv'
  BY TypedStep DEF LInv
<1> DEFINE J == /\ pc = "parse" => m_medias = <<>>
                /\ pc \in {"section", "feeds", "address", "failed"} => Somewhere
                /\ pc \in {"parse", "section", "feeds", "address", "failed"} => logged = "nothing"
                /\ pc = "watch" => /\ logged = "parse error" => Only(m_medias)
                                   /\ logged = "nothing" => Intact
<1>2. J
  BY LInvIs
<1>3. ASSUME UNCHANGED vars PROVE J'
  <2>1. UNCHANGED <<written, damage, m_medias, rest, pc, logged>>
    BY <1>3 DEF vars, files
  <2>2. Somewhere => Somewhere'
    BY <2>1, SomewhereStays
  <2>3. Only(m_medias) => Only(m_medias)'
    BY <2>1, OnlyStays
  <2>4. Intact => Intact'
    BY <2>1, IntactStays
  <2> QED BY <1>2, <2>1, <2>2, <2>3, <2>4
<1>4. ASSUME ReadLine PROVE J'
  BY <1>2, <1>4 DEF ReadLine
<1>5. ASSUME ReadFeedsFile PROVE J'
  <2>1. m_medias = <<>> /\ logged = "nothing" /\ pc' = "section" /\ logged' = logged
    BY <1>2, <1>5 DEF ReadFeedsFile
  <2>2. Exact(0)'
    BY <1>1, <1>5, <2>1, StartsExact
  <2>3. Somewhere'
    BY <2>2 DEF Somewhere
  <2> QED BY <2>1, <2>3
<1>6. ASSUME CouldNotOpen PROVE J'
  BY <1>6 DEF CouldNotOpen
<1>7. ASSUME Parses PROVE J'
  <2>1. /\ UNCHANGED logged /\ pc \in {"section", "feeds", "address"}
        /\ pc' \in {"section", "feeds", "address", "failed"}
    BY <1>7 DEF Parses, BeginSection, SetCurrentRssName, AddRssToSection, EndSection, Expect
  <2>2. Somewhere
    BY <1>2, <2>1
  <2>3. Somewhere'
    BY <1>1, <1>7, <2>2, ExactParses, LostParses, SyncParses DEF Somewhere
  <2> QED BY <1>2, <2>1, <2>3
<1>8. ASSUME Reject PROVE J'
  <2>1. /\ NotFull /\ pc' = "watch" /\ logged' = "parse error"
        /\ UNCHANGED <<written, m_medias>>
    BY <1>8 DEF Reject, files
  <2>2. Somewhere
    BY <1>2, <2>1 DEF NotFull
  <2>3. Only(m_medias)'
    BY <1>1, <2>1, <2>2, RejectLeavesOnly, OnlyStays
  <2> QED BY <2>1, <2>3
<1>9. ASSUME Accept PROVE J'
  <2>1. /\ pc = "section" /\ pc' = "watch" /\ logged' = logged
        /\ UNCHANGED <<written, damage, m_medias>>
    BY <1>9 DEF Accept, files
  <2>2. Somewhere /\ logged = "nothing"
    BY <1>2, <2>1
  <2>3. Intact'
    BY <1>1, <1>9, <2>1, <2>2, AcceptLosesNothing, IntactStays
  <2> QED BY <2>1, <2>2, <2>3
<1>10. ASSUME Restart PROVE J'
  BY <1>10 DEF Restart
<1>11. J'
  BY <1>3, <1>4, <1>5, <1>6, <1>7, <1>8, <1>9, <1>10 DEF Next, Parses
<1> QED BY <1>1, <1>11 DEF LInv, Somewhere

LEMMA LInvOnly == LInv => OnlyTheLastIsBroken
<1> SUFFICES ASSUME LInv, pc = "watch", logged = "parse error", AllFeeds(m_medias) # <<>>
             PROVE  IsPrefix(Front(AllFeeds(m_medias)), AllFeeds(written))
  BY DEF OnlyTheLastIsBroken
<1>1. Begins(Front(AllFeeds(m_medias)), AllFeeds(written))
  BY DEF LInv, Only
<1>2. m_medias \in Seq(Media) /\ written \in Written
  BY DEF LInv, TInv
<1>3. AllFeeds(m_medias) \in Seq(Feed) /\ AllFeeds(written) \in Seq(Feed)
  BY <1>2, WrittenIsMedia, AllFeedsTyped
<1>4. Front(AllFeeds(m_medias)) \in Seq(Feed)
  BY <1>3, FrontAndLast
<1> QED BY <1>1, <1>3, <1>4, PrefixIs

LEMMA LInvNoLoss == LInv => NoSilentLoss
<1> SUFFICES ASSUME LInv, pc = "watch", logged = "nothing"
             PROVE  \/ damage.kind \in {"none", "cut"} /\ IsPrefix(m_medias, written)
                    \/ /\ damage.kind = "drop" /\ Write(written)[damage.at] \in Texts
                       /\ Len(m_medias) = Len(written)
                       /\ \A i \in DOMAIN written : Len(m_medias[i].m_feeds) = Len(written[i].m_feeds)
  BY DEF NoSilentLoss
<1>1. Intact /\ written \in Written
  BY DEF LInv, TInv
<1>2. DOMAIN written = 1 .. Len(written)
  BY <1>1, WrittenIsMedia
<1> QED BY <1>1, <1>2 DEF Intact, TextLost, File

\* However the feeds file was damaged, the feeds that a rejected file leaves are
\* the ones the user wrote, in their order and from the first one on, with the
\* exception of the last of them.
THEOREM RejectionBreaksOneFeed == Spec => []OnlyTheLastIsBroken
<1>1. Init => LInv
  BY InitLInv
<1>2. LInv /\ [Next]_vars => LInv'
  BY LInvStep
<1>3. LInv => OnlyTheLastIsBroken
  BY LInvOnly
<1> QED BY <1>1, <1>2, <1>3, PTL DEF Spec

\* A feeds file that the grammar accepts is undamaged or was cut between two
\* sections, or has lost a single text and none of its feeds: no other damage
\* passes unnoticed.
THEOREM AcceptanceLosesNoFeed == Spec => []NoSilentLoss
<1>1. Init => LInv
  BY InitLInv
<1>2. LInv /\ [Next]_vars => LInv'
  BY LInvStep
<1>3. LInv => NoSilentLoss
  BY LInvNoLoss
<1> QED BY <1>1, <1>2, <1>3, PTL DEF Spec
=============================================================================
