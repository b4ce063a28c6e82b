------------------------- MODULE FeedDocumentProofs -------------------------
(***************************************************************************)
(* TLAPS proofs about FeedDocument, for any feeds and any way a text is cut: *)
(* what TinyXML and xml_feed_visitor make of a feed that is whole, cut       *)
(* anywhere or without one of its symbols.                                 *)
(***************************************************************************)
EXTENDS FeedDocument, Induction, FiniteSetTheorems

Symbol == [is : {"start", "end"}, of : Tags] \cup [is : {"text"}, of : Texts]

LEMMA FieldParts == ASSUME NEW f \in Field PROVE f.tag \in Tags /\ f.text \in Texts
  BY DEF Field, Tags

LEMMA EditionParts ==
  ASSUME NEW edition \in Editions
  PROVE  /\ edition \in Seq(Seq(Field)) /\ Len(edition) \in Nat
         /\ \A i \in 1 .. Len(edition) : edition[i] \in Seq(Field)
<1>1. edition \in Seq(Seq(Field))
  BY EditionsAssumption
<1> QED BY <1>1, ElementOf

-----------------------------------------------------------------------------
(* The document of an edition *)

LEMMA OfFieldIs ==
  ASSUME NEW f \in Field
  PROVE  /\ OfField(f) \in Seq(Symbol) /\ Len(OfField(f)) = 3
         /\ OfField(f)[1] = StartTag(f.tag)
         /\ OfField(f)[2] = Text(f.text)
         /\ OfField(f)[3] = EndTag(f.tag)
<1>1. StartTag(f.tag) \in Symbol /\ Text(f.text) \in Symbol /\ EndTag(f.tag) \in Symbol
  BY FieldParts DEF StartTag, Text, EndTag, Symbol
<1> QED BY <1>1 DEF OfField

\* Three symbols for each field.
LEMMA FieldsAre ==
  ASSUME NEW item \in Seq(Field)
  PROVE  LET fields == FlattenSeq([j \in DOMAIN item |-> OfField(item[j])])
         IN /\ fields \in Seq(Symbol) /\ Len(fields) = 3 * Len(item)
            /\ \A j \in 1 .. Len(item) : \A m \in 1 .. 3 :
                 fields[3 * (j - 1) + m] = OfField(item[j])[m]
<1> DEFINE seqs == [j \in DOMAIN item |-> OfField(item[j])]
           N == Len(item)
           T == {k \in Nat : k <= N => Before(seqs, k) = 3 * k}
<1>1. N \in Nat /\ DOMAIN item = 1 .. N /\ \A j \in 1 .. N : item[j] \in Field
  OBVIOUS
<1>2. \A j \in 1 .. N : seqs[j] = OfField(item[j]) /\ seqs[j] \in Seq(Symbol) /\ Len(seqs[j]) = 3
  BY <1>1, OfFieldIs
<1>3. seqs \in Seq(Seq(Symbol)) /\ Len(seqs) = N
  <2>1. seqs = [j \in DOMAIN item |-> seqs[j]]
    OBVIOUS
  <2> HIDE DEF seqs
  <2> QED BY <1>1, <1>2, <2>1, MapIsSeq DEF N
<1> HIDE DEF seqs, N
<1>4. /\ FlattenSeq(seqs) \in Seq(Symbol)
      /\ Before(seqs, 0) = 0
      /\ Before(seqs, N) = Len(FlattenSeq(seqs))
      /\ \A k \in 1 .. N :
           /\ Before(seqs, k) = Before(seqs, k - 1) + Len(seqs[k])
           /\ \A m \in 1 .. Len(seqs[k]) :
                FlattenSeq(seqs)[Before(seqs, k - 1) + m] = seqs[k][m]
  BY <1>3, FlattenPlaces
<1>5. 0 \in T
  BY <1>4
<1>6. ASSUME NEW k \in Nat, k \in T PROVE k + 1 \in T
  <2>1. SUFFICES ASSUME k + 1 <= N PROVE Before(seqs, k + 1) = 3 * (k + 1)
    OBVIOUS
  <2>2. k + 1 \in 1 .. N /\ k + 1 - 1 = k /\ Before(seqs, k) = 3 * k
    BY <1>1, <1>6, <2>1
  <2>3. Before(seqs, k + 1) = Before(seqs, k + 1 - 1) + Len(seqs[k + 1])
    BY <1>4, <2>2
  <2>4. Len(seqs[k + 1]) = 3
    BY <1>2, <2>2
  <2> QED BY <2>2, <2>3, <2>4
<1> HIDE DEF T
<1>7. \A k \in Nat : k \in T
  BY <1>5, <1>6, SetInduction
<1>8. \A k \in 0 .. N : Before(seqs, k) = 3 * k
  BY <1>1, <1>7 DEF T
<1>9. ASSUME NEW j \in 1 .. N, NEW m \in 1 .. 3
      PROVE  FlattenSeq(seqs)[3 * (j - 1) + m] = OfField(item[j])[m]
  <2>1. j - 1 \in 0 .. N
    BY <1>1
  <2>2. Before(seqs, j - 1) = 3 * (j - 1)
    BY <1>8, <2>1
  <2> QED BY <1>2, <1>4, <2>2
<1>10. Len(FlattenSeq(seqs)) = 3 * N
  BY <1>1, <1>4, <1>8
<1> QED BY <1>4, <1>9, <1>10 DEF seqs, N

\* w is s, t and u one behind the other.
Joined(w, s, t, u) ==
  /\ Len(w) = Len(s) + Len(t) + Len(u)
  /\ \A i \in 1 .. Len(s) : w[i] = s[i]
  /\ \A i \in 1 .. Len(t) : w[Len(s) + i] = t[i]
  /\ \A i \in 1 .. Len(u) : w[Len(s) + Len(t) + i] = u[i]

LEMMA Concat3 ==
  ASSUME NEW S, NEW s \in Seq(S), NEW t \in Seq(S), NEW u \in Seq(S)
  PROVE  s \o t \o u \in Seq(S) /\ Joined(s \o t \o u, s, t, u)
<1> DEFINE v == s \o t
<1>1. /\ v \in Seq(S) /\ Len(v) = Len(s) + Len(t)
      /\ \A i \in 1 .. Len(s) + Len(t) : v[i] = IF i <= Len(s) THEN s[i] ELSE t[i - Len(s)]
  BY ConcatProperties, Zenon
<1>0. v \in Seq(S)
  BY <1>1
<1> HIDE DEF v
<1>2. /\ v \o u \in Seq(S) /\ Len(v \o u) = Len(v) + Len(u)
      /\ \A i \in 1 .. Len(v) + Len(u) : (v \o u)[i] = IF i <= Len(v) THEN v[i] ELSE u[i - Len(v)]
  BY <1>0, ConcatProperties, Zenon
<1> DEFINE w == v \o u
<1>3. Len(s) \in Nat /\ Len(t) \in Nat /\ Len(u) \in Nat
  OBVIOUS
<1> HIDE DEF w
<1>4. \A i \in 1 .. Len(s) : w[i] = s[i]
  BY <1>1, <1>2, <1>3 DEF w
<1>5. ASSUME NEW i \in 1 .. Len(t) PROVE w[Len(s) + i] = t[i]
  <2>1. /\ Len(s) + i \in 1 .. Len(s) + Len(t) /\ Len(s) + i \in 1 .. Len(v) + Len(u)
        /\ Len(s) + i <= Len(v) /\ ~(Len(s) + i <= Len(s)) /\ Len(s) + i - Len(s) = i
    BY <1>1, <1>3
  <2> QED BY <1>1, <1>2, <2>1 DEF w
<1>6. ASSUME NEW i \in 1 .. Len(u) PROVE w[Len(s) + Len(t) + i] = u[i]
  <2>1. /\ Len(v) + i \in 1 .. Len(v) + Len(u)
        /\ ~(Len(v) + i <= Len(v)) /\ Len(v) + i - Len(v) = i
    BY <1>1, <1>3
  <2>2. w[Len(v) + i] = u[i]
    BY <1>2, <2>1 DEF w
  <2> QED BY <1>1, <2>2
<1>7. Joined(w, s, t, u)
  BY <1>1, <1>2, <1>4, <1>5, <1>6 DEF w, Joined
<1> QED BY <1>2, <1>7 DEF v, w

LEMMA TagsAreSymbols ==
  ASSUME NEW tag \in Tags PROVE StartTag(tag) \in Symbol /\ EndTag(tag) \in Symbol
  BY DEF StartTag, EndTag, Symbol

LEMMA OfItemIs ==
  ASSUME NEW item \in Seq(Field)
  PROVE  /\ OfItem(item) \in Seq(Symbol) /\ Len(OfItem(item)) = 3 * Len(item) + 2
         /\ OfItem(item)[1] = StartTag("item")
         /\ \A j \in 1 .. Len(item) : \A m \in 1 .. 3 :
              OfItem(item)[1 + (3 * (j - 1) + m)] = OfField(item[j])[m]
         /\ OfItem(item)[3 * Len(item) + 2] = EndTag("item")
<1> DEFINE s == <<StartTag("item")>>
           t == FlattenSeq([j \in DOMAIN item |-> OfField(item[j])])
           u == <<EndTag("item")>>
<1>1. s \in Seq(Symbol) /\ u \in Seq(Symbol) /\ Len(s) = 1 /\ Len(u) = 1
  <2>1. "item" \in Tags
    BY DEF Tags
  <2> QED BY <2>1, TagsAreSymbols
<1>2. s[1] = StartTag("item") /\ u[1] = EndTag("item")
  OBVIOUS
<1>3. /\ t \in Seq(Symbol) /\ Len(t) = 3 * Len(item)
      /\ \A j \in 1 .. Len(item) : \A m \in 1 .. 3 :
           t[3 * (j - 1) + m] = OfField(item[j])[m]
  BY FieldsAre
<1>4. OfItem(item) = s \o t \o u
  BY DEF OfItem
<1>5. Len(item) \in Nat
  OBVIOUS
<1> HIDE DEF s, t, u
<1> DEFINE w == s \o t \o u
<1>6. w \in Seq(Symbol) /\ Joined(w, s, t, u)
  <2>1. s \in Seq(Symbol)
    BY <1>1
  <2>2. t \in Seq(Symbol)
    BY <1>3
  <2>3. u \in Seq(Symbol)
    BY <1>1
  <2> QED BY <2>1, <2>2, <2>3, Concat3, Zenon
<1> HIDE DEF w
<1>7. Len(w) = 3 * Len(item) + 2 /\ w[1] = s[1] /\ w[3 * Len(item) + 2] = u[1]
  <2>1. Len(s) + Len(t) + 1 = 3 * Len(item) + 2 /\ 1 \in 1 .. Len(s) /\ 1 \in 1 .. Len(u)
    BY <1>1, <1>3, <1>5
  <2>2. w[Len(s) + Len(t) + 1] = u[1]
    BY <1>6, <2>1 DEF Joined
  <2> QED BY <1>1, <1>3, <1>5, <1>6, <2>1, <2>2 DEF Joined
<1>8. ASSUME NEW j \in 1 .. Len(item), NEW m \in 1 .. 3
      PROVE  w[1 + (3 * (j - 1) + m)] = OfField(item[j])[m]
  <2>1. 3 * (j - 1) + m \in 1 .. Len(t)
    BY <1>3, <1>5
  <2>2. w[Len(s) + (3 * (j - 1) + m)] = t[3 * (j - 1) + m]
    BY <1>6, <2>1 DEF Joined
  <2> QED BY <1>1, <1>3, <2>2
<1> QED BY <1>2, <1>4, <1>6, <1>7, <1>8 DEF w

LEMMA PrefixElements ==
  ASSUME NEW S, NEW s \in Seq(S), NEW k \in 0 .. Len(s)
  PROVE  /\ SubSeq(s, 1, k) \in Seq(S) /\ Len(SubSeq(s, 1, k)) = k
         /\ DOMAIN SubSeq(s, 1, k) = 1 .. k
         /\ \A i \in 1 .. k : SubSeq(s, 1, k)[i] = s[i]
  OBVIOUS

LEMMA EqualSeqs ==
  ASSUME NEW S, NEW s \in Seq(S), NEW t \in Seq(S), Len(s) = Len(t),
         \A i \in 1 .. Len(s) : s[i] = t[i]
  PROVE  s = t
  BY SeqEqual

\* Where an item starts, and what stands where in the document.
ItemsAt(edition) ==
  /\ StartsAt(edition, 1) = 3
  /\ \A i \in 1 .. Len(edition) + 1 : StartsAt(edition, i) \in Nat
  /\ \A i \in 1 .. Len(edition) :
       StartsAt(edition, i + 1) = StartsAt(edition, i) + 3 * Len(edition[i]) + 2

Layout(document, edition) ==
  LET N == Len(edition)
      s(i) == StartsAt(edition, i)
  IN /\ Len(document) = s(N + 1) + 1
     /\ document[1] = StartTag("rss")
     /\ document[2] = StartTag("channel")
     /\ \A i \in 1 .. N :
          /\ document[s(i)] = StartTag("item")
          /\ document[s(i) + 3 * Len(edition[i]) + 1] = EndTag("item")
     /\ \A i \in 1 .. N : \A j \in 1 .. Len(edition[i]) :
          /\ document[s(i) + 3 * j - 2] = StartTag(edition[i][j].tag)
          /\ document[s(i) + 3 * j - 1] = Text(edition[i][j].text)
          /\ document[s(i) + 3 * j] = EndTag(edition[i][j].tag)
     /\ document[s(N + 1)] = EndTag("channel")
     /\ document[s(N + 1) + 1] = EndTag("rss")

Parts(edition) == [i \in DOMAIN edition |-> OfItem(edition[i])]

LEMMA ItemsInParts ==
  ASSUME NEW edition \in Seq(Seq(Field))
  PROVE  /\ Parts(edition) \in Seq(Seq(Symbol)) /\ Len(Parts(edition)) = Len(edition)
         /\ \A i \in 1 .. Len(edition) : Parts(edition)[i] = OfItem(edition[i])
         /\ \A i \in 1 .. Len(edition) + 1 :
              StartsAt(edition, i) = 3 + Before(Parts(edition), i - 1)
<1>1. Len(edition) \in Nat /\ DOMAIN edition = 1 .. Len(edition)
  OBVIOUS
<1>2. \A i \in 1 .. Len(edition) : edition[i] \in Seq(Field)
  BY ElementOf
<1>3. \A s \in Seq(Seq(Field)) :
        /\ Parts(s) \in Seq(Seq(Symbol)) /\ Len(Parts(s)) = Len(s)
        /\ \A i \in 1 .. Len(s) : Parts(s)[i] = OfItem(s[i])
  <2> TAKE s \in Seq(Seq(Field))
  <2>1. Len(s) \in Nat /\ DOMAIN s = 1 .. Len(s)
    OBVIOUS
  <2>2. \A i \in 1 .. Len(s) : s[i] \in Seq(Field)
    BY ElementOf
  <2>3. \A i \in 1 .. Len(s) : Parts(s)[i] = OfItem(s[i]) /\ Parts(s)[i] \in Seq(Symbol)
    BY <2>1, <2>2, OfItemIs DEF Parts
  <2>4. Parts(s) = [i \in DOMAIN s |-> Parts(s)[i]]
    BY DEF Parts
  <2> QED BY <2>1, <2>3, <2>4, MapIsSeq
<1>4. ASSUME NEW i \in 1 .. Len(edition) + 1
      PROVE  StartsAt(edition, i) = 3 + Before(Parts(edition), i - 1)
  <2> DEFINE k == i - 1
             head == SubSeq(edition, 1, k)
  <2>1. k \in 0 .. Len(edition)
    BY <1>1
  <2> HIDE DEF k
  <2>2. head \in Seq(Seq(Field)) /\ Len(head) = k /\ \A n \in 1 .. k : head[n] = edition[n]
    BY <2>1, PrefixElements
  <2> HIDE DEF head
  <2>3. /\ Parts(head) \in Seq(Seq(Symbol)) /\ Len(Parts(head)) = k
        /\ \A n \in 1 .. k : Parts(head)[n] = OfItem(edition[n])
    BY <1>3, <2>2
  <2> DEFINE parts == Parts(edition)
             some == SubSeq(parts, 1, k)
  <2>4. /\ parts \in Seq(Seq(Symbol)) /\ Len(parts) = Len(edition)
        /\ \A n \in 1 .. Len(edition) : parts[n] = OfItem(edition[n])
    BY <1>3
  <2> HIDE DEF parts
  <2>5. some \in Seq(Seq(Symbol)) /\ Len(some) = k /\ \A n \in 1 .. k : some[n] = parts[n]
    BY <2>1, <2>4, PrefixElements
  <2> HIDE DEF some
  <2>6. \A n \in 1 .. k : n \in 1 .. Len(edition)
    BY <1>1, <2>1
  <2>7. Parts(head) = some
    BY <2>3, <2>4, <2>5, <2>6, EqualSeqs
  <2>8. OfItems(head) = FlattenSeq(Parts(head))
    BY DEF OfItems, Parts
  <2> QED BY <2>7, <2>8 DEF StartsAt, Before, head, some, parts, k
<1> QED BY <1>3, <1>4

LEMMA ItemsStart == ASSUME NEW edition \in Seq(Seq(Field)) PROVE ItemsAt(edition)
<1> DEFINE parts == Parts(edition)
           N == Len(edition)
<1>1. N \in Nat /\ \A i \in 1 .. N : edition[i] \in Seq(Field)
  BY ElementOf
<1>2. /\ parts \in Seq(Seq(Symbol)) /\ Len(parts) = N
      /\ \A i \in 1 .. N : parts[i] = OfItem(edition[i])
      /\ \A i \in 1 .. N + 1 : StartsAt(edition, i) = 3 + Before(parts, i - 1)
  BY ItemsInParts
<1> HIDE DEF parts, N
<1>3. /\ \A k \in 0 .. N : Before(parts, k) \in Nat
      /\ Before(parts, 0) = 0
      /\ \A k \in 1 .. N : Before(parts, k) = Before(parts, k - 1) + Len(parts[k])
  BY <1>2, FlattenPlaces
<1>4. ASSUME NEW i \in 1 .. N
      PROVE  StartsAt(edition, i + 1) = StartsAt(edition, i) + 3 * Len(edition[i]) + 2
  <2>1. /\ i \in 1 .. N + 1 /\ i + 1 \in 1 .. N + 1 /\ i + 1 - 1 = i
        /\ i \in 0 .. N /\ i - 1 \in 0 .. N
    BY <1>1
  <2> DEFINE l == Len(edition[i])
  <2>2. Len(parts[i]) = 3 * l + 2 /\ l \in Nat
    <3>1. edition[i] \in Seq(Field)
      BY <1>1
    <3>2. Len(OfItem(edition[i])) = 3 * Len(edition[i]) + 2
      BY <3>1, OfItemIs
    <3>3. Len(edition[i]) \in Nat
      BY <3>1
    <3> QED BY <1>2, <3>2, <3>3
  <2> HIDE DEF l
  <2>3. /\ StartsAt(edition, i + 1) = 3 + Before(parts, i)
        /\ StartsAt(edition, i) = 3 + Before(parts, i - 1)
        /\ Before(parts, i) = Before(parts, i - 1) + Len(parts[i])
        /\ Before(parts, i - 1) \in Nat
    BY <1>2, <1>3, <2>1
  <2>4. StartsAt(edition, i + 1) = StartsAt(edition, i) + 3 * l + 2
    BY <2>2, <2>3
  <2> QED BY <2>4 DEF l
<1>5. ASSUME NEW i \in 1 .. N + 1 PROVE StartsAt(edition, i) \in Nat
  <2>1. i - 1 \in 0 .. N
    BY <1>1
  <2> QED BY <1>2, <1>3, <2>1
<1>6. StartsAt(edition, 1) = 3
  <2>1. 1 \in 1 .. N + 1 /\ 1 - 1 = 0
    BY <1>1
  <2> QED BY <1>2, <1>3, <2>1
<1> QED BY <1>4, <1>5, <1>6 DEF ItemsAt, N

LEMMA DocumentLayout ==
  ASSUME NEW edition \in Seq(Seq(Field))
  PROVE  Document(edition) \in Seq(Symbol) /\ Layout(Document(edition), edition)
<1> DEFINE parts == Parts(edition)
           N == Len(edition)
           s == <<StartTag("rss"), StartTag("channel")>>
           t == FlattenSeq(parts)
           u == <<EndTag("channel"), EndTag("rss")>>
           S(i) == StartsAt(edition, i)
<1>1. N \in Nat /\ \A i \in 1 .. N : edition[i] \in Seq(Field)
  BY ElementOf
<1>2. /\ parts \in Seq(Seq(Symbol)) /\ Len(parts) = N
      /\ \A i \in 1 .. N : parts[i] = OfItem(edition[i])
      /\ \A i \in 1 .. N + 1 : S(i) = 3 + Before(parts, i - 1)
  BY ItemsInParts
<1>3. Document(edition) = s \o t \o u
  BY DEF Document, OfItems, Parts
<1>4. s \in Seq(Symbol) /\ u \in Seq(Symbol) /\ Len(s) = 2 /\ Len(u) = 2
  <2>1. "rss" \in Tags /\ "channel" \in Tags
    BY DEF Tags
  <2> QED BY <2>1, TagsAreSymbols
<1>5. /\ s[1] = StartTag("rss") /\ s[2] = StartTag("channel")
      /\ u[1] = EndTag("channel") /\ u[2] = EndTag("rss")
  OBVIOUS
<1> HIDE DEF parts, N, s, u, S
<1>6. /\ t \in Seq(Symbol) /\ Len(t) = Before(parts, N)
      /\ \A k \in 0 .. N : Before(parts, k) \in Nat
      /\ \A k \in 1 .. N :
           /\ Before(parts, k) = Before(parts, k - 1) + Len(parts[k])
           /\ \A m \in 1 .. Len(parts[k]) : t[Before(parts, k - 1) + m] = parts[k][m]
  BY <1>2, FlattenPlaces
<1> HIDE DEF t
<1> DEFINE w == s \o t \o u
<1>7. w \in Seq(Symbol) /\ Joined(w, s, t, u)
  <2>1. s \in Seq(Symbol)
    BY <1>4
  <2>2. t \in Seq(Symbol)
    BY <1>6
  <2>3. u \in Seq(Symbol)
    BY <1>4
  <2> QED BY <2>1, <2>2, <2>3, Concat3, Zenon
<1> HIDE DEF w
<1>8. S(N + 1) = 3 + Len(t) /\ Len(t) \in Nat
  <2>1. N + 1 \in 1 .. N + 1 /\ N + 1 - 1 = N /\ N \in 0 .. N
    BY <1>1
  <2> QED BY <1>2, <1>6, <2>1
<1>9. /\ Len(w) = S(N + 1) + 1 /\ w[1] = s[1] /\ w[2] = s[2]
      /\ w[S(N + 1)] = u[1] /\ w[S(N + 1) + 1] = u[2]
  <2>1. 1 \in 1 .. Len(s) /\ 2 \in 1 .. Len(s) /\ 1 \in 1 .. Len(u) /\ 2 \in 1 .. Len(u)
    BY <1>4
  <2>2. /\ w[1] = s[1] /\ w[2] = s[2] /\ Len(w) = Len(s) + Len(t) + Len(u)
        /\ w[Len(s) + Len(t) + 1] = u[1] /\ w[Len(s) + Len(t) + 2] = u[2]
    BY <1>7, <2>1 DEF Joined
  <2>3. Len(s) + Len(t) + 1 = S(N + 1) /\ Len(s) + Len(t) + 2 = S(N + 1) + 1
    BY <1>4, <1>8
  <2>4. Len(s) + Len(t) + Len(u) = S(N + 1) + 1
    BY <1>4, <1>8
  <2> QED BY <2>2, <2>3, <2>4
<1>10. ASSUME NEW i \in 1 .. N
       PROVE  /\ S(i) \in Nat /\ Len(OfItem(edition[i])) = 3 * Len(edition[i]) + 2
              /\ \A m \in 1 .. 3 * Len(edition[i]) + 2 : w[S(i) + m - 1] = OfItem(edition[i])[m]
  <2> DEFINE b == Before(parts, i - 1)
             l == Len(parts[i])
  <2>1. /\ i \in 1 .. N + 1 /\ i - 1 \in 0 .. N
    BY <1>1
  <2>2. parts[i] = OfItem(edition[i]) /\ l = 3 * Len(edition[i]) + 2 /\ l \in Nat
    <3>1. edition[i] \in Seq(Field)
      BY <1>1
    <3>2. Len(edition[i]) \in Nat
      BY <3>1
    <3>3. Len(OfItem(edition[i])) = 3 * Len(edition[i]) + 2
      BY <3>1, OfItemIs
    <3> QED BY <1>2, <3>2, <3>3
  <2>3. S(i) = 3 + b /\ b \in Nat /\ \A m \in 1 .. l : t[b + m] = parts[i][m]
    BY <1>2, <1>6, <2>1
  <2>4. b + l <= Len(t)
    <3> DEFINE T == {n \in Nat : i + n <= N => Before(parts, i) <= Before(parts, i + n)}
    <3>0. i \in Nat
      OBVIOUS
    <3>1. 0 \in T
      <4>1. i \in 0 .. N /\ i + 0 = i
        BY <1>1, <3>0
      <4>2. Before(parts, i) \in Nat
        BY <1>6, <4>1
      <4> QED BY <4>1, <4>2
    <3>2. ASSUME NEW n \in Nat, n \in T PROVE n + 1 \in T
      <4>1. SUFFICES ASSUME i + (n + 1) <= N
                     PROVE  Before(parts, i) <= Before(parts, i + (n + 1))
        OBVIOUS
      <4> DEFINE k == i + (n + 1)
      <4>2. /\ k \in 1 .. N /\ k - 1 = i + n /\ i + n <= N /\ k - 1 \in 0 .. N
            /\ i \in 0 .. N
        BY <1>1, <3>0, <4>1
      <4>3. Before(parts, i) <= Before(parts, k - 1)
        BY <3>2, <4>2
      <4> HIDE DEF k
      <4>4. Before(parts, k) = Before(parts, k - 1) + Len(parts[k])
        BY <1>6, <4>2
      <4>5. Len(parts[k]) \in Nat
        <5>1. parts[k] \in Seq(Symbol)
          BY <1>1, <1>2, <4>2, OfItemIs
        <5> QED BY <5>1
      <4>6. /\ Before(parts, i) \in Nat /\ Before(parts, k - 1) \in Nat
        BY <1>6, <4>2
      <4> QED BY <4>3, <4>4, <4>5, <4>6 DEF k
    <3> HIDE DEF T
    <3>3. \A n \in Nat : n \in T
      BY <3>1, <3>2, SetInduction
    <3>4. N - i \in Nat /\ i + (N - i) = N
      BY <1>1
    <3>5. Before(parts, i) <= Before(parts, N)
      <4>1. N - i \in T
        BY <3>3, <3>4
      <4>2. i + (N - i) <= N => Before(parts, i) <= Before(parts, i + (N - i))
        BY <4>1 DEF T
      <4> QED BY <1>1, <3>4, <4>2
    <3>6. Before(parts, i) = b + l
      BY <1>6
    <3> QED BY <1>6, <3>5, <3>6
  <2> HIDE DEF b, l
  <2>5. ASSUME NEW m \in 1 .. l PROVE w[S(i) + m - 1] = OfItem(edition[i])[m]
    <3>1. b + m \in 1 .. Len(t) /\ Len(s) + (b + m) = S(i) + m - 1
      BY <1>4, <1>8, <2>2, <2>3, <2>4
    <3>2. w[Len(s) + (b + m)] = t[b + m]
      BY <1>7, <3>1 DEF Joined
    <3>3. t[b + m] = OfItem(edition[i])[m]
      BY <2>2, <2>3
    <3> QED BY <3>1, <3>2, <3>3
  <2>6. S(i) \in Nat
    BY <2>3
  <2> QED BY <2>2, <2>5, <2>6 DEF l
<1>11. ASSUME NEW i \in 1 .. N
       PROVE  /\ w[S(i)] = StartTag("item")
              /\ w[S(i) + 3 * Len(edition[i]) + 1] = EndTag("item")
  <2>1. edition[i] \in Seq(Field)
    BY <1>1
  <2>2. Len(edition[i]) \in Nat
    BY <2>1
  <2>3. /\ 1 \in 1 .. 3 * Len(edition[i]) + 2
        /\ 3 * Len(edition[i]) + 2 \in 1 .. 3 * Len(edition[i]) + 2
        /\ S(i) + 1 - 1 = S(i)
        /\ S(i) + (3 * Len(edition[i]) + 2) - 1 = S(i) + 3 * Len(edition[i]) + 1
    BY <1>10, <2>2
  <2>4. /\ w[S(i) + 1 - 1] = OfItem(edition[i])[1]
        /\ w[S(i) + (3 * Len(edition[i]) + 2) - 1] = OfItem(edition[i])[3 * Len(edition[i]) + 2]
    BY <1>10, <2>3
  <2>5. /\ OfItem(edition[i])[1] = StartTag("item")
        /\ OfItem(edition[i])[3 * Len(edition[i]) + 2] = EndTag("item")
    BY <2>1, OfItemIs
  <2> QED BY <2>3, <2>4, <2>5
<1>12. ASSUME NEW i \in 1 .. N, NEW j \in 1 .. Len(edition[i])
       PROVE  /\ w[S(i) + 3 * j - 2] = StartTag(edition[i][j].tag)
              /\ w[S(i) + 3 * j - 1] = Text(edition[i][j].text)
              /\ w[S(i) + 3 * j] = EndTag(edition[i][j].tag)
  <2>1. edition[i] \in Seq(Field)
    BY <1>1
  <2>2. Len(edition[i]) \in Nat /\ edition[i][j] \in Field
    BY <2>1, ElementOf
  <2>3. ASSUME NEW m \in 1 .. 3
        PROVE  w[S(i) + 3 * j - 3 + m] = OfField(edition[i][j])[m]
    <3>1. /\ 1 + (3 * (j - 1) + m) \in 1 .. 3 * Len(edition[i]) + 2
          /\ S(i) + (1 + (3 * (j - 1) + m)) - 1 = S(i) + 3 * j - 3 + m
      BY <1>10, <2>2, SMTT(30)
    <3>2. w[S(i) + (1 + (3 * (j - 1) + m)) - 1] = OfItem(edition[i])[1 + (3 * (j - 1) + m)]
      BY <1>10, <3>1
    <3>3. OfItem(edition[i])[1 + (3 * (j - 1) + m)] = OfField(edition[i][j])[m]
      BY <2>1, OfItemIs
    <3> QED BY <3>1, <3>2, <3>3
  <2>4. /\ 1 \in 1 .. 3 /\ 2 \in 1 .. 3 /\ 3 \in 1 .. 3
        /\ S(i) + 3 * j - 3 + 1 = S(i) + 3 * j - 2
        /\ S(i) + 3 * j - 3 + 2 = S(i) + 3 * j - 1
        /\ S(i) + 3 * j - 3 + 3 = S(i) + 3 * j
    BY <1>10
  <2> QED BY <2>2, <2>3, <2>4, OfFieldIs
<1> QED BY <1>3, <1>5, <1>7, <1>9, <1>11, <1>12 DEF Layout, w, N, S

-----------------------------------------------------------------------------
(* What arrives *)

LEMMA SymbolAt ==
  ASSUME NEW s \in Seq(Symbol), NEW n \in 1 .. Len(s)
  PROVE  /\ s[n] \in Symbol /\ s[n].is \in {"start", "text", "end"}
         /\ s[n].is = "text" => s[n].of \in Texts
         /\ s[n].is # "text" => s[n].of \in Tags
<1>1. s[n] \in Symbol
  BY ElementOf
<1> QED BY <1>1 DEF Symbol

Fragment(symbol, fragment) ==
  \/ fragment = <<>>
  \/ symbol.is = "start" /\ fragment = <<StartTag(Partial)>>
  \/ symbol.is = "text" /\ \E t \in ShortTexts[symbol.of] : fragment = <<Text(t)>>

\* What is left of a symbol, unless it is all of it.
LEMMA FragmentsAre ==
  ASSUME NEW symbol \in Symbol, NEW fragment \in Fragments(symbol), fragment # <<symbol>>
  PROVE  fragment \in Seq(Symbol) /\ Fragment(symbol, fragment)
<1>1. Partial \in Tags
  BY DEF Tags
<1>2. StartTag(Partial) \in Symbol
  BY <1>1, TagsAreSymbols
<1>3. \A t \in Texts : Text(t) \in Symbol
  BY DEF Text, Symbol
<1>4. symbol.is = "text" => ShortTexts[symbol.of] \subseteq Texts
  BY ShortTextsAssumption DEF Symbol
<1>5. Fragment(symbol, fragment)
  <2>1. symbol.is = "start" \/ symbol.is = "text" \/ symbol.is = "end"
    BY DEF Symbol
  <2>2. CASE symbol.is = "start"
    <3>1. symbol = StartTag(symbol.of)
      BY <2>2 DEF Symbol, StartTag
    <3> QED BY <2>2, <3>1 DEF Fragments, Fragment
  <2>3. CASE symbol.is = "text"
    BY <2>3 DEF Fragments, Fragment
  <2>4. CASE symbol.is = "end"
    BY <2>4 DEF Fragments, Fragment
  <2> QED BY <2>1, <2>2, <2>3, <2>4
<1>6. \A x \in Symbol : <<x>> \in Seq(Symbol)
  OBVIOUS
<1>7. <<>> \in Seq(Symbol)
  OBVIOUS
<1>8. CASE fragment = <<>>
  BY <1>5, <1>7, <1>8
<1>9. CASE symbol.is = "start" /\ fragment = <<StartTag(Partial)>>
  BY <1>2, <1>5, <1>6, <1>9
<1>10. CASE symbol.is = "text" /\ \E t \in ShortTexts[symbol.of] : fragment = <<Text(t)>>
  BY <1>3, <1>4, <1>5, <1>6, <1>10
<1> QED BY <1>5, <1>8, <1>9, <1>10 DEF Fragment

\* The symbols up to the damage are the document's, and what is behind it.
Same(s, t, n) == \A k \in 1 .. n : s[k] = t[k]

Whole(a, document) ==
  a.damage = "none" /\ a.at = Len(document) + 1 /\ a.symbols = document
CutOff(a, document) ==
  /\ a.damage = "cut" /\ a.at \in 1 .. Len(document)
  /\ Len(a.symbols) = a.at - 1 \/ Len(a.symbols) = a.at
  /\ Same(a.symbols, document, a.at - 1)
  /\ Len(a.symbols) = a.at => Fragment(document[a.at], <<a.symbols[a.at]>>)
Dropped(a, document) ==
  /\ a.damage = "drop" /\ a.at \in 1 .. Len(document)
  /\ Len(a.symbols) = Len(document) - 1
  /\ Same(a.symbols, document, a.at - 1)
  /\ \A k \in a.at .. Len(document) - 1 : a.symbols[k] = document[k + 1]

LEMMA CutIs ==
  ASSUME NEW document \in Seq(Symbol), NEW n \in DOMAIN document,
         NEW fragment \in Fragments(document[n]), fragment # <<document[n]>>
  PROVE  LET symbols == SubSeq(document, 1, n - 1) \o fragment
         IN /\ symbols \in Seq(Symbol)
            /\ Len(symbols) = n - 1 \/ Len(symbols) = n
            /\ Same(symbols, document, n - 1)
            /\ Len(symbols) = n => Fragment(document[n], <<symbols[n]>>)
<1> DEFINE s == SubSeq(document, 1, n - 1)
           w == s \o fragment
<1>1. Len(document) \in Nat /\ n \in 1 .. Len(document) /\ n - 1 \in 0 .. Len(document)
  OBVIOUS
<1>2. document[n] \in Symbol
  BY <1>1, ElementOf
<1>3. fragment \in Seq(Symbol) /\ Fragment(document[n], fragment)
  BY <1>2, FragmentsAre
<1>4. s \in Seq(Symbol) /\ Len(s) = n - 1 /\ \A k \in 1 .. n - 1 : s[k] = document[k]
  BY <1>1, PrefixElements
<1> HIDE DEF s
<1>5. /\ w \in Seq(Symbol) /\ Len(w) = Len(s) + Len(fragment)
      /\ \A k \in 1 .. Len(s) + Len(fragment) :
           w[k] = IF k <= Len(s) THEN s[k] ELSE fragment[k - Len(s)]
  <2>1. s \in Seq(Symbol)
    BY <1>4
  <2>2. fragment \in Seq(Symbol)
    BY <1>3
  <2> QED BY <2>1, <2>2, ConcatProperties, Zenon
<1> HIDE DEF w
<1>6. /\ fragment = <<>> => Len(fragment) = 0
      /\ fragment # <<>> => Len(fragment) = 1 /\ fragment = <<fragment[1]>>
  BY <1>3 DEF Fragment
<1>7. Len(fragment) \in Nat /\ Len(s) = n - 1 /\ n \in Nat
  BY <1>1, <1>3, <1>4
<1>8. Same(w, document, n - 1)
  BY <1>4, <1>5, <1>7 DEF Same
<1>9. CASE fragment = <<>>
  BY <1>5, <1>6, <1>7, <1>8, <1>9 DEF w, s
<1>10. CASE fragment # <<>>
  <2>1. Len(w) = n /\ w[n] = fragment[1]
    <3>1. Len(fragment) = 1
      BY <1>6, <1>10
    <3>2. n \in 1 .. Len(s) + Len(fragment) /\ ~(n <= Len(s)) /\ n - Len(s) = 1
      BY <1>7, <3>1
    <3>3. w[n] = fragment[n - Len(s)]
      BY <1>5, <3>2
    <3> QED BY <1>5, <1>7, <3>1, <3>2, <3>3
  <2>2. Fragment(document[n], <<w[n]>>)
    BY <1>3, <1>6, <1>10, <2>1
  <2> QED BY <1>5, <1>8, <2>1, <2>2 DEF w, s
<1> QED BY <1>9, <1>10

LEMMA WholeNameIs ==
  ASSUME NEW document \in Seq(Symbol), NEW n \in DOMAIN document
  PROVE  LET symbols == SubSeq(document, 1, n - 1) \o <<document[n]>>
         IN symbols \in Seq(Symbol) /\ Len(symbols) = n /\ Same(symbols, document, n)
<1> DEFINE s == SubSeq(document, 1, n - 1)
           t == <<document[n]>>
           w == s \o t
<1>1. n \in 1 .. Len(document) /\ n \in Nat /\ n - 1 \in 0 .. Len(document)
  OBVIOUS
<1>2. s \in Seq(Symbol) /\ Len(s) = n - 1 /\ \A k \in 1 .. n - 1 : s[k] = document[k]
  BY <1>1, PrefixElements
<1>3. document[n] \in Symbol
  BY <1>1, ElementOf
<1>4. t \in Seq(Symbol) /\ Len(t) = 1 /\ t[1] = document[n]
  BY <1>3
<1> HIDE DEF s, t
<1>5. /\ w \in Seq(Symbol) /\ Len(w) = Len(s) + Len(t)
      /\ \A k \in 1 .. Len(s) + Len(t) : w[k] = IF k <= Len(s) THEN s[k] ELSE t[k - Len(s)]
  <2>1. s \in Seq(Symbol)
    BY <1>2
  <2>2. t \in Seq(Symbol)
    BY <1>4
  <2> QED BY <2>1, <2>2, ConcatProperties, Zenon
<1> HIDE DEF w
<1>6. Len(w) = n
  BY <1>1, <1>2, <1>4, <1>5
<1>7. ASSUME NEW k \in 1 .. n PROVE w[k] = document[k]
  <2>1. CASE k = n
    <3>1. n \in 1 .. Len(s) + Len(t) /\ ~(n <= Len(s)) /\ n - Len(s) = 1
      BY <1>1, <1>2, <1>4
    <3>2. w[n] = t[n - Len(s)]
      BY <1>5, <3>1
    <3> QED BY <1>4, <2>1, <3>1, <3>2
  <2>2. CASE k # n
    <3>1. k \in 1 .. n - 1 /\ k \in 1 .. Len(s) + Len(t) /\ k <= Len(s)
      BY <1>1, <1>2, <1>4, <2>2
    <3> QED BY <1>2, <1>5, <3>1
  <2> QED BY <2>1, <2>2
<1>8. Same(w, document, n)
  BY <1>7 DEF Same
<1> QED BY <1>5, <1>6, <1>8 DEF w, s, t

LEMMA DropIs ==
  ASSUME NEW document \in Seq(Symbol), NEW n \in DOMAIN document
  PROVE  LET symbols == RemoveAt(document, n)
         IN /\ symbols \in Seq(Symbol)
            /\ Len(symbols) = Len(document) - 1
            /\ Same(symbols, document, n - 1)
            /\ \A k \in n .. Len(document) - 1 : symbols[k] = document[k + 1]
<1> DEFINE s == SubSeq(document, 1, n - 1)
           t == SubSeq(document, n + 1, Len(document))
           w == s \o t
           l == Len(document)
<1>1. l \in Nat /\ n \in 1 .. l /\ n - 1 \in 0 .. l
  OBVIOUS
<1>2. s \in Seq(Symbol) /\ Len(s) = n - 1 /\ \A k \in 1 .. n - 1 : s[k] = document[k]
  BY <1>1, PrefixElements
<1>3. t \in Seq(Symbol) /\ Len(t) = l - n /\ \A k \in 1 .. l - n : t[k] = document[n + k]
  OBVIOUS
<1> HIDE DEF s, t, l
<1>4. /\ w \in Seq(Symbol) /\ Len(w) = Len(s) + Len(t)
      /\ \A k \in 1 .. Len(s) + Len(t) : w[k] = IF k <= Len(s) THEN s[k] ELSE t[k - Len(s)]
  <2>1. s \in Seq(Symbol)
    BY <1>2
  <2>2. t \in Seq(Symbol)
    BY <1>3
  <2> QED BY <2>1, <2>2, ConcatProperties, Zenon
<1> HIDE DEF w
<1>5. Len(w) = l - 1 /\ Same(w, document, n - 1)
  BY <1>1, <1>2, <1>3, <1>4, SMTT(30) DEF Same
<1>6. ASSUME NEW k \in n .. l - 1 PROVE w[k] = document[k + 1]
  <2>1. /\ k \in 1 .. Len(s) + Len(t) /\ ~(k <= Len(s))
        /\ k - Len(s) \in 1 .. l - n /\ n + (k - Len(s)) = k + 1
    BY <1>1, <1>2, <1>3
  <2> QED BY <1>3, <1>4, <2>1
<1>7. RemoveAt(document, n) = w
  BY DEF RemoveAt, w, s, t
<1> QED BY <1>4, <1>5, <1>6, <1>7 DEF l

LEMMA ArrivalIs ==
  ASSUME NEW a \in Arrivals
  PROVE  /\ a.edition \in Editions /\ a.symbols \in Seq(Symbol)
         /\ Layout(Document(a.edition), a.edition) /\ Document(a.edition) \in Seq(Symbol)
         /\ \/ Whole(a, Document(a.edition))
            \/ CutOff(a, Document(a.edition))
            \/ Dropped(a, Document(a.edition))
<1>1. PICK edition \in Editions : a = Undamaged(edition) \/ a \in Cuts(edition) \/ a \in Drops(edition)
  BY Zenon DEF Arrivals
<1> DEFINE document == Document(edition)
<1>2. document \in Seq(Symbol) /\ Layout(document, edition)
  BY EditionParts, DocumentLayout
<1>3. DOMAIN document = 1 .. Len(document) /\ Len(document) \in Nat
  BY <1>2
<1> HIDE DEF document
<1>4. CASE a = Undamaged(edition)
  BY <1>2, <1>4 DEF Whole, document, Undamaged
<1>5. ASSUME NEW n \in DOMAIN document, NEW fragment \in Fragments(document[n]),
             fragment # <<document[n]>>,
             a = [edition |-> edition, damage |-> "cut", at |-> n,
                  symbols |-> SubSeq(document, 1, n - 1) \o fragment]
      PROVE  a.edition = edition /\ a.symbols \in Seq(Symbol) /\ CutOff(a, document)
  <2> DEFINE s == SubSeq(document, 1, n - 1) \o fragment
  <2>1. /\ s \in Seq(Symbol)
        /\ Len(s) = n - 1 \/ Len(s) = n
        /\ Same(s, document, n - 1)
        /\ Len(s) = n => Fragment(document[n], <<s[n]>>)
    BY <1>2, <1>5, CutIs
  <2>2. /\ a.edition = edition /\ a.damage = "cut" /\ a.at = n /\ a.symbols = s
    BY <1>5
  <2> HIDE DEF s
  <2> QED BY <1>3, <2>1, <2>2 DEF CutOff
<1>6. ASSUME NEW n \in DOMAIN document,
             a = [edition |-> edition, damage |-> "drop", at |-> n,
                  symbols |-> RemoveAt(document, n)]
      PROVE  a.edition = edition /\ a.symbols \in Seq(Symbol) /\ Dropped(a, document)
  <2> DEFINE s == RemoveAt(document, n)
  <2>1. /\ s \in Seq(Symbol) /\ Len(s) = Len(document) - 1 /\ Same(s, document, n - 1)
        /\ \A k \in n .. Len(document) - 1 : s[k] = document[k + 1]
    BY <1>2, DropIs
  <2>2. /\ a.edition = edition /\ a.damage = "drop" /\ a.at = n /\ a.symbols = s
    BY <1>6
  <2> HIDE DEF s
  <2> QED BY <1>3, <2>1, <2>2 DEF Dropped
<1>7. ASSUME NEW n \in DOMAIN document, <<document[n]>> \in Fragments(document[n]),
             a = [edition |-> edition, damage |-> "cut", at |-> n + 1,
                  symbols |-> SubSeq(document, 1, n - 1) \o <<document[n]>>]
      PROVE  a.edition = edition /\ a.symbols \in Seq(Symbol) /\ CutOff(a, document)
  <2> DEFINE s == SubSeq(document, 1, n - 1) \o <<document[n]>>
  <2>1. s \in Seq(Symbol) /\ Len(s) = n /\ Same(s, document, n)
    BY <1>2, WholeNameIs
  <2>2. /\ a.edition = edition /\ a.damage = "cut" /\ a.at = n + 1 /\ a.symbols = s
    BY <1>7
  <2> HIDE DEF s
  <2>3. document[n].is # "end"
    BY <1>7 DEF Fragments
  <2>4. document[Len(document)].is = "end"
    BY <1>2 DEF Layout, EndTag
  <2>5. n + 1 \in 1 .. Len(document) /\ n + 1 - 1 = n /\ n # n + 1
    BY <1>3, <2>3, <2>4
  <2> QED BY <1>3, <2>1, <2>2, <2>5 DEF CutOff
<1>8. CASE a \in Cuts(edition)
  <2>1. PICK n \in DOMAIN document : a \in CutAt(edition, n)
    BY <1>8, Zenon DEF Cuts, document
  <2>2. PICK fragment \in Fragments(document[n]) :
          a = [edition |-> edition, damage |-> "cut",
               at |-> IF fragment = <<document[n]>> THEN n + 1 ELSE n,
               symbols |-> SubSeq(document, 1, n - 1) \o fragment]
    BY <2>1, Zenon DEF CutAt, document
  <2>3. CASE fragment = <<document[n]>>
    <3>1. a.edition = edition /\ a.symbols \in Seq(Symbol) /\ CutOff(a, document)
      BY <1>7, <2>2, <2>3
    <3> QED BY <1>2, <3>1 DEF document
  <2>4. CASE fragment # <<document[n]>>
    <3>1. a.edition = edition /\ a.symbols \in Seq(Symbol) /\ CutOff(a, document)
      BY <1>5, <2>2, <2>4
    <3> QED BY <1>2, <3>1 DEF document
  <2> QED BY <2>3, <2>4
<1>9. CASE a \in Drops(edition)
  <2>1. PICK n \in DOMAIN document : a = DropAt(edition, n)
    BY <1>9, Zenon DEF Drops, document
  <2>2. a.edition = edition /\ a.symbols \in Seq(Symbol) /\ Dropped(a, document)
    BY <1>6, <2>1, Zenon DEF DropAt, document
  <2> QED BY <1>2, <2>2 DEF document
<1> QED BY <1>1, <1>2, <1>4, <1>8, <1>9 DEF document

-----------------------------------------------------------------------------
(* Type correctness *)

TInv ==
  /\ TypeOK
  /\ collected \in Seq(Symbol)
  /\ stage = "stream" => NothingRead

LEMMA LeastIsMin ==
  ASSUME NEW T, T \subseteq Nat, T # {}
  PROVE  Min(T) \in T /\ \A k \in T : Min(T) <= k
<1>1. \E n \in T : \A k \in T : n <= k
  BY LeastNatural
<1> QED BY <1>1 DEF Min

LEMMA ReadIsTyped ==
  ASSUME TInv, p \in DOMAIN collected
  PROVE  /\ p \in 1 .. Len(collected) /\ Len(collected) \in Nat
         /\ collected[p] \in Symbol
         /\ collected[p].is = "text" => collected[p].of \in Texts
         /\ collected[p].is # "text" => collected[p].of \in Tags
<1>1. collected \in Seq(Symbol)
  BY DEF TInv
<1>2. p \in 1 .. Len(collected) /\ Len(collected) \in Nat
  BY <1>1
<1> QED BY <1>1, <1>2, SymbolAt

LEMMA CollectedIsPrefix ==
  ASSUME NEW symbols \in Seq(Symbol)
  PROVE  \E c \in 0 .. Len(symbols) : Collected(symbols) = SubSeq(symbols, 1, c)
<1> DEFINE ends == {n \in DOMAIN symbols : Depth(symbols, n) <= 0}
<1>1. Len(symbols) \in Nat /\ DOMAIN symbols = 1 .. Len(symbols)
  OBVIOUS
<1>2. CASE ends = {}
  <2>1. Collected(symbols) = SubSeq(symbols, 1, Len(symbols))
    BY <1>2, AllOfThem DEF Collected
  <2>2. Len(symbols) \in 0 .. Len(symbols)
    BY <1>1
  <2> QED BY <2>1, <2>2
<1>3. CASE ends # {}
  <2>1. ends \subseteq Nat
    BY <1>1
  <2>2. Min(ends) \in ends
    BY <1>3, <2>1, LeastIsMin
  <2>3. Min(ends) \in 0 .. Len(symbols)
    BY <1>1, <2>2
  <2>4. Collected(symbols) = SubSeq(symbols, 1, Min(ends))
    BY <1>3 DEF Collected
  <2> QED BY <2>3, <2>4
<1> QED BY <1>2, <1>3

LEMMA AppendIsTyped ==
  ASSUME NEW S, NEW s \in Seq(S), NEW x \in S
  PROVE  /\ Append(s, x) \in Seq(S) /\ Len(Append(s, x)) = Len(s) + 1
         /\ Append(s, x)[Len(s) + 1] = x
         /\ \A i \in 1 .. Len(s) : Append(s, x)[i] = s[i]
  OBVIOUS

LEMMA FrontIsTyped ==
  ASSUME NEW S, NEW s \in Seq(S), s # <<>>
  PROVE  /\ Front(s) \in Seq(S) /\ Len(Front(s)) = Len(s) - 1 /\ Last(s) = s[Len(s)]
         /\ \A i \in 1 .. Len(s) - 1 : Front(s)[i] = s[i]
<1>1. Len(s) \in Nat /\ Len(s) # 0 /\ Len(s) - 1 \in 0 .. Len(s)
  OBVIOUS
<1> QED BY <1>1, PrefixElements DEF Front, Last

LEMMA SeqOfMore ==
  ASSUME NEW S, NEW T, S \subseteq T, NEW s \in Seq(S)
  PROVE  s \in Seq(T)
  OBVIOUS

LEMMA CurrentIs ==
  ASSUME TInv
  PROVE  /\ nodes \in Seq(Node) /\ Len(nodes) \in Nat /\ DOMAIN nodes = 1 .. Len(nodes)
         /\ open \in Seq(1 .. Len(nodes)) /\ Len(open) \in Nat
         /\ open = <<>> => current = 0
         /\ open # <<>> => current = open[Len(open)] /\ current \in 1 .. Len(nodes)
<1>1. nodes \in Seq(Node) /\ open \in Seq(DOMAIN nodes)
  BY DEF TInv, TypeOK
<1>2. Len(nodes) \in Nat /\ DOMAIN nodes = 1 .. Len(nodes) /\ Len(open) \in Nat
  BY <1>1
<1>3. open # <<>> => Len(open) \in 1 .. Len(open)
  BY <1>1
<1>4. open # <<>> => open[Len(open)] \in 1 .. Len(nodes)
  BY <1>1, <1>2, <1>3, ElementOf
<1> QED BY <1>1, <1>2, <1>4 DEF current, Last

LEMMA InitTyped == Init => TInv
<1> SUFFICES ASSUME Init PROVE TInv
  OBVIOUS
<1>1. /\ arrival \in Arrivals /\ stage = "stream" /\ collected = <<>> /\ p = 1 /\ nodes = <<>>
      /\ open = <<>> /\ visited = 0 /\ feed_items = <<>>
  BY DEF Init, NothingRead
<1>2. collected \in Seq(Symbol) /\ nodes \in Seq(Node) /\ open \in Seq(DOMAIN nodes)
      /\ feed_items \in Seq([title : Texts, link : Texts])
  BY <1>1, EmptySeq
<1>3. Len(collected) = 0 /\ DOMAIN collected = {} /\ Len(nodes) = 0 /\ DOMAIN nodes = {}
  BY <1>1
<1>4. TypeOK
  BY <1>1, <1>2, <1>3 DEF TypeOK
<1> QED BY <1>1, <1>2, <1>4 DEF TInv, NothingRead

LEMMA ReadElementTyped == ASSUME TInv, ReadElement PROVE TInv'
<1> DEFINE node == [tag |-> collected[p].of, parent |-> current, text |-> NoText]
<1>1. /\ stage = "parse" /\ p \in DOMAIN collected /\ collected[p].is = "start"
      /\ nodes' = Append(nodes, node) /\ open' = Append(open, Len(nodes) + 1) /\ p' = p + 1
      /\ UNCHANGED <<arrival, stage, collected, visitVars>>
  BY DEF ReadElement, Reading
<1>2. /\ p \in 1 .. Len(collected) /\ Len(collected) \in Nat /\ collected[p].of \in Tags
  BY <1>1, ReadIsTyped
<1>3. /\ nodes \in Seq(Node) /\ Len(nodes) \in Nat /\ DOMAIN nodes = 1 .. Len(nodes)
      /\ open \in Seq(1 .. Len(nodes)) /\ current \in 0 .. Len(nodes)
  BY CurrentIs
<1>4. node \in Node
  BY <1>2, <1>3 DEF Node
<1>5. node.parent = current
  OBVIOUS
<1> HIDE DEF node
<1>6. /\ nodes' \in Seq(Node) /\ Len(nodes') = Len(nodes) + 1 /\ nodes'[Len(nodes) + 1] = node
      /\ \A i \in 1 .. Len(nodes) : nodes'[i] = nodes[i]
  BY <1>1, <1>3, <1>4, AppendIsTyped
<1>7. DOMAIN nodes' = 1 .. Len(nodes) + 1
  BY <1>3, <1>6
<1>8. open' \in Seq(DOMAIN nodes')
  <2>1. open \in Seq(1 .. Len(nodes) + 1)
    <3>1. 1 .. Len(nodes) \subseteq 1 .. Len(nodes) + 1
      BY <1>3
    <3> QED BY <1>3, <3>1, SeqOfMore
  <2>2. Len(nodes) + 1 \in 1 .. Len(nodes) + 1
    BY <1>3
  <2> QED BY <1>1, <1>7, <2>1, <2>2, AppendIsTyped
<1>9. \A i \in DOMAIN nodes' : nodes'[i].parent < i
  <2>1. \A i \in 1 .. Len(nodes) : nodes[i].parent < i
    BY <1>3 DEF TInv, TypeOK
  <2>2. ASSUME NEW i \in 1 .. Len(nodes) + 1 PROVE nodes'[i].parent < i
    <3>1. CASE i = Len(nodes) + 1
      BY <1>3, <1>5, <1>6, <3>1
    <3>2. CASE i # Len(nodes) + 1
      BY <1>3, <1>6, <2>1, <3>2
    <3> QED BY <3>1, <3>2
  <2> QED BY <1>7, <2>2
<1>10. visited' \in 0 .. Len(nodes')
  BY <1>1, <1>3, <1>6 DEF TInv, TypeOK, visitVars
<1>11. p' \in 1 .. Len(collected') + 1
  BY <1>1, <1>2
<1>12. TypeOK'
  BY <1>1, <1>6, <1>8, <1>9, <1>10, <1>11 DEF TInv, TypeOK, visitVars
<1> QED BY <1>1, <1>12 DEF TInv

LEMMA ReadTextTyped == ASSUME TInv, ReadText PROVE TInv'
<1>1. /\ stage = "parse" /\ p \in DOMAIN collected /\ collected[p].is = "text" /\ p' = p + 1
      /\ UNCHANGED <<arrival, stage, collected, open, visitVars>>
      /\ \/ nodes' = nodes
         \/ open # <<>> /\ nodes' = [nodes EXCEPT ![current].text = collected[p].of]
  BY DEF ReadText, Reading
<1>2. /\ p \in 1 .. Len(collected) /\ Len(collected) \in Nat /\ collected[p].of \in Texts
  BY <1>1, ReadIsTyped
<1>3. /\ nodes \in Seq(Node) /\ Len(nodes) \in Nat /\ DOMAIN nodes = 1 .. Len(nodes)
      /\ open # <<>> => current \in 1 .. Len(nodes)
  BY CurrentIs
<1>4. /\ nodes' \in Seq(Node) /\ DOMAIN nodes' = DOMAIN nodes /\ Len(nodes') = Len(nodes)
      /\ \A i \in DOMAIN nodes : nodes'[i].parent = nodes[i].parent
  <2>1. CASE nodes' = nodes
    BY <1>3, <2>1
  <2>2. CASE open # <<>> /\ nodes' = [nodes EXCEPT ![current].text = collected[p].of]
    <3>1. \A i \in 1 .. Len(nodes) : nodes[i] \in Node
      BY <1>3, ElementOf
    <3>2. DOMAIN nodes' = DOMAIN nodes
      BY <2>2
    <3>3. ASSUME NEW i \in 1 .. Len(nodes)
          PROVE  nodes'[i] \in Node /\ nodes'[i].parent = nodes[i].parent
      <4>1. nodes[i] \in Node
        BY <3>1
      <4>2. nodes'[i] = IF i = current THEN [nodes[i] EXCEPT !.text = collected[p].of] ELSE nodes[i]
        BY <1>3, <2>2
      <4> QED BY <1>2, <4>1, <4>2 DEF Node
    <3>4. nodes' = [i \in DOMAIN nodes |-> nodes'[i]]
      BY <2>2
    <3>5. nodes' \in Seq(Node) /\ Len(nodes') = Len(nodes)
      BY <1>3, <3>3, <3>4, MapIsSeq
    <3> QED BY <1>3, <3>2, <3>3, <3>5
  <2> QED BY <1>1, <2>1, <2>2
<1>5. p' \in 1 .. Len(collected') + 1
  BY <1>1, <1>2
<1>6. open' \in Seq(DOMAIN nodes') /\ visited' \in 0 .. Len(nodes')
  BY <1>1, <1>4 DEF TInv, TypeOK, visitVars
<1>7. \A i \in DOMAIN nodes' : nodes'[i].parent < i
  BY <1>4 DEF TInv, TypeOK
<1>8. TypeOK'
  BY <1>1, <1>4, <1>5, <1>6, <1>7 DEF TInv, TypeOK, visitVars
<1> QED BY <1>1, <1>8 DEF TInv

LEMMA ReadEndTagTyped == ASSUME TInv, ReadEndTag PROVE TInv'
<1>1. /\ stage = "parse" /\ p \in DOMAIN collected /\ open # <<>> /\ open' = Front(open)
      /\ p' = p + 1 /\ UNCHANGED <<arrival, stage, collected, nodes, visitVars>>
  BY DEF ReadEndTag, Reading
<1>2. p \in 1 .. Len(collected) /\ Len(collected) \in Nat
  BY <1>1, ReadIsTyped
<1>3. open' \in Seq(DOMAIN nodes)
  BY <1>1, FrontIsTyped DEF TInv, TypeOK
<1>4. p' \in 1 .. Len(collected) + 1
  BY <1>1, <1>2
<1>5. TypeOK'
  BY <1>1, <1>3, <1>4 DEF TInv, TypeOK, visitVars
<1> QED BY <1>1, <1>5 DEF TInv

\* A step that changes the stage only.
LEMMA StageTyped ==
  ASSUME TInv, UNCHANGED <<arrival, parseVars, visitVars>>, stage' \in {"visit"} \cup Ended
  PROVE  TInv'
<1>1. stage' # "stream" /\ stage' \in {"stream", "parse", "visit"} \cup Ended
  BY DEF Ended
<1>2. TypeOK'
  BY <1>1 DEF TInv, TypeOK, parseVars, visitVars
<1> QED BY <1>1, <1>2 DEF TInv, parseVars

LEMMA NamedAre ==
  ASSUME TInv, NEW n, NEW name, Named(n, name) # {}
  PROVE  /\ Min(Named(n, name)) \in Named(n, name)
         /\ \A i \in Named(n, name) : Min(Named(n, name)) <= i
         /\ Min(Named(n, name)) \in 1 .. Len(nodes)
         /\ GetText(n, name) \in Texts \cup {NoText}
<1> DEFINE i == Min(Named(n, name))
<1>1. nodes \in Seq(Node) /\ DOMAIN nodes = 1 .. Len(nodes) /\ Len(nodes) \in Nat
  BY CurrentIs
<1>2. Named(n, name) \subseteq 1 .. Len(nodes)
  BY <1>1 DEF Named, ChildrenOf
<1>3. i \in Named(n, name) /\ \A k \in Named(n, name) : i <= k
  <2>1. Named(n, name) \subseteq Nat
    BY <1>2
  <2> QED BY <2>1, LeastIsMin
<1>4. nodes[i] \in Node
  BY <1>1, <1>2, <1>3, ElementOf
<1>5. nodes[i].text \in Texts \cup {NoText}
  BY <1>4 DEF Node
<1> QED BY <1>2, <1>3, <1>5 DEF GetText

LEMMA VisitItemTyped == ASSUME TInv, VisitItem PROVE TInv'
<1> DEFINE item == [title |-> GetText(here, "title"), link |-> GetText(here, "link")]
<1>1. /\ stage = "visit" /\ here \in DOMAIN nodes /\ visited' = here
      /\ Has("title") /\ Has("link")
      /\ feed_items' = Append(feed_items, item)
      /\ UNCHANGED <<arrival, stage, parseVars>>
  BY DEF VisitItem, AtItem, Visiting, PushBack
<1>2. GetText(here, "title") \in Texts /\ GetText(here, "link") \in Texts
  BY <1>1, NamedAre DEF Has, Missing
<1>3. item \in [title : Texts, link : Texts]
  BY <1>2
<1> HIDE DEF item
<1>4. feed_items' \in Seq([title : Texts, link : Texts])
  BY <1>1, <1>3, AppendIsTyped DEF TInv, TypeOK
<1>5. visited' \in 0 .. Len(nodes)
  BY <1>1, CurrentIs DEF here
<1>6. TypeOK'
  BY <1>1, <1>4, <1>5 DEF TInv, TypeOK, parseVars
<1> QED BY <1>1, <1>6 DEF TInv, parseVars

LEMMA VisitOtherTyped == ASSUME TInv, VisitOther PROVE TInv'
<1>1. /\ stage = "visit" /\ here \in DOMAIN nodes /\ visited' = here
      /\ UNCHANGED <<arrival, stage, parseVars, feed_items>>
  BY DEF VisitOther, Visiting
<1>2. visited' \in 0 .. Len(nodes)
  BY <1>1, CurrentIs DEF here
<1>3. TypeOK'
  BY <1>1, <1>2 DEF TInv, TypeOK, parseVars
<1> QED BY <1>1, <1>3 DEF TInv, parseVars

LEMMA StreamInTyped == ASSUME TInv, StreamIn PROVE TInv'
<1>1. /\ stage = "stream" /\ collected' = Collected(arrival.symbols) /\ stage' = "parse"
      /\ UNCHANGED <<arrival, p, nodes, open, visitVars>>
  BY DEF StreamIn
<1>2. arrival \in Arrivals
  BY DEF TInv, TypeOK
<1> DEFINE symbols == arrival.symbols
<1>3. symbols \in Seq(Symbol)
  BY <1>2, ArrivalIs
<1>4. PICK c \in 0 .. Len(symbols) : collected' = SubSeq(symbols, 1, c)
  BY <1>1, <1>3, CollectedIsPrefix
<1>5. collected' \in Seq(Symbol)
  BY <1>3, <1>4, PrefixElements
<1>6. ASSUME NEW i \in DOMAIN collected' PROVE collected'[i].of \in Tags \cup Texts
  <2>1. i \in 1 .. Len(collected')
    BY <1>5
  <2> QED BY <1>5, <2>1, SymbolAt
<1>7. p' \in 1 .. Len(collected') + 1
  <2>1. p' = 1
    BY <1>1 DEF TInv, NothingRead
  <2>2. Len(collected') \in Nat
    BY <1>5
  <2> QED BY <2>1, <2>2
<1>8. TypeOK'
  BY <1>1, <1>6, <1>7 DEF TInv, TypeOK, visitVars
<1> QED BY <1>1, <1>5, <1>8 DEF TInv

LEMMA NextDownloadTyped == ASSUME TInv, NextDownload PROVE TInv'
<1>1. /\ arrival' \in Arrivals /\ stage' = "stream" /\ collected' = <<>> /\ p' = 1
      /\ nodes' = <<>> /\ open' = <<>> /\ visited' = 0 /\ feed_items' = <<>>
  BY DEF NextDownload
<1>2. collected' \in Seq(Symbol) /\ nodes' \in Seq(Node) /\ open' \in Seq(DOMAIN nodes')
      /\ feed_items' \in Seq([title : Texts, link : Texts])
  BY <1>1, EmptySeq
<1>3. Len(collected') = 0 /\ DOMAIN collected' = {} /\ Len(nodes') = 0 /\ DOMAIN nodes' = {}
  BY <1>1
<1>4. TypeOK'
  BY <1>1, <1>2, <1>3 DEF TypeOK
<1> QED BY <1>1, <1>2, <1>4 DEF TInv, NothingRead

LEMMA StaysTyped == TInv /\ [Next]_vars => TInv'
<1> SUFFICES ASSUME TInv, [Next]_vars PROVE TInv'
  OBVIOUS
<1>1. CASE StreamIn
  BY <1>1, StreamInTyped
<1>2. CASE ReadElement
  BY <1>2, ReadElementTyped
<1>3. CASE ReadText
  BY <1>3, ReadTextTyped
<1>4. CASE ReadEndTag
  BY <1>4, ReadEndTagTyped
<1>5. CASE WrongEndTag
  BY <1>5, StageTyped DEF WrongEndTag
<1>6. CASE EndOfText
  BY <1>6, StageTyped DEF EndOfText
<1>7. CASE VisitOther
  BY <1>7, VisitOtherTyped
<1>8. CASE VisitItem
  BY <1>8, VisitItemTyped
<1>9. CASE VisitThrows
  BY <1>9, StageTyped DEF VisitThrows, Ended
<1>10. CASE VisitCrashes
  BY <1>10, StageTyped DEF VisitCrashes, Ended
<1>11. CASE VisitEnds
  BY <1>11, StageTyped DEF VisitEnds, Ended
<1>12. CASE NextDownload
  BY <1>12, NextDownloadTyped
<1>13. CASE UNCHANGED vars
  BY <1>13 DEF vars, parseVars, visitVars, TInv, TypeOK, NothingRead
<1> QED BY <1>1, <1>2, <1>3, <1>4, <1>5, <1>6, <1>7, <1>8, <1>9, <1>10, <1>11, <1>12, <1>13
       DEF Next, Parse, Visit

\* TypeOK holds in every state, with what the next steps need of it: the text
\* that was collected consists of symbols, and a download starts from nothing.
THEOREM TypedInvariant == Spec => []TInv
<1>1. Init => TInv
  BY InitTyped
<1>2. TInv /\ [Next]_vars => TInv'
  BY StaysTyped
<1> QED BY <1>1, <1>2, PTL DEF Spec

\* Whatever arrives, Parse builds a tree of elements whose parents are read
\* before them, every open element is in it, and no item that is handed on lacks
\* its title or its link.
THEOREM TypeCorrect == Spec => []TypeOK
<1>1. TInv => TypeOK
  BY DEF TInv
<1> QED BY <1>1, TypedInvariant, PTL

-----------------------------------------------------------------------------
(* The places of a document *)

\* Where r symbols of the document lead: between two items, or before the first
\* or behind the last; into item i, behind its field j; into field j, before or
\* behind its text; behind the channel.
AtItems(e, i, r) == i \in 1 .. Len(e) + 1 /\ r = StartsAt(e, i) - 1
InItem(e, i, j, r) == i \in 1 .. Len(e) /\ j \in 0 .. Len(e[i]) /\ r = StartsAt(e, i) + 3 * j
InField(e, i, j, r) == i \in 1 .. Len(e) /\ j \in 1 .. Len(e[i]) /\ r = StartsAt(e, i) + 3 * j - 2
BehindText(e, i, j, r) ==
  i \in 1 .. Len(e) /\ j \in 1 .. Len(e[i]) /\ r = StartsAt(e, i) + 3 * j - 1
BehindChannel(e, r) == r = StartsAt(e, Len(e) + 1)
BehindRss(e, r) == r = StartsAt(e, Len(e) + 1) + 1

(* The tree *)

\* The items of the tree ns in document order: at which node, and how many
\* elements that are no items stand under it, one behind the other.
Tree(ns, items) ==
  /\ items \in Seq([at : Nat, fields : Nat])
  /\ \A k \in 1 .. Len(items) :
       /\ items[k].at \in 1 .. Len(ns) /\ items[k].at + items[k].fields <= Len(ns)
       /\ ns[items[k].at].tag = "item"
       /\ \A m \in 1 .. items[k].fields :
            ns[items[k].at + m].parent = items[k].at /\ ns[items[k].at + m].tag # "item"
       /\ \A n \in 1 .. Len(ns) :
            ns[n].parent = items[k].at /\ ns[n].tag # "item" =>
              n \in items[k].at + 1 .. items[k].at + items[k].fields
  /\ \A k, l \in 1 .. Len(items) : k < l => items[k].at + items[k].fields < items[l].at
  /\ \A n \in 1 .. Len(ns) : ns[n].tag = "item" => \E k \in 1 .. Len(items) : items[k].at = n

\* Node n is field f; it may lack its text.
IsField(ns, n, f) == ns[n].tag = f.tag /\ ns[n].text = f.text
MayBeField(ns, n, f) == ns[n].tag = f.tag /\ (ns[n].text = f.text \/ ns[n].text = NoText)

\* What was read of item k of the edition: its first fields, of which some may
\* lack their text; its first fields; all of it; its first fields and what a cut
\* left of the next one.
Faithful(ns, items, e, k) ==
  /\ items[k].fields <= Len(e[k])
  /\ \A m \in 1 .. items[k].fields : MayBeField(ns, items[k].at + m, e[k][m])
FirstFields(ns, items, e, k, j) ==
  /\ j <= Len(e[k])
  /\ \A m \in 1 .. j : IsField(ns, items[k].at + m, e[k][m])
Complete(ns, items, e, k) ==
  items[k].fields = Len(e[k]) /\ FirstFields(ns, items, e, k, Len(e[k]))
CutField(ns, n, f) ==
  \/ ns[n].tag = Partial /\ ns[n].text = NoText
  \/ ns[n].tag = f.tag /\ ns[n].text = NoText
  \/ ns[n].tag = f.tag /\ ns[n].text \in ShortTexts[f.text]
CutShort(ns, items, e, k) ==
  \/ FirstFields(ns, items, e, k, items[k].fields)
  \/ /\ items[k].fields \in 1 .. Len(e[k])
     /\ FirstFields(ns, items, e, k, items[k].fields - 1)
     /\ CutField(ns, items[k].at + items[k].fields, e[k][items[k].fields])

AllFaithful(ns, items, e) ==
  Len(items) <= Len(e) /\ \A k \in 1 .. Len(items) : Faithful(ns, items, e, k)
CompleteUpTo(ns, items, e, n) == \A k \in 1 .. n : Complete(ns, items, e, k)

(* Parse *)

Root(ns) == Len(ns) >= 2 /\ ns[1].tag = "rss" /\ ns[2].tag = "channel"

\* The open elements: the root, its channel, an item and its field.
IsStack(st, n, item, field) ==
  /\ Len(st) = n
  /\ n >= 1 => st[1] = 1
  /\ n >= 2 => st[2] = 2
  /\ n >= 3 => st[3] = item
  /\ n >= 4 => st[4] = field

\* The tree and the open elements after the first r symbols of the document.
AtTheItem(ns, items, e, i, j) ==
  /\ Root(ns) /\ Len(items) = i /\ items[i].fields = j /\ Len(ns) = items[i].at + j
  /\ CompleteUpTo(ns, items, e, i - 1)
ExactItems(ns, st, items, e, i) ==
  Root(ns) /\ IsStack(st, 2, 0, 0) /\ Len(items) = i - 1 /\ CompleteUpTo(ns, items, e, i - 1)
ExactItem(ns, st, items, e, i, j) ==
  /\ AtTheItem(ns, items, e, i, j) /\ IsStack(st, 3, items[i].at, 0)
  /\ FirstFields(ns, items, e, i, j)
ExactField(ns, st, items, e, i, j) ==
  /\ AtTheItem(ns, items, e, i, j) /\ IsStack(st, 4, items[i].at, items[i].at + j)
  /\ FirstFields(ns, items, e, i, j - 1)
  /\ ns[Len(ns)].tag = e[i][j].tag /\ ns[Len(ns)].text = NoText
ExactText(ns, st, items, e, i, j) ==
  /\ AtTheItem(ns, items, e, i, j) /\ IsStack(st, 4, items[i].at, items[i].at + j)
  /\ FirstFields(ns, items, e, i, j)
ExactEnd(ns, st, items, e, n) ==
  Root(ns) /\ IsStack(st, n, 0, 0) /\ Len(items) = Len(e) /\ CompleteUpTo(ns, items, e, Len(e))

ExactAt(ns, st, items, e, r) ==
  \/ r = 0 /\ ns = <<>> /\ IsStack(st, 0, 0, 0) /\ items = <<>>
  \/ r = 1 /\ Len(ns) = 1 /\ ns[1].tag = "rss" /\ IsStack(st, 1, 0, 0) /\ items = <<>>
  \/ \E i : AtItems(e, i, r) /\ ExactItems(ns, st, items, e, i)
  \/ \E i, j : InItem(e, i, j, r) /\ ExactItem(ns, st, items, e, i, j)
  \/ \E i, j : InField(e, i, j, r) /\ ExactField(ns, st, items, e, i, j)
  \/ \E i, j : BehindText(e, i, j, r) /\ ExactText(ns, st, items, e, i, j)
  \/ BehindChannel(e, r) /\ ExactEnd(ns, st, items, e, 1)
  \/ BehindRss(e, r) /\ ExactEnd(ns, st, items, e, 0)

\* The same when one of these r symbols is missing.  Inside an item, Parse is in
\* that item, or among elements that are no items and are not under one, or it
\* waits for the end tag of the item with a field in between.
Top(st) == st[Len(st)]
Below(st) == st[Len(st) - 1]
InsideItem(ns, st, items, i, j) ==
  /\ Len(items) = i /\ items[i].fields = j /\ Len(ns) = items[i].at + j
  /\ st # <<>> /\ Top(st) = items[i].at
InsideField(ns, st, items, i, j) ==
  /\ Len(items) = i /\ items[i].fields = j /\ Len(ns) = items[i].at + j
  /\ Len(st) >= 2 /\ Top(st) = items[i].at + j /\ Below(st) = items[i].at
Stray(ns, st) == st # <<>> /\ ns[Top(st)].tag # "item"
StrayField(ns, st) ==
  /\ Len(st) >= 2 /\ Below(st) \in 1 .. Len(ns) /\ ns[Top(st)].tag # "item" /\ ns[Top(st)].parent = Below(st)
  /\ ns[Below(st)].tag # "item"
Lost(ns, st) == st # <<>> /\ ns[Top(st)].tag = "item"

WeakAt(ns, st, items, e, r) ==
  \/ r = 1 /\ items = <<>>
  \/ \E i : AtItems(e, i, r) /\ Len(items) = i - 1
  \/ \E i, j : InItem(e, i, j, r) /\ (InsideItem(ns, st, items, i, j) \/ Stray(ns, st))
  \/ \E i, j : /\ InField(e, i, j, r) \/ BehindText(e, i, j, r)
               /\ InsideField(ns, st, items, i, j) \/ StrayField(ns, st) \/ Lost(ns, st)
  \/ BehindChannel(e, r)
  \/ BehindRss(e, r)

\* The items that are complete before the damage are in the tree.
Enough(items, a) ==
  \A i \in 1 .. Len(a.edition) : EndsAt(a.edition, i) < a.at => i <= Len(items)

\* What a cut at a symbol leaves: whole items, and a part of the item it falls in.
CutTree(ns, items, e, at) ==
  /\ Len(items) <= Len(e)
  /\ \/ CompleteUpTo(ns, items, e, Len(items))
     \/ /\ Len(items) > 0
        /\ at \in StartsAt(e, Len(items)) + 1 .. EndsAt(e, Len(items))
        /\ CompleteUpTo(ns, items, e, Len(items) - 1)
        /\ CutShort(ns, items, e, Len(items))

\* What Parse made of an arrival.
Outcome(ns, items, a) ==
  LET e == a.edition
  IN \/ a.damage = "none" /\ Len(items) = Len(e) /\ CompleteUpTo(ns, items, e, Len(e))
     \/ a.damage = "cut" /\ Enough(items, a) /\ CutTree(ns, items, e, a.at)
     \/ a.damage = "drop" /\ Enough(items, a) /\ AllFaithful(ns, items, e)

\* The text that was collected reaches up to the damage at least.
Gathered(s, a) ==
  /\ \E c \in 0 .. Len(a.symbols) : s = SubSeq(a.symbols, 1, c) /\ c >= a.at - 1
  /\ a.damage # "drop" => s = a.symbols

Parsing(items) ==
  /\ Tree(nodes, items)
  /\ \/ p <= arrival.at /\ ExactAt(nodes, open, items, arrival.edition, p - 1)
     \/ /\ arrival.damage = "cut" /\ p = Len(collected) + 1
        /\ Outcome(nodes, items, arrival)
     \/ /\ arrival.damage = "drop" /\ p >= arrival.at /\ Enough(items, arrival)
        /\ AllFaithful(nodes, items, arrival.edition)
        /\ WeakAt(nodes, open, items, arrival.edition, p)

\* xml_feed_visitor: the items it has met, and why it stopped at one.
HandedOn(items) ==
  /\ Len(feed_items) <= Len(items)
  /\ \A k \in 1 .. Len(items) : items[k].at <= visited <=> k <= Len(feed_items)
  /\ \A k \in 1 .. Len(feed_items) :
       LET n == items[k].at
       IN /\ Named(n, "title") # {} /\ feed_items[k].title = GetText(n, "title")
          /\ Named(n, "link") # {} /\ feed_items[k].link = GetText(n, "link")
  /\ stage = "done" => visited = Len(nodes)
  /\ stage \in {"thrown", "crashed"} =>
       LET n == visited + 1
       IN /\ \E k \in 1 .. Len(items) : items[k].at = n
          /\ \E name \in {"title", "link"} :
               Named(n, name) = {} \/ GetText(n, name) = NoText

Visited(items) == Tree(nodes, items) /\ Outcome(nodes, items, arrival) /\ HandedOn(items)

IInv ==
  /\ TInv
  /\ stage # "stream" => Gathered(collected, arrival)
  /\ stage = "parse" => (\E items : Parsing(items)) /\ feed_items = <<>> /\ visited = 0
  /\ stage \in {"visit"} \cup Ended => \E items : Visited(items)

-----------------------------------------------------------------------------
(* From one place of a document to the next *)

LEMMA StartsIncrease ==
  ASSUME NEW e \in Seq(Seq(Field))
  PROVE  /\ \A i, l \in 1 .. Len(e) + 1 : i < l => StartsAt(e, i) < StartsAt(e, l)
         /\ \A i \in 1 .. Len(e) + 1 : StartsAt(e, i) \in Nat /\ StartsAt(e, i) >= 3
         /\ \A i \in 1 .. Len(e) : Len(e[i]) \in Nat
<1> DEFINE N == Len(e)
<1>1. N \in Nat /\ \A i \in 1 .. N : e[i] \in Seq(Field)
  BY ElementOf
<1>2. \A i \in 1 .. N : Len(e[i]) \in Nat
  BY <1>1
<1>3. /\ StartsAt(e, 1) = 3 /\ \A i \in 1 .. N + 1 : StartsAt(e, i) \in Nat
      /\ \A i \in 1 .. N : StartsAt(e, i + 1) = StartsAt(e, i) + 3 * Len(e[i]) + 2
  BY ItemsStart DEF ItemsAt
<1>4. \A i \in 1 .. N : StartsAt(e, i) < StartsAt(e, i + 1)
  <2> TAKE i \in 1 .. N
  <2>1. i \in 1 .. N + 1
    BY <1>1
  <2> QED BY <1>2, <1>3, <2>1, SMTT(30)
<1> HIDE DEF N
<1>5. ASSUME NEW i \in 1 .. N + 1
      PROVE  \A n \in Nat : i + n <= N + 1 => StartsAt(e, i) + n <= StartsAt(e, i + n)
  <2> DEFINE T == {n \in Nat : i + n <= N + 1 => StartsAt(e, i) + n <= StartsAt(e, i + n)}
  <2>0. StartsAt(e, i) \in Nat /\ i \in Nat
    BY <1>3
  <2>1. 0 \in T
    <3>1. i + 0 = i /\ StartsAt(e, i) + 0 = StartsAt(e, i)
      BY <2>0
    <3> QED BY <2>0, <3>1
  <2>2. ASSUME NEW n \in Nat, n \in T PROVE n + 1 \in T
    <3>1. SUFFICES ASSUME i + (n + 1) <= N + 1
                   PROVE  StartsAt(e, i) + (n + 1) <= StartsAt(e, i + (n + 1))
      OBVIOUS
    <3>2. /\ i + n \in 1 .. N /\ i + n \in 1 .. N + 1 /\ i + n + 1 = i + (n + 1)
          /\ i + n + 1 \in 1 .. N + 1 /\ i + n <= N + 1
      BY <1>1, <2>0, <3>1
    <3>3. StartsAt(e, i) + n <= StartsAt(e, i + n)
      BY <2>2, <3>2
    <3>4. StartsAt(e, i + n) < StartsAt(e, i + n + 1)
      BY <1>4, <3>2
    <3>5. StartsAt(e, i + n) \in Nat /\ StartsAt(e, i + n + 1) \in Nat
      BY <1>3, <3>2
    <3> QED BY <2>0, <3>2, <3>3, <3>4, <3>5
  <2> HIDE DEF T
  <2>3. \A n \in Nat : n \in T
    BY <2>1, <2>2, SetInduction
  <2> QED BY <2>3 DEF T
<1>6. ASSUME NEW i \in 1 .. N + 1, NEW l \in 1 .. N + 1, i < l
      PROVE  StartsAt(e, i) < StartsAt(e, l)
  <2>1. l - i \in Nat /\ i + (l - i) = l /\ l - i > 0 /\ i + (l - i) <= N + 1
    BY <1>1, <1>6
  <2>2. StartsAt(e, i) + (l - i) <= StartsAt(e, i + (l - i))
    BY <1>5, <2>1
  <2> QED BY <1>3, <2>1, <2>2
<1>7. ASSUME NEW i \in 1 .. N + 1 PROVE StartsAt(e, i) >= 3
  <2>1. 1 \in 1 .. N + 1
    BY <1>1
  <2>2. i = 1 \/ 1 < i
    OBVIOUS
  <2>3. StartsAt(e, 1) \in Nat /\ StartsAt(e, i) \in Nat
    BY <1>3, <2>1
  <2>4. 1 < i => StartsAt(e, 1) < StartsAt(e, i)
    BY <1>6, <2>1
  <2> QED BY <1>3, <2>2, <2>3, <2>4
<1> QED BY <1>2, <1>3, <1>6, <1>7 DEF N

\* What stands behind each place, and where it leads.
LEMMA NextPlace ==
  ASSUME NEW e \in Seq(Seq(Field)), NEW d, Layout(d, e), NEW r \in Nat, NEW i, NEW j
  PROVE  /\ r = 0 => d[r + 1] = StartTag("rss")
         /\ r = 1 => d[r + 1] = StartTag("channel") /\ AtItems(e, 1, r + 1)
         /\ AtItems(e, i, r) /\ i \in 1 .. Len(e) =>
              d[r + 1] = StartTag("item") /\ InItem(e, i, 0, r + 1)
         /\ AtItems(e, i, r) /\ i = Len(e) + 1 =>
              d[r + 1] = EndTag("channel") /\ BehindChannel(e, r + 1)
         /\ InItem(e, i, j, r) /\ j < Len(e[i]) =>
              d[r + 1] = StartTag(e[i][j + 1].tag) /\ InField(e, i, j + 1, r + 1)
         /\ InItem(e, i, j, r) /\ j = Len(e[i]) =>
              d[r + 1] = EndTag("item") /\ AtItems(e, i + 1, r + 1)
         /\ InField(e, i, j, r) => d[r + 1] = Text(e[i][j].text) /\ BehindText(e, i, j, r + 1)
         /\ BehindText(e, i, j, r) => d[r + 1] = EndTag(e[i][j].tag) /\ InItem(e, i, j, r + 1)
         /\ BehindChannel(e, r) => d[r + 1] = EndTag("rss") /\ BehindRss(e, r + 1)
         /\ BehindRss(e, r) => r = Len(d)
<1> DEFINE N == Len(e)
           S(n) == StartsAt(e, n)
<1>1. N \in Nat /\ \A n \in 1 .. N : Len(e[n]) \in Nat
  BY StartsIncrease
<1>2. \A n \in 1 .. N + 1 : S(n) \in Nat
  BY StartsIncrease
<1>3. S(1) = 3 /\ \A n \in 1 .. N : S(n + 1) = S(n) + 3 * Len(e[n]) + 2
  BY ItemsStart DEF ItemsAt
<1>4. Layout(d, e)
  OBVIOUS
<1> DEFINE Item(n) == /\ d[S(n)] = StartTag("item")
                      /\ d[S(n) + 3 * Len(e[n]) + 1] = EndTag("item")
           Part(n, m) == /\ d[S(n) + 3 * m - 2] = StartTag(e[n][m].tag)
                         /\ d[S(n) + 3 * m - 1] = Text(e[n][m].text)
                         /\ d[S(n) + 3 * m] = EndTag(e[n][m].tag)
<1>5. /\ Len(d) = S(N + 1) + 1 /\ d[1] = StartTag("rss") /\ d[2] = StartTag("channel")
      /\ d[S(N + 1)] = EndTag("channel") /\ d[S(N + 1) + 1] = EndTag("rss")
  BY <1>4 DEF Layout
<1>6. \A n \in 1 .. N : Item(n)
  BY <1>4 DEF Layout
<1>7. \A n \in 1 .. N : \A m \in 1 .. Len(e[n]) : Part(n, m)
  BY <1>4 DEF Layout
<1>8. r = 0 => d[r + 1] = StartTag("rss")
  BY <1>5
<1>9. r = 1 => d[r + 1] = StartTag("channel") /\ AtItems(e, 1, r + 1)
  BY <1>1, <1>3, <1>5 DEF AtItems
<1>10. ASSUME AtItems(e, i, r), i \in 1 .. N
       PROVE  d[r + 1] = StartTag("item") /\ InItem(e, i, 0, r + 1)
  <2>1. i \in 1 .. N + 1 /\ S(i) \in Nat /\ r = S(i) - 1
    BY <1>1, <1>2, <1>10 DEF AtItems
  <2>2. Item(i) /\ r + 1 = S(i) /\ S(i) + 3 * 0 = S(i)
    BY <1>6, <1>10, <2>1
  <2>3. 0 \in 0 .. Len(e[i])
    BY <1>1, <1>10
  <2> QED BY <1>10, <2>2, <2>3 DEF InItem
<1>11. ASSUME AtItems(e, i, r), i = N + 1
       PROVE  d[r + 1] = EndTag("channel") /\ BehindChannel(e, r + 1)
  <2>1. N + 1 \in 1 .. N + 1
    BY <1>1
  <2>2. S(N + 1) \in Nat
    BY <1>2, <2>1
  <2>3. r + 1 = S(N + 1)
    BY <1>11, <2>2 DEF AtItems
  <2> QED BY <1>5, <2>3 DEF BehindChannel
<1>12. ASSUME InItem(e, i, j, r), j < Len(e[i])
       PROVE  d[r + 1] = StartTag(e[i][j + 1].tag) /\ InField(e, i, j + 1, r + 1)
  <2>1. i \in 1 .. N /\ i \in 1 .. N + 1 /\ j \in 0 .. Len(e[i]) /\ r = S(i) + 3 * j /\ j \in Nat
    BY <1>1, <1>12 DEF InItem
  <2>2. j + 1 \in 1 .. Len(e[i])
    BY <1>1, <1>12, <2>1
  <2>3. Part(i, j + 1)
    BY <1>7, <2>1, <2>2
  <2>4. S(i) + 3 * (j + 1) - 2 = r + 1
    BY <1>2, <2>1
  <2> QED BY <2>1, <2>2, <2>3, <2>4 DEF InField
<1>13. ASSUME InItem(e, i, j, r), j = Len(e[i])
       PROVE  d[r + 1] = EndTag("item") /\ AtItems(e, i + 1, r + 1)
  <2>1. i \in 1 .. N /\ i \in 1 .. N + 1 /\ i + 1 \in 1 .. N + 1 /\ r = S(i) + 3 * Len(e[i])
    BY <1>1, <1>13 DEF InItem
  <2>2. Item(i) /\ S(i + 1) = S(i) + 3 * Len(e[i]) + 2
    BY <1>3, <1>6, <2>1
  <2>3. r + 1 = S(i) + 3 * Len(e[i]) + 1 /\ r + 1 = S(i + 1) - 1
    BY <1>1, <1>2, <2>1, <2>2, SMTT(30)
  <2> QED BY <2>1, <2>2, <2>3 DEF AtItems
<1>14. ASSUME InField(e, i, j, r)
       PROVE  d[r + 1] = Text(e[i][j].text) /\ BehindText(e, i, j, r + 1)
  <2>1. i \in 1 .. N /\ i \in 1 .. N + 1 /\ j \in 1 .. Len(e[i]) /\ r = S(i) + 3 * j - 2
    BY <1>1, <1>14 DEF InField
  <2>2. Part(i, j)
    BY <1>7, <2>1
  <2>3. r + 1 = S(i) + 3 * j - 1
    BY <1>2, <2>1
  <2> QED BY <2>1, <2>2, <2>3 DEF BehindText
<1>15. ASSUME BehindText(e, i, j, r)
       PROVE  d[r + 1] = EndTag(e[i][j].tag) /\ InItem(e, i, j, r + 1)
  <2>1. i \in 1 .. N /\ i \in 1 .. N + 1 /\ j \in 1 .. Len(e[i]) /\ r = S(i) + 3 * j - 1
    BY <1>1, <1>15 DEF BehindText
  <2>2. Part(i, j)
    BY <1>7, <2>1
  <2>3. r + 1 = S(i) + 3 * j /\ j \in 0 .. Len(e[i])
    BY <1>2, <2>1
  <2> QED BY <2>1, <2>2, <2>3 DEF InItem
<1>16. BehindChannel(e, r) => d[r + 1] = EndTag("rss") /\ BehindRss(e, r + 1)
  BY <1>5 DEF BehindChannel, BehindRss
<1>17. BehindRss(e, r) => r = Len(d)
  BY <1>5 DEF BehindRss
<1> QED BY <1>8, <1>9, <1>10, <1>11, <1>12, <1>13, <1>14, <1>15, <1>16, <1>17 DEF N

\* The same, place by place.
LEMMA FromBegin ==
  ASSUME NEW e \in Seq(Seq(Field)), NEW d, Layout(d, e), NEW r \in Nat,
         r = 0
  PROVE  d[r + 1] = StartTag("rss")
  BY NextPlace
LEMMA FromRss ==
  ASSUME NEW e \in Seq(Seq(Field)), NEW d, Layout(d, e), NEW r \in Nat,
         r = 1
  PROVE  d[r + 1] = StartTag("channel") /\ AtItems(e, 1, r + 1)
  BY NextPlace
LEMMA IntoItem ==
  ASSUME NEW e \in Seq(Seq(Field)), NEW d, Layout(d, e), NEW r \in Nat,
         NEW i, AtItems(e, i, r), i \in 1 .. Len(e)
  PROVE  d[r + 1] = StartTag("item") /\ InItem(e, i, 0, r + 1)
  BY NextPlace
LEMMA FromItems ==
  ASSUME NEW e \in Seq(Seq(Field)), NEW d, Layout(d, e), NEW r \in Nat,
         NEW i, AtItems(e, i, r), i = Len(e) + 1
  PROVE  d[r + 1] = EndTag("channel") /\ BehindChannel(e, r + 1)
  BY NextPlace
LEMMA IntoField ==
  ASSUME NEW e \in Seq(Seq(Field)), NEW d, Layout(d, e), NEW r \in Nat,
         NEW i, NEW j, InItem(e, i, j, r), j < Len(e[i])
  PROVE  d[r + 1] = StartTag(e[i][j + 1].tag) /\ InField(e, i, j + 1, r + 1)
  BY NextPlace
LEMMA FromItem ==
  ASSUME NEW e \in Seq(Seq(Field)), NEW d, Layout(d, e), NEW r \in Nat,
         NEW i, NEW j, InItem(e, i, j, r), j = Len(e[i])
  PROVE  d[r + 1] = EndTag("item") /\ AtItems(e, i + 1, r + 1)
  BY NextPlace
LEMMA IntoText ==
  ASSUME NEW e \in Seq(Seq(Field)), NEW d, Layout(d, e), NEW r \in Nat,
         NEW i, NEW j, InField(e, i, j, r)
  PROVE  d[r + 1] = Text(e[i][j].text) /\ BehindText(e, i, j, r + 1)
  BY NextPlace
LEMMA FromText ==
  ASSUME NEW e \in Seq(Seq(Field)), NEW d, Layout(d, e), NEW r \in Nat,
         NEW i, NEW j, BehindText(e, i, j, r)
  PROVE  d[r + 1] = EndTag(e[i][j].tag) /\ InItem(e, i, j, r + 1)
  BY NextPlace
LEMMA FromChannel ==
  ASSUME NEW e \in Seq(Seq(Field)), NEW d, Layout(d, e), NEW r \in Nat,
         BehindChannel(e, r)
  PROVE  d[r + 1] = EndTag("rss") /\ BehindRss(e, r + 1)
  BY NextPlace
LEMMA FromEnd ==
  ASSUME NEW e \in Seq(Seq(Field)), NEW d, Layout(d, e), NEW r \in Nat,
         BehindRss(e, r)
  PROVE  r = Len(d)
  BY NextPlace

-----------------------------------------------------------------------------
(* StreamIn *)

Count(symbols, n, is) == Cardinality({i \in 1 .. n : symbols[i].is = is})

LEMMA CountNext ==
  ASSUME NEW symbols, NEW n \in Nat, NEW is
  PROVE  /\ Count(symbols, n, is) \in Nat
         /\ symbols[n + 1].is = is => Count(symbols, n + 1, is) = Count(symbols, n, is) + 1
         /\ symbols[n + 1].is # is => Count(symbols, n + 1, is) = Count(symbols, n, is)
<1> DEFINE s == {i \in 1 .. n : symbols[i].is = is}
           t == {i \in 1 .. n + 1 : symbols[i].is = is}
<1>1. IsFiniteSet(1 .. n)
  BY FS_Interval
<1>2. IsFiniteSet(s)
  BY <1>1, FS_Subset
<1>3. Cardinality(s) \in Nat
  BY <1>2, FS_CardinalityType
<1>4. CASE symbols[n + 1].is = is
  <2>1. t = s \cup {n + 1} /\ n + 1 \notin s
    BY <1>4
  <2>2. Cardinality(s \cup {n + 1}) = Cardinality(s) + 1
    BY <1>2, <2>1, FS_AddElement
  <2> QED BY <1>3, <1>4, <2>1, <2>2 DEF Count
<1>5. CASE symbols[n + 1].is # is
  <2>1. t = s
    BY <1>5
  <2> QED BY <1>3, <1>5, <2>1 DEF Count
<1> QED BY <1>4, <1>5

LEMMA DepthNext ==
  ASSUME NEW symbols, NEW n \in Nat
  PROVE  /\ Depth(symbols, 0) = 0 /\ Depth(symbols, n) \in Int
         /\ symbols[n + 1].is = "start" => Depth(symbols, n + 1) = Depth(symbols, n) + 1
         /\ symbols[n + 1].is = "text" => Depth(symbols, n + 1) = Depth(symbols, n)
         /\ symbols[n + 1].is = "end" => Depth(symbols, n + 1) = Depth(symbols, n) - 1
<1>1. \A m \in Nat : Depth(symbols, m) = Count(symbols, m, "start") - Count(symbols, m, "end")
  BY DEF Depth, Count
<1>2. \A is : {i \in 1 .. 0 : symbols[i].is = is} = {}
  OBVIOUS
<1>3. Count(symbols, 0, "start") = 0 /\ Count(symbols, 0, "end") = 0
  BY <1>2, FS_EmptySet DEF Count
<1>4. Count(symbols, n, "start") \in Nat /\ Count(symbols, n, "end") \in Nat
  BY CountNext
<1>5. /\ symbols[n + 1].is = "start" =>
           Count(symbols, n + 1, "start") = Count(symbols, n, "start") + 1
      /\ symbols[n + 1].is # "start" =>
           Count(symbols, n + 1, "start") = Count(symbols, n, "start")
      /\ symbols[n + 1].is = "end" =>
           Count(symbols, n + 1, "end") = Count(symbols, n, "end") + 1
      /\ symbols[n + 1].is # "end" =>
           Count(symbols, n + 1, "end") = Count(symbols, n, "end")
  BY CountNext
<1>6. "start" # "end" /\ "text" # "start" /\ "text" # "end"
  OBVIOUS
<1>7. n + 1 \in Nat
  OBVIOUS
<1> QED BY <1>1, <1>3, <1>4, <1>5, <1>6, <1>7

\* A place of the document, and how many elements are open there.
DepthAt(e, r, depth) ==
  \/ r = 0 /\ depth = 0
  \/ r = 1 /\ depth = 1
  \/ (\E i : AtItems(e, i, r)) /\ depth = 2
  \/ (\E i, j : InItem(e, i, j, r)) /\ depth = 3
  \/ (\E i, j : InField(e, i, j, r) \/ BehindText(e, i, j, r)) /\ depth = 4
  \/ BehindChannel(e, r) /\ depth = 1
  \/ BehindRss(e, r)

LEMMA SymbolIs ==
  ASSUME NEW x
  PROVE  StartTag(x).is = "start" /\ Text(x).is = "text" /\ EndTag(x).is = "end"
  BY DEF StartTag, Text, EndTag

LEMMA DepthAtNext ==
  ASSUME NEW e \in Seq(Seq(Field)), NEW d, Layout(d, e), NEW r \in Nat, r < Len(d),
         DepthAt(e, r, Depth(d, r))
  PROVE  DepthAt(e, r + 1, Depth(d, r + 1))
<1>1. \A n \in 1 .. Len(e) : Len(e[n]) \in Nat
  BY StartsIncrease
<1> DEFINE depth == Depth(d, r)
           next == Depth(d, r + 1)
<1>2. /\ depth \in Int
      /\ d[r + 1].is = "start" => next = depth + 1
      /\ d[r + 1].is = "text" => next = depth
      /\ d[r + 1].is = "end" => next = depth - 1
  BY DepthNext
<1>3. DepthAt(e, r, depth)
  OBVIOUS
<1> HIDE DEF depth, next
<1> SUFFICES DepthAt(e, r + 1, next)
  BY DEF next
<1>4. CASE r = 0 /\ depth = 0
  <2>1. d[r + 1] = StartTag("rss")
    BY <1>4, NextPlace
  <2> QED BY <1>2, <1>4, <2>1, SymbolIs DEF DepthAt
<1>5. CASE r = 1 /\ depth = 1
  <2>1. d[r + 1] = StartTag("channel") /\ AtItems(e, 1, r + 1)
    BY <1>5, NextPlace
  <2> QED BY <1>2, <1>5, <2>1, SymbolIs DEF DepthAt
<1>6. ASSUME NEW i, AtItems(e, i, r), depth = 2 PROVE DepthAt(e, r + 1, next)
  <2>1. i \in 1 .. Len(e) \/ i = Len(e) + 1
    BY <1>6 DEF AtItems
  <2>2. CASE i \in 1 .. Len(e)
    <3>1. d[r + 1] = StartTag("item") /\ InItem(e, i, 0, r + 1)
      BY <1>6, <2>2, NextPlace
    <3> QED BY <1>2, <1>6, <3>1, SymbolIs DEF DepthAt
  <2>3. CASE i = Len(e) + 1
    <3>1. d[r + 1] = EndTag("channel") /\ BehindChannel(e, r + 1)
      BY <1>6, <2>3, NextPlace
    <3> QED BY <1>2, <1>6, <3>1, SymbolIs DEF DepthAt
  <2> QED BY <2>1, <2>2, <2>3
<1>7. ASSUME NEW i, NEW j, InItem(e, i, j, r), depth = 3 PROVE DepthAt(e, r + 1, next)
  <2>1. j < Len(e[i]) \/ j = Len(e[i])
    BY <1>1, <1>7 DEF InItem
  <2>2. CASE j < Len(e[i])
    <3>1. d[r + 1] = StartTag(e[i][j + 1].tag) /\ InField(e, i, j + 1, r + 1)
      BY <1>7, <2>2, NextPlace
    <3> QED BY <1>2, <1>7, <3>1, SymbolIs DEF DepthAt
  <2>3. CASE j = Len(e[i])
    <3>1. d[r + 1] = EndTag("item") /\ AtItems(e, i + 1, r + 1)
      BY <1>7, <2>3, NextPlace
    <3> QED BY <1>2, <1>7, <3>1, SymbolIs DEF DepthAt
  <2> QED BY <2>1, <2>2, <2>3
<1>8. ASSUME NEW i, NEW j, InField(e, i, j, r), depth = 4 PROVE DepthAt(e, r + 1, next)
  <2>1. d[r + 1] = Text(e[i][j].text) /\ BehindText(e, i, j, r + 1)
    BY <1>8, NextPlace
  <2> QED BY <1>2, <1>8, <2>1, SymbolIs DEF DepthAt
<1>9. ASSUME NEW i, NEW j, BehindText(e, i, j, r), depth = 4 PROVE DepthAt(e, r + 1, next)
  <2>1. d[r + 1] = EndTag(e[i][j].tag) /\ InItem(e, i, j, r + 1)
    BY <1>9, NextPlace
  <2> QED BY <1>2, <1>9, <2>1, SymbolIs DEF DepthAt
<1>10. CASE BehindChannel(e, r) /\ depth = 1
  BY <1>10, NextPlace DEF DepthAt
<1>11. CASE BehindRss(e, r)
  BY <1>11, NextPlace
<1> QED BY <1>3, <1>4, <1>5, <1>6, <1>7, <1>8, <1>9, <1>10, <1>11 DEF DepthAt

\* Some element is open until the document ends.
LEMMA DocumentDepth ==
  ASSUME NEW e \in Seq(Seq(Field)), NEW d \in Seq(Symbol), Layout(d, e)
  PROVE  \A r \in 1 .. Len(d) - 1 : Depth(d, r) >= 1
<1> DEFINE T == {r \in Nat : r <= Len(d) => DepthAt(e, r, Depth(d, r))}
<1>0. Len(d) \in Nat
  OBVIOUS
<1>1. 0 \in T
  BY DepthNext DEF DepthAt
<1>2. \A r \in Nat : r \in T => r + 1 \in T
  <2> SUFFICES ASSUME NEW r \in Nat, r \in T PROVE r + 1 \in T
    OBVIOUS
  <2> QED BY <1>0, DepthAtNext
<1> HIDE DEF T
<1>3. \A r \in Nat : r \in T
  BY <1>1, <1>2, SetInduction
<1>4. ASSUME NEW r \in 1 .. Len(d) - 1 PROVE Depth(d, r) >= 1
  <2>1. r \in Nat /\ r <= Len(d) /\ r # 0 /\ r # Len(d)
    BY <1>0
  <2>2. DepthAt(e, r, Depth(d, r))
    BY <1>3, <2>1 DEF T
  <2>3. ~BehindRss(e, r)
    BY <2>1, NextPlace
  <2> QED BY <2>1, <2>2, <2>3 DEF DepthAt
<1> QED BY <1>4

LEMMA DepthSame ==
  ASSUME NEW s, NEW t, NEW n \in Nat, \A k \in 1 .. n : s[k].is = t[k].is
  PROVE  Depth(s, n) = Depth(t, n)
<1>1. \A is : {i \in 1 .. n : s[i].is = is} = {i \in 1 .. n : t[i].is = is}
  OBVIOUS
<1> QED BY <1>1 DEF Depth

LEMMA CollectedUpTo ==
  ASSUME NEW s \in Seq(Symbol), NEW m \in 0 .. Len(s), \A n \in 1 .. m : Depth(s, n) >= 1
  PROVE  \E c \in 0 .. Len(s) :
           Collected(s) = SubSeq(s, 1, c) /\ (c = Len(s) \/ c > m)
<1> DEFINE ends == {n \in DOMAIN s : Depth(s, n) <= 0}
<1>1. Len(s) \in Nat /\ DOMAIN s = 1 .. Len(s)
  OBVIOUS
<1>2. CASE ends = {}
  <2>1. Collected(s) = SubSeq(s, 1, Len(s))
    BY <1>2, AllOfThem DEF Collected
  <2>2. Len(s) \in 0 .. Len(s)
    BY <1>1
  <2> QED BY <2>1, <2>2
<1>3. CASE ends # {}
  <2>1. ends \subseteq Nat
    BY <1>1
  <2>2. Min(ends) \in ends
    BY <1>3, <2>1, LeastIsMin
  <2>3. Collected(s) = SubSeq(s, 1, Min(ends))
    BY <1>3 DEF Collected
  <2>4. ASSUME NEW c \in ends PROVE c \in 0 .. Len(s) /\ c > m
    <3>1. c \in 1 .. Len(s) /\ Depth(s, c) <= 0
      BY <1>1
    <3>2. c \in 1 .. m => Depth(s, c) >= 1
      OBVIOUS
    <3>3. Depth(s, c) \in Int
      BY <3>1, DepthNext
    <3> QED BY <1>1, <3>1, <3>2, <3>3
  <2> QED BY <2>2, <2>3, <2>4
<1> QED BY <1>2, <1>3

LEMMA CollectedIsGathered ==
  ASSUME NEW a \in Arrivals
  PROVE  Gathered(Collected(a.symbols), a)
<1> DEFINE e == a.edition
           d == Document(e)
           s == a.symbols
<1>1. /\ e \in Editions /\ s \in Seq(Symbol) /\ d \in Seq(Symbol) /\ Layout(d, e)
      /\ Whole(a, d) \/ CutOff(a, d) \/ Dropped(a, d)
  BY ArrivalIs
<1>2. e \in Seq(Seq(Field))
  BY <1>1, EditionParts
<1> HIDE DEF e, d
<1>3. \A r \in 1 .. Len(d) - 1 : Depth(d, r) >= 1
  BY <1>1, <1>2, DocumentDepth
<1>4. Len(d) \in Nat /\ Len(s) \in Nat /\ Len(d) > 0 /\ d[Len(d)].is = "end"
  <2>1. Len(d) \in Nat /\ Len(s) \in Nat
    BY <1>1
  <2>2. Len(d) = StartsAt(e, Len(e) + 1) + 1 /\ d[StartsAt(e, Len(e) + 1) + 1] = EndTag("rss")
    BY <1>1 DEF Layout
  <2>3. Len(e) + 1 \in 1 .. Len(e) + 1
    <3>1. Len(e) \in Nat
      BY <1>2
    <3> QED BY <3>1
  <2>4. StartsAt(e, Len(e) + 1) \in Nat
    BY <1>2, <2>3, StartsIncrease
  <2> QED BY <2>1, <2>2, <2>4, SymbolIs
<1>5. CASE Whole(a, d)
  <2>1. a.damage = "none" /\ a.at = Len(d) + 1 /\ s = d
    BY <1>5 DEF Whole
  <2>2. Len(d) - 1 \in 0 .. Len(s) /\ \A n \in 1 .. Len(d) - 1 : Depth(s, n) >= 1
    BY <1>3, <1>4, <2>1
  <2>3. PICK c \in 0 .. Len(s) : Collected(s) = SubSeq(s, 1, c) /\ (c = Len(s) \/ c > Len(d) - 1)
    BY <1>1, <2>2, CollectedUpTo
  <2>4. c = Len(s)
    BY <1>4, <2>1, <2>3
  <2>5. Collected(s) = s
    BY <1>1, <2>3, <2>4, AllOfThem
  <2>6. c >= a.at - 1
    BY <1>4, <2>1, <2>4
  <2> DEFINE w == Collected(s)
  <2>7. \E k \in 0 .. Len(s) : w = SubSeq(s, 1, k) /\ k >= a.at - 1
    BY <2>3, <2>6
  <2>8. w = a.symbols
    BY <2>5
  <2> HIDE DEF w
  <2>9. Gathered(w, a)
    BY <2>7, <2>8 DEF Gathered
  <2> QED BY <2>9 DEF w
<1>6. CASE CutOff(a, d)
  <2>1. /\ a.damage = "cut" /\ a.at \in 1 .. Len(d)
        /\ Len(s) = a.at - 1 \/ Len(s) = a.at
        /\ \A k \in 1 .. a.at - 1 : s[k] = d[k]
        /\ Len(s) = a.at => Fragment(d[a.at], <<s[a.at]>>)
    BY <1>6 DEF CutOff, Same
  <2>2. Len(s) = a.at => s[a.at].is = d[a.at].is /\ d[a.at].is # "end"
    <3>1. SUFFICES ASSUME Len(s) = a.at
                   PROVE  s[a.at].is = d[a.at].is /\ d[a.at].is # "end"
      OBVIOUS
    <3> DEFINE x == s[a.at]
    <3>2. Fragment(d[a.at], <<x>>)
      BY <2>1, <3>1
    <3> HIDE DEF x
    <3>3. <<x>> # <<>> /\ \A y : <<x>> = <<y>> => x = y
      OBVIOUS
    <3>4. \/ d[a.at].is = "start" /\ x = StartTag(Partial)
          \/ d[a.at].is = "text" /\ \E t \in ShortTexts[d[a.at].of] : x = Text(t)
      BY <3>2, <3>3 DEF Fragment
    <3>5. x.is = d[a.at].is /\ d[a.at].is # "end"
      BY <3>4, SymbolIs
    <3> QED BY <3>5 DEF x
  <2>3. \A k \in 1 .. Len(s) : s[k].is = d[k].is
    BY <1>4, <2>1, <2>2
  <2>4. Len(s) <= Len(d) - 1
    BY <1>4, <2>1, <2>2
  <2>5. ASSUME NEW n \in 1 .. Len(s) PROVE Depth(s, n) >= 1
    <3>1. n \in Nat /\ n \in 1 .. Len(d) - 1 /\ \A k \in 1 .. n : k \in 1 .. Len(s)
      BY <1>4, <2>4
    <3>2. Depth(s, n) = Depth(d, n)
      BY <2>3, <3>1, DepthSame
    <3> QED BY <1>3, <3>1, <3>2
  <2>6. Len(s) \in 0 .. Len(s)
    BY <1>4
  <2>7. PICK c \in 0 .. Len(s) : Collected(s) = SubSeq(s, 1, c) /\ (c = Len(s) \/ c > Len(s))
    BY <1>1, <2>5, <2>6, CollectedUpTo
  <2>8. c = Len(s)
    BY <1>4, <2>7
  <2>9. Collected(s) = s
    BY <1>1, <2>7, <2>8, AllOfThem
  <2>10. c >= a.at - 1
    BY <1>4, <2>1, <2>8
  <2> QED BY <2>7, <2>9, <2>10 DEF Gathered
<1>7. CASE Dropped(a, d)
  <2>1. /\ a.damage = "drop" /\ a.at \in 1 .. Len(d) /\ Len(s) = Len(d) - 1
        /\ \A k \in 1 .. a.at - 1 : s[k] = d[k]
    BY <1>7 DEF Dropped, Same
  <2>2. a.at - 1 \in 0 .. Len(s) /\ a.at - 1 \in Nat
    BY <1>4, <2>1
  <2>3. ASSUME NEW n \in 1 .. a.at - 1 PROVE Depth(s, n) >= 1
    <3>1. n \in Nat /\ n \in 1 .. Len(d) - 1 /\ \A k \in 1 .. n : k \in 1 .. a.at - 1
      BY <1>4, <2>1
    <3>2. \A k \in 1 .. n : s[k].is = d[k].is
      BY <2>1, <3>1
    <3>3. Depth(s, n) = Depth(d, n)
      BY <3>1, <3>2, DepthSame
    <3> QED BY <1>3, <3>1, <3>3
  <2>4. PICK c \in 0 .. Len(s) : Collected(s) = SubSeq(s, 1, c) /\ (c = Len(s) \/ c > a.at - 1)
    BY <1>1, <2>2, <2>3, CollectedUpTo
  <2>5. c >= a.at - 1
    BY <1>4, <2>1, <2>4
  <2> DEFINE w == Collected(s)
  <2>6. \E k \in 0 .. Len(s) : w = SubSeq(s, 1, k) /\ k >= a.at - 1
    BY <2>4, <2>5
  <2> HIDE DEF w
  <2>7. Gathered(w, a)
    BY <2>1, <2>6 DEF Gathered
  <2> QED BY <2>7 DEF w
<1> QED BY <1>1, <1>5, <1>6, <1>7

-----------------------------------------------------------------------------
(* The tree grows *)

\* The node is a new element of the tree.
Grows(ns, node, more) ==
  /\ ns \in Seq(Node) /\ Len(ns) \in Nat /\ node \in Node /\ node.parent \in 0 .. Len(ns)
  /\ \A n \in 1 .. Len(ns) : ns[n].parent < n
  /\ more \in Seq(Node) /\ Len(more) = Len(ns) + 1 /\ more[Len(ns) + 1] = node
  /\ \A n \in 1 .. Len(ns) : more[n] = ns[n] /\ ns[n].parent \in Nat

LEMMA ItemRecords ==
  ASSUME NEW ns, NEW items, Tree(ns, items)
  PROVE  /\ Len(items) \in Nat
         /\ \A k \in 1 .. Len(items) : items[k].at \in Nat /\ items[k].fields \in Nat
<1>1. items \in Seq([at : Nat, fields : Nat])
  BY DEF Tree
<1>2. \A k \in 1 .. Len(items) : items[k] \in [at : Nat, fields : Nat]
  BY <1>1, ElementOf
<1> QED BY <1>1, <1>2

LEMMA AddItem ==
  ASSUME NEW ns, NEW node, NEW more, Grows(ns, node, more), NEW items, Tree(ns, items),
         node.tag = "item"
  PROVE  LET items2 == Append(items, [at |-> Len(more), fields |-> 0])
         IN /\ Tree(more, items2) /\ Len(items2) = Len(items) + 1
            /\ items2[Len(items) + 1].at = Len(more) /\ items2[Len(items) + 1].fields = 0
            /\ \A k \in 1 .. Len(items) : items2[k] = items[k]
<1> DEFINE N == Len(ns)
           K == Len(items)
           new == [at |-> Len(more), fields |-> 0]
           items2 == Append(items, new)
<1>1. /\ N \in Nat /\ Len(more) = N + 1 /\ more[N + 1] = node /\ node.parent \in 0 .. N
      /\ \A n \in 1 .. N : more[n] = ns[n] /\ ns[n].parent < n /\ ns[n].parent \in Nat
  BY DEF Grows
<1>2. new \in [at : Nat, fields : Nat] /\ new.at = N + 1 /\ new.fields = 0
  BY <1>1
<1>3. K \in Nat /\ \A k \in 1 .. K : items[k].at \in Nat /\ items[k].fields \in Nat
  BY ItemRecords
<1> HIDE DEF new
<1>4. /\ items2 \in Seq([at : Nat, fields : Nat]) /\ Len(items2) = K + 1 /\ items2[K + 1] = new
      /\ \A k \in 1 .. K : items2[k] = items[k]
  <2>1. items \in Seq([at : Nat, fields : Nat])
    BY DEF Tree
  <2> QED BY <1>2, <2>1, AppendIsTyped
<1>5. /\ \A k \in 1 .. K :
           /\ items[k].at \in 1 .. N /\ items[k].at + items[k].fields <= N
           /\ ns[items[k].at].tag = "item"
           /\ \A m \in 1 .. items[k].fields :
                ns[items[k].at + m].parent = items[k].at /\ ns[items[k].at + m].tag # "item"
           /\ \A n \in 1 .. N :
                ns[n].parent = items[k].at /\ ns[n].tag # "item" =>
                  n \in items[k].at + 1 .. items[k].at + items[k].fields
      /\ \A k, l \in 1 .. K : k < l => items[k].at + items[k].fields < items[l].at
      /\ \A n \in 1 .. N : ns[n].tag = "item" => \E k \in 1 .. K : items[k].at = n
  BY DEF Tree
<1> HIDE DEF N, K, items2
<1>6. ASSUME NEW k \in 1 .. K + 1
      PROVE  /\ items2[k].at \in 1 .. N + 1 /\ items2[k].at + items2[k].fields <= N + 1
             /\ more[items2[k].at].tag = "item"
             /\ \A m \in 1 .. items2[k].fields :
                  more[items2[k].at + m].parent = items2[k].at /\ more[items2[k].at + m].tag # "item"
             /\ \A n \in 1 .. N + 1 :
                  more[n].parent = items2[k].at /\ more[n].tag # "item" =>
                    n \in items2[k].at + 1 .. items2[k].at + items2[k].fields
  <2>1. CASE k = K + 1
    <3>1. items2[k].at = N + 1 /\ items2[k].fields = 0
      BY <1>2, <1>4, <2>1
    <3>2. ASSUME NEW n \in 1 .. N + 1 PROVE more[n].parent # N + 1
      <4>1. CASE n = N + 1
        BY <1>1, <4>1
      <4>2. CASE n # N + 1
        <5>1. n \in 1 .. N
          BY <1>1, <4>2
        <5> QED BY <1>1, <5>1
      <4> QED BY <4>1, <4>2
    <3> QED BY <1>1, <3>1, <3>2
  <2>2. CASE k # K + 1
    <3>1. k \in 1 .. K /\ items2[k] = items[k]
      BY <1>3, <1>4, <2>2
    <3> DEFINE at == items[k].at
               fields == items[k].fields
    <3>2. /\ at \in 1 .. N /\ fields \in Nat /\ at + fields <= N /\ ns[at].tag = "item"
          /\ \A m \in 1 .. fields : ns[at + m].parent = at /\ ns[at + m].tag # "item"
          /\ \A n \in 1 .. N :
               ns[n].parent = at /\ ns[n].tag # "item" => n \in at + 1 .. at + fields
      BY <1>3, <1>5, <3>1
    <3>3. items2[k].at = at /\ items2[k].fields = fields
      BY <3>1
    <3> HIDE DEF at, fields
    <3>4. \A m \in 1 .. fields : at + m \in 1 .. N
      BY <1>1, <3>2
    <3>5. ASSUME NEW n \in 1 .. N + 1, more[n].parent = at, more[n].tag # "item"
          PROVE  n \in at + 1 .. at + fields
      <4>1. n \in 1 .. N
        BY <1>1, <3>5
      <4> QED BY <1>1, <3>2, <3>5, <4>1
    <3>6. at \in 1 .. N + 1 /\ at + fields <= N + 1
      BY <1>1, <3>2
    <3>7. more[at].tag = "item"
      BY <1>1, <3>2
    <3>8. \A m \in 1 .. fields : more[at + m].parent = at /\ more[at + m].tag # "item"
      BY <1>1, <3>2, <3>4
    <3> QED BY <3>3, <3>5, <3>6, <3>7, <3>8
  <2> QED BY <2>1, <2>2
<1>7. ASSUME NEW k \in 1 .. K + 1, NEW l \in 1 .. K + 1, k < l
      PROVE  items2[k].at + items2[k].fields < items2[l].at
  <2>1. k \in 1 .. K /\ items2[k] = items[k]
    BY <1>3, <1>4, <1>7
  <2>2. CASE l = K + 1
    <3>1. items2[l].at = N + 1 /\ items[k].at + items[k].fields <= N
      BY <1>2, <1>4, <1>5, <2>1, <2>2
    <3>2. items[k].at \in Nat /\ items[k].fields \in Nat
      BY <1>3, <2>1
    <3> QED BY <1>1, <2>1, <3>1, <3>2
  <2>3. CASE l # K + 1
    <3>1. l \in 1 .. K /\ items2[l] = items[l]
      BY <1>3, <1>4, <2>3
    <3> QED BY <1>5, <1>7, <2>1, <3>1
  <2> QED BY <2>2, <2>3
<1>8. ASSUME NEW n \in 1 .. N + 1, more[n].tag = "item"
      PROVE  \E k \in 1 .. K + 1 : items2[k].at = n
  <2>1. CASE n = N + 1
    <3>1. K + 1 \in 1 .. K + 1 /\ items2[K + 1].at = n
      BY <1>2, <1>3, <1>4, <2>1
    <3> QED BY <3>1
  <2>2. CASE n # N + 1
    <3>1. n \in 1 .. N
      BY <1>1, <2>2
    <3>2. PICK k \in 1 .. K : items[k].at = n
      BY <1>1, <1>5, <1>8, <3>1
    <3>3. k \in 1 .. K + 1 /\ items2[k].at = n
      BY <1>3, <1>4, <3>2
    <3> QED BY <3>3
  <2> QED BY <2>1, <2>2
<1>9. Tree(more, items2)
  BY <1>1, <1>4, <1>6, <1>7, <1>8 DEF Tree
<1> QED BY <1>1, <1>2, <1>4, <1>9 DEF items2, new, K

LEMMA AddOther ==
  ASSUME NEW ns, NEW node, NEW more, Grows(ns, node, more), NEW items, Tree(ns, items),
         node.tag # "item", node.parent # 0 => ns[node.parent].tag # "item"
  PROVE  Tree(more, items)
<1> DEFINE N == Len(ns)
           K == Len(items)
<1>1. /\ N \in Nat /\ Len(more) = N + 1 /\ more[N + 1] = node /\ node.parent \in 0 .. N
      /\ \A n \in 1 .. N : more[n] = ns[n]
  BY DEF Grows
<1>2. K \in Nat /\ \A k \in 1 .. K : items[k].at \in Nat /\ items[k].fields \in Nat
  BY ItemRecords
<1>3. /\ items \in Seq([at : Nat, fields : Nat])
      /\ \A k \in 1 .. K :
           /\ items[k].at \in 1 .. N /\ items[k].at + items[k].fields <= N
           /\ ns[items[k].at].tag = "item"
           /\ \A m \in 1 .. items[k].fields :
                ns[items[k].at + m].parent = items[k].at /\ ns[items[k].at + m].tag # "item"
           /\ \A n \in 1 .. N :
                ns[n].parent = items[k].at /\ ns[n].tag # "item" =>
                  n \in items[k].at + 1 .. items[k].at + items[k].fields
      /\ \A k, l \in 1 .. K : k < l => items[k].at + items[k].fields < items[l].at
      /\ \A n \in 1 .. N : ns[n].tag = "item" => \E k \in 1 .. K : items[k].at = n
  BY DEF Tree
<1> HIDE DEF N, K
<1>4. ASSUME NEW k \in 1 .. K
      PROVE  /\ items[k].at \in 1 .. N + 1 /\ items[k].at + items[k].fields <= N + 1
             /\ more[items[k].at].tag = "item"
             /\ \A m \in 1 .. items[k].fields :
                  more[items[k].at + m].parent = items[k].at /\ more[items[k].at + m].tag # "item"
             /\ \A n \in 1 .. N + 1 :
                  more[n].parent = items[k].at /\ more[n].tag # "item" =>
                    n \in items[k].at + 1 .. items[k].at + items[k].fields
  <2> DEFINE at == items[k].at
             fields == items[k].fields
  <2>1. /\ at \in 1 .. N /\ fields \in Nat /\ at + fields <= N /\ ns[at].tag = "item"
        /\ \A m \in 1 .. fields : ns[at + m].parent = at /\ ns[at + m].tag # "item"
        /\ \A n \in 1 .. N :
             ns[n].parent = at /\ ns[n].tag # "item" => n \in at + 1 .. at + fields
    BY <1>2, <1>3
  <2> HIDE DEF at, fields
  <2>2. \A m \in 1 .. fields : at + m \in 1 .. N
    BY <1>1, <2>1
  <2>3. ASSUME NEW n \in 1 .. N + 1, more[n].parent = at, more[n].tag # "item"
        PROVE  n \in at + 1 .. at + fields
    <3>1. node.parent # at
      BY <1>1, <2>1
    <3>2. n \in 1 .. N
      BY <1>1, <2>3, <3>1
    <3> QED BY <1>1, <2>1, <2>3, <3>2
  <2>4. at \in 1 .. N + 1 /\ at + fields <= N + 1
    BY <1>1, <2>1
  <2>5. more[at].tag = "item"
    BY <1>1, <2>1
  <2>6. \A m \in 1 .. fields : more[at + m].parent = at /\ more[at + m].tag # "item"
    BY <1>1, <2>1, <2>2
  <2> QED BY <2>3, <2>4, <2>5, <2>6 DEF at, fields
<1>5. \A n \in 1 .. N + 1 : more[n].tag = "item" => \E k \in 1 .. K : items[k].at = n
  <2> TAKE n \in 1 .. N + 1
  <2>1. more[n].tag = "item" => n \in 1 .. N
    BY <1>1
  <2> QED BY <1>1, <1>3, <2>1
<1> QED BY <1>1, <1>3, <1>4, <1>5 DEF Tree, K

OneMoreField(items) == [items EXCEPT ![Len(items)].fields = @ + 1]

LEMMA AddField ==
  ASSUME NEW ns, NEW node, NEW more, Grows(ns, node, more), NEW items, Tree(ns, items),
         Len(items) > 0,
         Len(ns) = items[Len(items)].at + items[Len(items)].fields,
         node.tag # "item", node.parent = items[Len(items)].at
  PROVE  LET items2 == OneMoreField(items)
             K == Len(items)
         IN /\ Tree(more, items2) /\ Len(items2) = K
            /\ items2[K].at = items[K].at /\ items2[K].fields = items[K].fields + 1
            /\ \A k \in 1 .. K - 1 : items2[k] = items[k]
<1> DEFINE N == Len(ns)
           K == Len(items)
           items2 == OneMoreField(items)
<1>1. /\ N \in Nat /\ Len(more) = N + 1 /\ more[N + 1] = node /\ node.parent \in 0 .. N
      /\ \A n \in 1 .. N : more[n] = ns[n]
  BY DEF Grows
<1>2. /\ K \in Nat /\ K \in 1 .. K /\ DOMAIN items = 1 .. K
      /\ \A k \in 1 .. K : items[k].at \in Nat /\ items[k].fields \in Nat
  <2>1. items \in Seq([at : Nat, fields : Nat])
    BY DEF Tree
  <2> QED BY <2>1, ItemRecords
<1>3. /\ items \in Seq([at : Nat, fields : Nat])
      /\ \A k \in 1 .. K :
           /\ items[k].at \in 1 .. N /\ items[k].at + items[k].fields <= N
           /\ ns[items[k].at].tag = "item"
           /\ \A m \in 1 .. items[k].fields :
                ns[items[k].at + m].parent = items[k].at /\ ns[items[k].at + m].tag # "item"
           /\ \A n \in 1 .. N :
                ns[n].parent = items[k].at /\ ns[n].tag # "item" =>
                  n \in items[k].at + 1 .. items[k].at + items[k].fields
      /\ \A k, l \in 1 .. K : k < l => items[k].at + items[k].fields < items[l].at
      /\ \A n \in 1 .. N : ns[n].tag = "item" => \E k \in 1 .. K : items[k].at = n
  BY DEF Tree
<1>4. N = items[K].at + items[K].fields /\ node.parent = items[K].at /\ node.tag # "item"
  OBVIOUS
<1>5. /\ items2 = [k \in 1 .. K |->
                     IF k = K THEN [items[K] EXCEPT !.fields = @ + 1] ELSE items[k]]
  BY <1>2 DEF OneMoreField
<1>6. \A k \in 1 .. K : items[k] \in [at : Nat, fields : Nat]
  BY <1>3, ElementOf
<1>7. items2[K].at = items[K].at /\ items2[K].fields = items[K].fields + 1
  BY <1>2, <1>5, <1>6
<1>8. \A k \in 1 .. K : k # K => items2[k] = items[k]
  BY <1>5
<1>9. items2 \in Seq([at : Nat, fields : Nat]) /\ Len(items2) = K
  <2>1. \A k \in 1 .. K : items2[k] \in [at : Nat, fields : Nat]
    <3> TAKE k \in 1 .. K
    <3>1. CASE k = K
      <4>1. items[K] \in [at : Nat, fields : Nat]
        BY <1>2, <1>6
      <4>2. items2[k] = [items[K] EXCEPT !.fields = @ + 1]
        BY <1>5, <3>1
      <4> QED BY <4>1, <4>2
    <3>2. CASE k # K
      BY <1>6, <1>8, <3>2
    <3> QED BY <3>1, <3>2
  <2>2. items2 = [k \in DOMAIN items |-> items2[k]]
    BY <1>2, <1>5
  <2> HIDE DEF items2
  <2> QED BY <1>2, <2>1, <2>2, MapIsSeq
<1> HIDE DEF N, K, items2
<1>10. ASSUME NEW k \in 1 .. K
       PROVE  /\ items2[k].at \in 1 .. N + 1 /\ items2[k].at + items2[k].fields <= N + 1
              /\ more[items2[k].at].tag = "item"
              /\ \A m \in 1 .. items2[k].fields :
                   more[items2[k].at + m].parent = items2[k].at /\ more[items2[k].at + m].tag # "item"
              /\ \A n \in 1 .. N + 1 :
                   more[n].parent = items2[k].at /\ more[n].tag # "item" =>
                     n \in items2[k].at + 1 .. items2[k].at + items2[k].fields
  <2> DEFINE at == items[k].at
             fields == items[k].fields
             fields2 == items2[k].fields
  <2>1. /\ at \in 1 .. N /\ fields \in Nat /\ at + fields <= N /\ ns[at].tag = "item"
        /\ \A m \in 1 .. fields : ns[at + m].parent = at /\ ns[at + m].tag # "item"
        /\ \A n \in 1 .. N :
             ns[n].parent = at /\ ns[n].tag # "item" => n \in at + 1 .. at + fields
    BY <1>2, <1>3
  <2>2. /\ items2[k].at = at
        /\ k = K => fields2 = fields + 1 /\ N = at + fields /\ node.parent = at
        /\ k # K => fields2 = fields
    BY <1>2, <1>4, <1>7, <1>8
  <2>3. k # K => at # node.parent
    <3>1. SUFFICES ASSUME k # K PROVE at # items[K].at
      BY <1>4
    <3>2. k < K
      BY <1>2, <3>1
    <3>3. at + fields < items[K].at
      BY <1>2, <1>3, <3>2
    <3> QED BY <1>2, <2>1, <3>3
  <2> HIDE DEF at, fields, fields2
  <2>4. fields2 \in Nat /\ fields <= fields2 /\ at + fields2 <= N + 1
    BY <1>1, <2>1, <2>2, SMTT(30)
  <2>5. ASSUME NEW n \in 1 .. N + 1, more[n].parent = at, more[n].tag # "item"
        PROVE  n \in at + 1 .. at + fields2
    <3>1. CASE n = N + 1
      BY <1>1, <2>1, <2>2, <2>3, <2>5, <3>1
    <3>2. CASE n # N + 1
      <4>1. n \in 1 .. N
        BY <1>1, <3>2
      <4>2. n \in at + 1 .. at + fields
        BY <1>1, <2>1, <2>5, <4>1
      <4> QED BY <2>1, <2>4, <4>2
    <3> QED BY <3>1, <3>2
  <2>6. ASSUME NEW m \in 1 .. fields2
        PROVE  more[at + m].parent = at /\ more[at + m].tag # "item"
    <3>1. CASE m \in 1 .. fields
      <4>1. at + m \in 1 .. N
        BY <1>1, <2>1, <3>1
      <4> QED BY <1>1, <2>1, <3>1, <4>1
    <3>2. CASE m \notin 1 .. fields
      <4>1. k = K /\ at + m = N + 1
        BY <1>1, <2>1, <2>2, <3>2
      <4> QED BY <1>1, <1>4, <2>2, <4>1
    <3> QED BY <3>1, <3>2
  <2>7. at \in 1 .. N + 1 /\ more[at].tag = "item"
    BY <1>1, <2>1
  <2>8. items2[k].fields = fields2 /\ items2[k].at = at
    BY <2>2 DEF fields2
  <2> QED BY <2>4, <2>5, <2>6, <2>7, <2>8
<1>11. ASSUME NEW k \in 1 .. K, NEW l \in 1 .. K, k < l
       PROVE  items2[k].at + items2[k].fields < items2[l].at
  <2>1. k # K /\ items2[k] = items[k]
    BY <1>2, <1>8, <1>11
  <2>2. items2[l].at = items[l].at
    BY <1>7, <1>8
  <2> QED BY <1>3, <1>11, <2>1, <2>2
<1>12. \A n \in 1 .. N + 1 : more[n].tag = "item" => \E k \in 1 .. K : items2[k].at = n
  <2> TAKE n \in 1 .. N + 1
  <2>1. SUFFICES ASSUME more[n].tag = "item" PROVE \E k \in 1 .. K : items2[k].at = n
    OBVIOUS
  <2>2. n \in 1 .. N
    BY <1>1, <1>4, <2>1
  <2>3. ns[n].tag = "item"
    BY <1>1, <2>1, <2>2
  <2>4. PICK k \in 1 .. K : items[k].at = n
    BY <1>3, <2>2, <2>3
  <2>5. items2[k].at = items[k].at
    BY <1>7, <1>8
  <2> QED BY <2>4, <2>5
<1>13. Tree(more, items2)
  BY <1>1, <1>9, <1>10, <1>11, <1>12 DEF Tree
<1>14. \A k \in 1 .. K - 1 : items2[k] = items[k]
  BY <1>2, <1>8
<1> QED BY <1>7, <1>9, <1>13, <1>14 DEF items2, K

\* A text does not change the shape of the tree.
LEMMA SameTree ==
  ASSUME NEW ns, NEW other, NEW items, Tree(ns, items), Len(other) = Len(ns),
         \A n \in 1 .. Len(ns) : other[n].tag = ns[n].tag /\ other[n].parent = ns[n].parent
  PROVE  Tree(other, items)
<1> DEFINE N == Len(ns)
           K == Len(items)
           Item(s, k) ==
             /\ items[k].at \in 1 .. N /\ items[k].at + items[k].fields <= N
             /\ s[items[k].at].tag = "item"
             /\ \A m \in 1 .. items[k].fields :
                  s[items[k].at + m].parent = items[k].at /\ s[items[k].at + m].tag # "item"
             /\ \A n \in 1 .. N :
                  s[n].parent = items[k].at /\ s[n].tag # "item" =>
                    n \in items[k].at + 1 .. items[k].at + items[k].fields
<1>1. /\ items \in Seq([at : Nat, fields : Nat])
      /\ \A k \in 1 .. K : Item(ns, k)
      /\ \A k, l \in 1 .. K : k < l => items[k].at + items[k].fields < items[l].at
      /\ \A n \in 1 .. N : ns[n].tag = "item" => \E k \in 1 .. K : items[k].at = n
  BY DEF Tree
<1>2. ASSUME NEW k \in 1 .. K PROVE Item(other, k)
  <2> DEFINE at == items[k].at
             fields == items[k].fields
  <2>1. at \in 1 .. N /\ at + fields <= N /\ at \in Nat /\ fields \in Nat
    BY <1>1, ItemRecords
  <2>2. \A m \in 1 .. fields : at + m \in 1 .. N
    <3> HIDE DEF at, fields
    <3> QED BY <2>1
  <2>3. /\ ns[at].tag = "item"
        /\ \A m \in 1 .. fields : ns[at + m].parent = at /\ ns[at + m].tag # "item"
        /\ \A n \in 1 .. N :
             ns[n].parent = at /\ ns[n].tag # "item" => n \in at + 1 .. at + fields
    BY <1>1
  <2>4. \A n \in 1 .. N : other[n].tag = ns[n].tag /\ other[n].parent = ns[n].parent
    OBVIOUS
  <2> HIDE DEF at, fields, N
  <2>5. other[at].tag = "item"
    BY <2>1, <2>3, <2>4
  <2>6. \A m \in 1 .. fields : other[at + m].parent = at /\ other[at + m].tag # "item"
    BY <2>2, <2>3, <2>4
  <2>7. \A n \in 1 .. N :
          other[n].parent = at /\ other[n].tag # "item" => n \in at + 1 .. at + fields
    BY <2>3, <2>4
  <2> QED BY <2>1, <2>5, <2>6, <2>7 DEF at, fields
<1>3. \A n \in 1 .. N : other[n].tag = "item" => \E k \in 1 .. K : items[k].at = n
  BY <1>1
<1>4. Len(other) = N
  OBVIOUS
<1> HIDE DEF N, K
<1> QED BY <1>1, <1>2, <1>3, <1>4 DEF Tree, K

\* What was read of an item is not changed.
SameItem(ns, items, more, items2, k) ==
  /\ items2[k].at = items[k].at /\ items2[k].fields = items[k].fields
  /\ \A m \in 1 .. items[k].fields : more[items[k].at + m] = ns[items[k].at + m]

LEMMA StaysRead ==
  ASSUME NEW ns, NEW items, NEW more, NEW items2, NEW k, SameItem(ns, items, more, items2, k),
         NEW e
  PROVE  /\ Faithful(ns, items, e, k) => Faithful(more, items2, e, k)
         /\ Complete(ns, items, e, k) => Complete(more, items2, e, k)
  BY DEF SameItem, Faithful, Complete, FirstFields, IsField, MayBeField

-----------------------------------------------------------------------------
(* Parse reads the symbols before the damage *)

Current(st) == IF st = <<>> THEN 0 ELSE st[Len(st)]

LEMMA NoLonger ==
  ASSUME NEW S, NEW s \in Seq(S)
  PROVE  s = <<>> <=> Len(s) = 0
  OBVIOUS

LEMMA GrownItems ==
  ASSUME NEW ns, NEW node, NEW more, Grows(ns, node, more), NEW items, Tree(ns, items),
         NEW items2, NEW n \in 0 .. Len(items), \A k \in 1 .. n : items2[k] = items[k], NEW e
  PROVE  /\ \A k \in 1 .. n : SameItem(ns, items, more, items2, k)
         /\ CompleteUpTo(ns, items, e, n) => CompleteUpTo(more, items2, e, n)
<1>1. ASSUME NEW k \in 1 .. n PROVE SameItem(ns, items, more, items2, k)
  <2> DEFINE at == items[k].at
             fields == items[k].fields
  <2>1. /\ at \in Nat /\ fields \in Nat /\ at \in 1 .. Len(ns) /\ at + fields <= Len(ns)
    <3>1. k \in 1 .. Len(items)
      BY ItemRecords
    <3> QED BY <3>1, ItemRecords DEF Tree
  <2>2. Len(ns) \in Nat /\ \A l \in 1 .. Len(ns) : more[l] = ns[l]
    BY DEF Grows
  <2>3. \A m \in 1 .. fields : more[at + m] = ns[at + m]
    <3> HIDE DEF at, fields
    <3> QED BY <2>1, <2>2
  <2> QED BY <2>3 DEF SameItem
<1>2. CompleteUpTo(ns, items, e, n) => CompleteUpTo(more, items2, e, n)
  BY <1>1, StaysRead DEF CompleteUpTo
<1> QED BY <1>1, <1>2

LEMMA GrownFields ==
  ASSUME NEW ns, NEW node, NEW more, Grows(ns, node, more), NEW items, Tree(ns, items),
         NEW items2, NEW k \in 1 .. Len(items), items2[k].at = items[k].at,
         NEW e, NEW j \in Nat, j <= items[k].fields, FirstFields(ns, items, e, k, j)
  PROVE  FirstFields(more, items2, e, k, j)
<1> DEFINE at == items[k].at
           fields == items[k].fields
<1>1. /\ at \in Nat /\ fields \in Nat /\ at \in 1 .. Len(ns) /\ at + fields <= Len(ns)
      /\ j <= fields
  BY ItemRecords DEF Tree
<1>2. Len(ns) \in Nat /\ \A l \in 1 .. Len(ns) : more[l] = ns[l]
  BY DEF Grows
<1>3. \A m \in 1 .. j : more[at + m] = ns[at + m]
  <2> HIDE DEF at, fields
  <2> QED BY <1>1, <1>2
<1> QED BY <1>3 DEF FirstFields, IsField

LEMMA FieldTags ==
  ASSUME NEW e \in Seq(Seq(Field)), NEW i \in 1 .. Len(e), NEW j \in 1 .. Len(e[i])
  PROVE  e[i][j] \in Field /\ e[i][j].tag # "item" /\ e[i][j].text \in Texts
<1>1. e[i] \in Seq(Field)
  BY ElementOf
<1>2. e[i][j] \in Field
  BY <1>1, ElementOf
<1> QED BY <1>2 DEF Field

\* The place and the next symbol, and what is behind it.
LEMMA ExactStart ==
  ASSUME NEW e \in Seq(Seq(Field)), NEW d, Layout(d, e), NEW r \in Nat,
         NEW ns, NEW st \in Seq(Nat), NEW items, Tree(ns, items), ExactAt(ns, st, items, e, r),
         r < Len(d), d[r + 1].is = "start",
         NEW node, NEW more, Grows(ns, node, more),
         node.tag = d[r + 1].of, node.parent = Current(st), node.text = NoText
  PROVE  \E items2 : /\ Tree(more, items2)
                     /\ ExactAt(more, Append(st, Len(more)), items2, e, r + 1)
<1> DEFINE N == Len(ns)
           K == Len(items)
           st2 == Append(st, Len(more))
<1>1. /\ N \in Nat /\ Len(more) = N + 1 /\ more[N + 1] = node
      /\ \A n \in 1 .. N : more[n] = ns[n]
  BY DEF Grows
<1>2. /\ Len(st) \in Nat /\ st2 \in Seq(Nat) /\ Len(st2) = Len(st) + 1
      /\ st2[Len(st) + 1] = N + 1
      /\ \A l \in 1 .. Len(st) : st2[l] = st[l]
  <2>1. Len(more) \in Nat
    BY <1>1
  <2> QED BY <1>1, <2>1, AppendIsTyped
<1>3. st = <<>> <=> Len(st) = 0
  BY NoLonger
<1>4. K \in Nat /\ \A k \in 1 .. K : items[k].at \in Nat /\ items[k].fields \in Nat
  BY ItemRecords
<1>5. \A n \in 1 .. Len(e) : Len(e[n]) \in Nat
  BY StartsIncrease
<1> HIDE DEF N, K, st2
<1>6. Root(ns) => Root(more)
  BY <1>1, SMTT(30) DEF Root, N
<1>7. CASE r = 0 /\ ns = <<>> /\ IsStack(st, 0, 0, 0) /\ items = <<>>
  <2>1. node.tag = "rss" /\ node.parent = 0
    <3>1. d[r + 1] = StartTag("rss")
      BY <1>7, FromBegin
    <3>2. Len(st) = 0
      BY <1>7 DEF IsStack
    <3> QED BY <1>3, <3>1, <3>2 DEF StartTag, Current
  <2>2. Tree(more, items)
    BY <2>1, AddOther
  <2>3. N = 0 /\ Len(more) = 1 /\ more[1].tag = "rss"
    BY <1>1, <1>7, <2>1 DEF N
  <2>4. IsStack(st2, 1, 0, 0)
    BY <1>2, <1>7, <2>3 DEF IsStack
  <2>5. ExactAt(more, st2, items, e, r + 1)
    BY <1>7, <2>3, <2>4 DEF ExactAt
  <2> QED BY <2>2, <2>5 DEF st2
<1>8. CASE r = 1 /\ Len(ns) = 1 /\ ns[1].tag = "rss" /\ IsStack(st, 1, 0, 0) /\ items = <<>>
  <2>1. node.tag = "channel" /\ node.parent = 1 /\ AtItems(e, 1, r + 1)
    <3>1. d[r + 1] = StartTag("channel") /\ AtItems(e, 1, r + 1)
      BY <1>8, FromRss
    <3>2. Len(st) = 1 /\ st[1] = 1
      BY <1>8 DEF IsStack
    <3> QED BY <1>3, <3>1, <3>2 DEF StartTag, Current
  <2>2. Tree(more, items)
    BY <1>8, <2>1, AddOther
  <2>3. Root(more)
    BY <1>1, <1>8, <2>1 DEF N, Root
  <2>4. IsStack(st2, 2, 0, 0)
    BY <1>1, <1>2, <1>8 DEF IsStack, N
  <2>5. Len(items) = 1 - 1 /\ CompleteUpTo(more, items, e, 1 - 1)
    BY <1>8 DEF CompleteUpTo
  <2>6. ExactAt(more, st2, items, e, r + 1)
    BY <2>1, <2>3, <2>4, <2>5 DEF ExactAt, ExactItems
  <2> QED BY <2>2, <2>6 DEF st2
<1>9. ASSUME NEW i, AtItems(e, i, r), ExactItems(ns, st, items, e, i)
      PROVE  \E items2 : Tree(more, items2) /\ ExactAt(more, st2, items2, e, r + 1)
  <2>0. /\ Root(ns) /\ IsStack(st, 2, 0, 0) /\ Len(items) = i - 1
        /\ CompleteUpTo(ns, items, e, i - 1)
    BY <1>9 DEF ExactItems
  <2>1. i \in Nat /\ (i \in 1 .. Len(e) \/ i = Len(e) + 1)
    BY <1>9, SMTT(30) DEF AtItems
  <2>2. CASE i = Len(e) + 1
    <3>1. d[r + 1] = EndTag("channel")
      BY <1>9, <2>0, <2>2, FromItems
    <3> QED BY <3>1, SymbolIs
  <2>3. CASE i \in 1 .. Len(e)
    <3>1. d[r + 1] = StartTag("item") /\ InItem(e, i, 0, r + 1)
      BY <1>9, <2>0, <2>3, IntoItem
    <3>2. node.tag = "item"
      BY <3>1 DEF StartTag
    <3> DEFINE items2 == Append(items, [at |-> Len(more), fields |-> 0])
    <3>3. /\ Tree(more, items2) /\ Len(items2) = K + 1
          /\ items2[K + 1].at = Len(more) /\ items2[K + 1].fields = 0
          /\ \A k \in 1 .. K : items2[k] = items[k]
      BY <3>2, AddItem DEF K
    <3> HIDE DEF items2
    <3>4. K + 1 = i /\ i - 1 = K /\ K \in 0 .. Len(items)
      BY <1>4, <1>9, <2>0, <2>1 DEF K
    <3>5. CompleteUpTo(more, items2, e, i - 1)
      <4>1. i - 1 \in 0 .. Len(items) /\ \A k \in 1 .. i - 1 : items2[k] = items[k]
        BY <3>3, <3>4
      <4> QED BY <1>9, <2>0, <4>1, GrownItems
    <3>6. IsStack(st2, 3, items2[i].at, 0)
      BY <1>1, <1>2, <1>9, <2>0, <3>3, <3>4 DEF IsStack
    <3>7. FirstFields(more, items2, e, i, 0)
      BY <1>5, <2>3 DEF FirstFields
    <3>8. Len(more) = items2[i].at + 0
      BY <1>1, <3>3, <3>4
    <3>9. ExactItem(more, st2, items2, e, i, 0)
      BY <1>6, <2>0, <3>3, <3>4, <3>5, <3>6, <3>7, <3>8 DEF ExactItem, AtTheItem
    <3>10. ExactAt(more, st2, items2, e, r + 1)
      BY <3>1, <3>9 DEF ExactAt
    <3> QED BY <3>3, <3>10
  <2> QED BY <2>1, <2>2, <2>3
<1>10. ASSUME NEW i, NEW j, InItem(e, i, j, r), ExactItem(ns, st, items, e, i, j)
       PROVE  \E items2 : Tree(more, items2) /\ ExactAt(more, st2, items2, e, r + 1)
  <2>0. /\ Root(ns) /\ Len(items) = i /\ items[i].fields = j /\ Len(ns) = items[i].at + j
        /\ IsStack(st, 3, items[i].at, 0)
        /\ CompleteUpTo(ns, items, e, i - 1) /\ FirstFields(ns, items, e, i, j)
    BY <1>10 DEF ExactItem, AtTheItem
  <2>1. i \in 1 .. Len(e) /\ i \in Nat /\ j \in Nat /\ (j < Len(e[i]) \/ j = Len(e[i]))
    BY <1>5, <1>10 DEF InItem
  <2>2. CASE j = Len(e[i])
    <3>1. d[r + 1] = EndTag("item")
      BY <1>10, <2>0, <2>2, FromItem
    <3> QED BY <3>1, SymbolIs
  <2>3. CASE j < Len(e[i])
    <3>1. d[r + 1] = StartTag(e[i][j + 1].tag) /\ InField(e, i, j + 1, r + 1)
      BY <1>10, <2>0, <2>3, IntoField, SMTT(30)
    <3>2. j + 1 \in 1 .. Len(e[i])
      BY <1>5, <2>1, <2>3
    <3>3. node.tag = e[i][j + 1].tag /\ node.tag # "item" /\ node.parent = items[i].at
      <4>1. e[i][j + 1].tag # "item"
        BY <2>1, <3>2, FieldTags
      <4>2. node.tag = e[i][j + 1].tag
        BY <3>1 DEF StartTag
      <4>3. node.parent = items[i].at
        <5>1. Len(st) = 3 /\ st[3] = items[i].at
          BY <2>0 DEF IsStack
        <5> QED BY <1>3, <5>1 DEF Current
      <4> QED BY <4>1, <4>2, <4>3
    <3> DEFINE items2 == OneMoreField(items)
    <3>4. /\ Tree(more, items2) /\ Len(items2) = i
          /\ items2[i].at = items[i].at /\ items2[i].fields = j + 1
          /\ \A k \in 1 .. i - 1 : items2[k] = items[k]
      <4>1. /\ Len(items) > 0 /\ Len(ns) = items[Len(items)].at + items[Len(items)].fields
            /\ node.parent = items[Len(items)].at
        BY <1>10, <2>0, <2>1, <3>3
      <4>2. /\ Tree(more, items2) /\ Len(items2) = Len(items)
            /\ items2[Len(items)].at = items[Len(items)].at
            /\ items2[Len(items)].fields = items[Len(items)].fields + 1
            /\ \A k \in 1 .. Len(items) - 1 : items2[k] = items[k]
        BY <3>3, <4>1, AddField
      <4> QED BY <1>10, <2>0, <4>2
    <3> HIDE DEF items2
    <3>5. i - 1 \in 0 .. Len(items) /\ i \in 1 .. Len(items)
      BY <1>10, <2>0, <2>1
    <3>6. CompleteUpTo(more, items2, e, i - 1)
      <4>1. \A k \in 1 .. i - 1 : items2[k] = items[k]
        BY <3>4
      <4>2. CompleteUpTo(ns, items, e, i - 1)
        BY <2>0
      <4> QED BY <3>5, <4>1, <4>2, GrownItems
    <3>7. FirstFields(more, items2, e, i, j)
      <4>1. j \in Nat /\ j <= items[i].fields /\ FirstFields(ns, items, e, i, j)
        BY <1>10, <2>0, <2>1
      <4>2. items2[i].at = items[i].at
        BY <3>4
      <4> QED BY <3>5, <4>1, <4>2, GrownFields
    <3>8. j + 1 - 1 = j /\ Len(more) = items2[i].at + (j + 1) /\ Len(more) = N + 1
      <4>1. Len(more) = N + 1 /\ N = items[i].at + j /\ items2[i].at = items[i].at
        BY <1>1, <1>10, <2>0, <3>4 DEF N
      <4>2. items[i].at \in Nat /\ j \in Nat
        BY <1>4, <2>1, <3>5 DEF K
      <4>3. \A a, b \in Nat : b + 1 - 1 = b /\ a + b + 1 = a + (b + 1)
        OBVIOUS
      <4>4. j + 1 - 1 = j /\ items[i].at + j + 1 = items[i].at + (j + 1)
        BY <4>2, <4>3
      <4> QED BY <4>1, <4>4
    <3>9. IsStack(st2, 4, items2[i].at, items2[i].at + (j + 1))
      BY <1>2, <1>10, <2>0, <3>4, <3>8 DEF IsStack
    <3>10. more[Len(more)].tag = e[i][j + 1].tag /\ more[Len(more)].text = NoText
      BY <1>1, <3>3
    <3>11. ExactField(more, st2, items2, e, i, j + 1)
      <4>1. AtTheItem(more, items2, e, i, j + 1)
        BY <1>6, <2>0, <3>4, <3>6, <3>8 DEF AtTheItem
      <4> DEFINE l == j + 1
      <4>0. l - 1 = j
        BY <2>1
      <4>2. FirstFields(more, items2, e, i, l - 1)
        <5> HIDE DEF l
        <5> QED BY <3>7, <4>0
      <4>3. /\ AtTheItem(more, items2, e, i, l) /\ IsStack(st2, 4, items2[i].at, items2[i].at + l)
            /\ more[Len(more)].tag = e[i][l].tag /\ more[Len(more)].text = NoText
        BY <3>9, <3>10, <4>1
      <4> HIDE DEF l
      <4>4. ExactField(more, st2, items2, e, i, l)
        BY <4>2, <4>3 DEF ExactField
      <4> QED BY <4>4 DEF l
    <3>12. ExactAt(more, st2, items2, e, r + 1)
      BY <3>1, <3>11 DEF ExactAt
    <3> QED BY <3>4, <3>12
  <2> QED BY <2>1, <2>2, <2>3
<1>11. ASSUME NEW i, NEW j, InField(e, i, j, r) PROVE FALSE
  <2>1. d[r + 1] = Text(e[i][j].text)
    BY <1>11, IntoText
  <2> QED BY <2>1, SymbolIs
<1>12. ASSUME NEW i, NEW j, BehindText(e, i, j, r) PROVE FALSE
  <2>1. d[r + 1] = EndTag(e[i][j].tag)
    BY <1>12, FromText
  <2> QED BY <2>1, SymbolIs
<1>13. CASE BehindChannel(e, r)
  <2>1. d[r + 1] = EndTag("rss")
    BY <1>13, FromChannel
  <2> QED BY <2>1, SymbolIs
<1>14. CASE BehindRss(e, r)
  BY <1>14, FromEnd
<1> QED BY <1>7, <1>8, <1>9, <1>10, <1>11, <1>12, <1>13, <1>14 DEF ExactAt, st2

\* A text is put into node x.
Texted(ns, x, text, other) ==
  /\ Len(other) = Len(ns) /\ x \in 1 .. Len(ns)
  /\ \A n \in 1 .. Len(ns) : /\ other[n].tag = ns[n].tag /\ other[n].parent = ns[n].parent
                             /\ n # x => other[n] = ns[n]
  /\ other[x].text = text

LEMMA ExactBeforeText ==
  ASSUME NEW e \in Seq(Seq(Field)), NEW d, Layout(d, e), NEW r \in Nat,
         NEW ns, NEW st, NEW items, ExactAt(ns, st, items, e, r),
         r < Len(d), d[r + 1].is = "text"
  PROVE  \E i, j : /\ InField(e, i, j, r) /\ ExactField(ns, st, items, e, i, j)
                   /\ d[r + 1] = Text(e[i][j].text) /\ BehindText(e, i, j, r + 1)
<1>1. CASE r = 0
  BY <1>1, FromBegin, SymbolIs
<1>2. CASE r = 1
  BY <1>2, FromRss, SymbolIs
<1>3. ASSUME NEW i, AtItems(e, i, r) PROVE FALSE
  <2>1. i \in 1 .. Len(e) \/ i = Len(e) + 1
    BY <1>3 DEF AtItems
  <2>2. CASE i \in 1 .. Len(e)
    <3>1. d[r + 1] = StartTag("item")
      BY <1>3, <2>2, IntoItem
    <3> QED BY <3>1, SymbolIs
  <2>3. CASE i = Len(e) + 1
    <3>1. d[r + 1] = EndTag("channel")
      BY <1>3, <2>3, FromItems
    <3> QED BY <3>1, SymbolIs
  <2> QED BY <2>1, <2>2, <2>3
<1>4. ASSUME NEW i, NEW j, InItem(e, i, j, r) PROVE FALSE
  <2>1. j < Len(e[i]) \/ j = Len(e[i])
    BY <1>4, StartsIncrease DEF InItem
  <2>2. CASE j < Len(e[i])
    <3>1. d[r + 1] = StartTag(e[i][j + 1].tag)
      BY <1>4, <2>2, IntoField
    <3> QED BY <3>1, SymbolIs
  <2>3. CASE j = Len(e[i])
    <3>1. d[r + 1] = EndTag("item")
      BY <1>4, <2>3, FromItem
    <3> QED BY <3>1, SymbolIs
  <2> QED BY <2>1, <2>2, <2>3
<1>5. ASSUME NEW i, NEW j, BehindText(e, i, j, r) PROVE FALSE
  <2>1. d[r + 1] = EndTag(e[i][j].tag)
    BY <1>5, FromText
  <2> QED BY <2>1, SymbolIs
<1>6. ~BehindChannel(e, r)
  BY FromChannel, SymbolIs
<1>7. ~BehindRss(e, r)
  BY FromEnd
<1>8. PICK i, j : InField(e, i, j, r) /\ ExactField(ns, st, items, e, i, j)
  BY <1>1, <1>2, <1>3, <1>4, <1>5, <1>6, <1>7 DEF ExactAt
<1>9. d[r + 1] = Text(e[i][j].text) /\ BehindText(e, i, j, r + 1)
  BY <1>8, IntoText
<1> QED BY <1>8, <1>9

\* The last field of the last item gets a text.
LEMMA TextedField ==
  ASSUME NEW e \in Seq(Seq(Field)), NEW ns, Len(ns) \in Nat, NEW items, Tree(ns, items),
         NEW i \in 1 .. Len(e), NEW j \in 1 .. Len(e[i]), AtTheItem(ns, items, e, i, j),
         FirstFields(ns, items, e, i, j - 1),
         NEW text, NEW other, Texted(ns, Len(ns), text, other)
  PROVE  Tree(other, items) /\ AtTheItem(other, items, e, i, j) /\ FirstFields(other, items, e, i, j - 1)
<1> DEFINE N == Len(ns)
<1>1. /\ Root(ns) /\ Len(items) = i /\ items[i].fields = j /\ N = items[i].at + j
      /\ CompleteUpTo(ns, items, e, i - 1)
  BY DEF AtTheItem
<1>2. /\ Len(items) \in Nat
      /\ \A k \in 1 .. Len(items) : items[k].at \in Nat /\ items[k].fields \in Nat
  BY ItemRecords
<1>3. /\ i \in 1 .. Len(items) /\ items[i].at \in 1 .. N /\ items[i].at \in Nat
      /\ j \in Nat /\ N \in Nat
  <2>1. i \in 1 .. Len(items)
    BY <1>1, <1>2
  <2>2. items[i].at \in 1 .. N
    BY <2>1 DEF Tree
  <2> QED BY <1>2, <2>1, <2>2
<1>4. /\ Len(other) = N /\ N \in 1 .. N
      /\ \A n \in 1 .. N : /\ other[n].tag = ns[n].tag /\ other[n].parent = ns[n].parent
                           /\ n # N => other[n] = ns[n]
  BY DEF Texted
<1>5. Tree(other, items)
  BY <1>4, SameTree
<1> HIDE DEF N
<1>6. Root(other)
  <2>1. N >= 2 /\ ns[1].tag = "rss" /\ ns[2].tag = "channel"
    BY <1>1 DEF Root, N
  <2>2. 1 \in 1 .. N /\ 2 \in 1 .. N
    BY <1>3, <2>1
  <2>3. Len(other) >= 2 /\ other[1].tag = "rss" /\ other[2].tag = "channel"
    BY <1>4, <2>1, <2>2
  <2> QED BY <2>3 DEF Root
<1>7. CompleteUpTo(other, items, e, i - 1)
  <2>1. ASSUME NEW k \in 1 .. i - 1 PROVE Complete(other, items, e, k)
    <3>1. k \in 1 .. Len(items) /\ k < i
      BY <1>1, <1>3
    <3> DEFINE at == items[k].at
               fields == items[k].fields
    <3>2. at + fields < N /\ at \in Nat /\ fields \in Nat /\ at \in 1 .. N
      <4>1. /\ at + fields < items[i].at /\ at \in Nat /\ fields \in Nat /\ at \in 1 .. N
        BY <1>2, <1>3, <3>1 DEF Tree, N
      <4> QED BY <1>3, <4>1, SMTT(30)
    <3>3. \A m \in 1 .. fields : other[at + m] = ns[at + m]
      <4> HIDE DEF at, fields
      <4>1. \A m \in 1 .. fields : at + m \in 1 .. N /\ at + m # N
        BY <1>3, <3>2
      <4> QED BY <1>4, <4>1
    <3>4. SameItem(ns, items, other, items, k)
      BY <3>3 DEF SameItem
    <3>5. Complete(ns, items, e, k)
      BY <1>1 DEF CompleteUpTo
    <3> QED BY <3>4, <3>5, StaysRead
  <2> QED BY <2>1 DEF CompleteUpTo
<1>8. FirstFields(other, items, e, i, j - 1)
  <2> DEFINE at == items[i].at
  <2>1. /\ j - 1 <= Len(e[i]) /\ \A m \in 1 .. j - 1 : IsField(ns, at + m, e[i][m])
    BY DEF FirstFields
  <2>2. N = at + j /\ at \in 1 .. N /\ at \in Nat
    BY <1>1, <1>3
  <2> HIDE DEF at
  <2>3. ASSUME NEW m \in 1 .. j - 1 PROVE IsField(other, at + m, e[i][m])
    <3>1. at + m \in 1 .. N /\ at + m # N
      BY <1>3, <2>2
    <3> QED BY <1>4, <2>1, <3>1 DEF IsField
  <2> QED BY <2>1, <2>3 DEF FirstFields, at
<1>9. AtTheItem(other, items, e, i, j)
  BY <1>1, <1>4, <1>6, <1>7 DEF AtTheItem
<1> QED BY <1>5, <1>8, <1>9

\* With its last field, the item has one more.
LEMMA LastField ==
  ASSUME NEW ns, NEW items, NEW e, NEW i, NEW j \in 1 .. Len(e[i]), Len(e[i]) \in Nat,
         FirstFields(ns, items, e, i, j - 1), IsField(ns, items[i].at + j, e[i][j])
  PROVE  FirstFields(ns, items, e, i, j)
<1>1. \A m \in 1 .. j : m = j \/ m \in 1 .. j - 1
  OBVIOUS
<1>2. \A m \in 1 .. j - 1 : IsField(ns, items[i].at + m, e[i][m])
  BY DEF FirstFields
<1>3. ASSUME NEW m \in 1 .. j PROVE IsField(ns, items[i].at + m, e[i][m])
  <2>1. CASE m = j
    BY <2>1
  <2>2. CASE m \in 1 .. j - 1
    BY <1>2, <2>2
  <2> QED BY <1>1, <2>1, <2>2
<1>4. j <= Len(e[i])
  OBVIOUS
<1> QED BY <1>3, <1>4 DEF FirstFields

\* Where Parse meets the text of field j of item i.
BeforeText(ns, st, items, e, i, j) ==
  /\ i \in 1 .. Len(e) /\ j \in 1 .. Len(e[i]) /\ Len(ns) \in 1 .. Len(ns)
  /\ AtTheItem(ns, items, e, i, j) /\ FirstFields(ns, items, e, i, j - 1)
  /\ ns[Len(ns)].tag = e[i][j].tag /\ ns[Len(ns)].text = NoText
  /\ st # <<>> /\ Current(st) = Len(ns)

LEMMA AtTheText ==
  ASSUME NEW e \in Seq(Seq(Field)), NEW r, NEW ns, Len(ns) \in Nat,
         NEW st \in Seq(Nat), NEW items, Tree(ns, items),
         NEW i, NEW j, InField(e, i, j, r), ExactField(ns, st, items, e, i, j)
  PROVE  BeforeText(ns, st, items, e, i, j)
<1>1. /\ AtTheItem(ns, items, e, i, j) /\ IsStack(st, 4, items[i].at, items[i].at + j)
      /\ FirstFields(ns, items, e, i, j - 1)
      /\ ns[Len(ns)].tag = e[i][j].tag /\ ns[Len(ns)].text = NoText
  BY DEF ExactField
<1>2. i \in 1 .. Len(e) /\ j \in 1 .. Len(e[i])
  BY DEF InField
<1>3. Len(ns) = items[i].at + j /\ Len(ns) >= 2
  BY <1>1 DEF AtTheItem, Root
<1>4. Len(st) = 4 /\ st[4] = Len(ns)
  BY <1>1, <1>3 DEF IsStack
<1>5. st # <<>> /\ Current(st) = Len(ns)
  <2>1. st = <<>> <=> Len(st) = 0
    BY NoLonger
  <2> QED BY <1>4, <2>1 DEF Current
<1> QED BY <1>1, <1>2, <1>3, <1>5 DEF BeforeText

LEMMA ExactReadsText ==
  ASSUME NEW e \in Seq(Seq(Field)), NEW d, Layout(d, e), NEW r \in Nat,
         NEW ns, Len(ns) \in Nat, \A n \in 1 .. Len(ns) : ns[n].parent < n,
         NEW st \in Seq(Nat), NEW items, Tree(ns, items), ExactAt(ns, st, items, e, r),
         r < Len(d), d[r + 1].is = "text"
  PROVE  /\ st # <<>> /\ Current(st) \in 1 .. Len(ns) /\ ns[Current(st)].text = NoText
         /\ \A n \in 1 .. Len(ns) : ns[n].parent # Current(st)
         /\ \A other : Texted(ns, Current(st), d[r + 1].of, other) =>
              Tree(other, items) /\ ExactAt(other, st, items, e, r + 1)
<1>1. PICK i, j : /\ InField(e, i, j, r) /\ ExactField(ns, st, items, e, i, j)
                  /\ d[r + 1] = Text(e[i][j].text) /\ BehindText(e, i, j, r + 1)
  BY ExactBeforeText
<1>2. BeforeText(ns, st, items, e, i, j)
  BY <1>1, AtTheText
<1>3. st # <<>> /\ Current(st) \in 1 .. Len(ns) /\ ns[Current(st)].text = NoText
  BY <1>2 DEF BeforeText
<1>4. \A n \in 1 .. Len(ns) : ns[n].parent # Current(st)
  BY <1>2, SMTT(30) DEF BeforeText
<1>5. ASSUME NEW other, Texted(ns, Current(st), d[r + 1].of, other)
      PROVE  Tree(other, items) /\ ExactAt(other, st, items, e, r + 1)
  <2>1. Texted(ns, Len(ns), e[i][j].text, other)
    BY <1>1, <1>2, <1>5 DEF BeforeText, Text
  <2>2. /\ i \in 1 .. Len(e) /\ j \in 1 .. Len(e[i]) /\ AtTheItem(ns, items, e, i, j)
        /\ FirstFields(ns, items, e, i, j - 1) /\ Len(ns) \in 1 .. Len(ns)
        /\ ns[Len(ns)].tag = e[i][j].tag
    BY <1>2 DEF BeforeText
  <2>3. /\ Tree(other, items) /\ AtTheItem(other, items, e, i, j)
        /\ FirstFields(other, items, e, i, j - 1)
    BY <2>1, <2>2, TextedField
  <2>4. IsField(other, items[i].at + j, e[i][j])
    <3>1. Len(ns) = items[i].at + j
      BY <2>2 DEF AtTheItem
    <3>2. other[Len(ns)].tag = e[i][j].tag /\ other[Len(ns)].text = e[i][j].text
      BY <2>1, <2>2 DEF Texted
    <3> QED BY <3>1, <3>2 DEF IsField
  <2>5. FirstFields(other, items, e, i, j)
    <3>1. Len(e[i]) \in Nat
      BY <2>2, StartsIncrease
    <3> QED BY <2>2, <2>3, <2>4, <3>1, LastField
  <2>6. ExactText(other, st, items, e, i, j)
    BY <1>1, <2>3, <2>5 DEF ExactText, ExactField
  <2> QED BY <1>1, <2>3, <2>6 DEF ExactAt
<1> QED BY <1>3, <1>4, <1>5

LEMMA ExactReadsEnd ==
  ASSUME NEW e \in Seq(Seq(Field)), NEW d, Layout(d, e), NEW r \in Nat,
         NEW ns, NEW st \in Seq(Nat), NEW items, Tree(ns, items), ExactAt(ns, st, items, e, r),
         r < Len(d), d[r + 1].is = "end"
  PROVE  /\ st # <<>> /\ ns[Current(st)].tag = d[r + 1].of
         /\ ExactAt(ns, Front(st), items, e, r + 1)
<1> DEFINE st2 == Front(st)
<1>1. st = <<>> <=> Len(st) = 0
  BY NoLonger
<1>2. /\ Len(items) \in Nat
      /\ \A k \in 1 .. Len(items) : items[k].at \in Nat /\ items[k].fields \in Nat
  BY ItemRecords
<1>3. \A n \in 1 .. Len(e) : Len(e[n]) \in Nat
  BY StartsIncrease
<1>4. st # <<>> => /\ Len(st) \in Nat /\ Len(st2) = Len(st) - 1 /\ Current(st) = st[Len(st)]
                   /\ \A l \in 1 .. Len(st) - 1 : st2[l] = st[l]
  BY FrontIsTyped DEF Current
<1>5. ASSUME NEW n \in 1 .. 4, NEW x, NEW y, IsStack(st, n, x, y)
      PROVE  st # <<>> /\ Current(st) = st[n] /\ IsStack(st2, n - 1, x, y)
  <2>1. Len(st) = n
    BY <1>5 DEF IsStack
  <2> QED BY <1>1, <1>4, <1>5, <2>1 DEF IsStack
<1> SUFFICES /\ st # <<>> /\ ns[Current(st)].tag = d[r + 1].of
             /\ ExactAt(ns, st2, items, e, r + 1)
  OBVIOUS
<1> HIDE DEF st2
<1>6. r # 0
  BY FromBegin, SymbolIs
<1>7. r # 1
  BY FromRss, SymbolIs
<1>8. ASSUME NEW i, AtItems(e, i, r), ExactItems(ns, st, items, e, i)
      PROVE  /\ st # <<>> /\ ns[Current(st)].tag = d[r + 1].of
             /\ ExactAt(ns, st2, items, e, r + 1)
  <2>1. i \in Nat /\ (i \in 1 .. Len(e) \/ i = Len(e) + 1) /\ Len(e) \in Nat
    BY <1>8 DEF AtItems
  <2>2. CASE i \in 1 .. Len(e)
    <3>1. d[r + 1] = StartTag("item")
      BY <1>8, <2>2, IntoItem
    <3> QED BY <3>1, SymbolIs
  <2>3. CASE i = Len(e) + 1
    <3>1. d[r + 1] = EndTag("channel") /\ BehindChannel(e, r + 1)
      BY <1>8, <2>3, FromItems
    <3>2. /\ Root(ns) /\ IsStack(st, 2, 0, 0) /\ Len(items) = i - 1 /\ i - 1 = Len(e)
          /\ CompleteUpTo(ns, items, e, i - 1)
      BY <1>8, <2>1, <2>3 DEF ExactItems
    <3>3. st # <<>> /\ Current(st) = 2 /\ IsStack(st2, 1, 0, 0)
      <4>1. st[2] = 2
        BY <3>2 DEF IsStack
      <4>2. st # <<>> /\ Current(st) = st[2] /\ IsStack(st2, 2 - 1, 0, 0)
        BY <1>5, <3>2
      <4> QED BY <4>1, <4>2
    <3>4. ns[2].tag = d[r + 1].of
      BY <3>1, <3>2 DEF Root, EndTag
    <3>5. ExactEnd(ns, st2, items, e, 1)
      BY <3>2, <3>3 DEF ExactEnd
    <3> QED BY <3>1, <3>3, <3>4, <3>5 DEF ExactAt
  <2> QED BY <2>1, <2>2, <2>3
<1>9. ASSUME NEW i, NEW j, InItem(e, i, j, r), ExactItem(ns, st, items, e, i, j)
      PROVE  /\ st # <<>> /\ ns[Current(st)].tag = d[r + 1].of
             /\ ExactAt(ns, st2, items, e, r + 1)
  <2>1. /\ i \in 1 .. Len(e) /\ i \in Nat /\ (j < Len(e[i]) \/ j = Len(e[i]))
    BY <1>3, <1>9 DEF InItem
  <2>2. CASE j < Len(e[i])
    <3>1. d[r + 1] = StartTag(e[i][j + 1].tag)
      BY <1>9, <2>2, IntoField
    <3> QED BY <3>1, SymbolIs
  <2>3. CASE j = Len(e[i])
    <3>1. d[r + 1] = EndTag("item") /\ AtItems(e, i + 1, r + 1)
      BY <1>9, <2>3, FromItem
    <3>2. /\ Root(ns) /\ Len(items) = i /\ items[i].fields = j
          /\ IsStack(st, 3, items[i].at, 0)
          /\ CompleteUpTo(ns, items, e, i - 1) /\ FirstFields(ns, items, e, i, j)
      BY <1>9 DEF ExactItem, AtTheItem
    <3>3. i \in 1 .. Len(items) /\ ns[items[i].at].tag = "item"
      <4>1. i \in 1 .. Len(items)
        BY <2>1, <3>2
      <4> QED BY <4>1 DEF Tree
    <3>4. st # <<>> /\ Current(st) = items[i].at /\ IsStack(st2, 2, 0, 0)
      <4>1. st[3] = items[i].at
        BY <3>2 DEF IsStack
      <4>2. st # <<>> /\ Current(st) = st[3] /\ IsStack(st2, 3 - 1, items[i].at, 0)
        BY <1>5, <3>2
      <4> QED BY <4>1, <4>2 DEF IsStack
    <3>5. CompleteUpTo(ns, items, e, i)
      <4>1. Complete(ns, items, e, i)
        BY <2>3, <3>2 DEF Complete
      <4>2. \A k \in 1 .. i : k \in 1 .. i - 1 \/ k = i
        BY <2>1
      <4> QED BY <3>2, <4>1, <4>2 DEF CompleteUpTo
    <3>6. ExactItems(ns, st2, items, e, i + 1)
      <4>1. i + 1 - 1 = i
        BY <2>1
      <4> QED BY <3>2, <3>4, <3>5, <4>1 DEF ExactItems
    <3>7. ns[items[i].at].tag = d[r + 1].of
      BY <3>1, <3>3 DEF EndTag
    <3> QED BY <3>1, <3>4, <3>6, <3>7 DEF ExactAt
  <2> QED BY <2>1, <2>2, <2>3
<1>10. ASSUME NEW i, NEW j, InField(e, i, j, r) PROVE FALSE
  <2>1. d[r + 1] = Text(e[i][j].text)
    BY <1>10, IntoText
  <2> QED BY <2>1, SymbolIs
<1>11. ASSUME NEW i, NEW j, BehindText(e, i, j, r), ExactText(ns, st, items, e, i, j)
       PROVE  /\ st # <<>> /\ ns[Current(st)].tag = d[r + 1].of
              /\ ExactAt(ns, st2, items, e, r + 1)
  <2>1. d[r + 1] = EndTag(e[i][j].tag) /\ InItem(e, i, j, r + 1)
    BY <1>11, FromText
  <2>2. /\ AtTheItem(ns, items, e, i, j) /\ IsStack(st, 4, items[i].at, items[i].at + j)
        /\ FirstFields(ns, items, e, i, j)
    BY <1>11 DEF ExactText
  <2>3. st # <<>> /\ Current(st) = items[i].at + j /\ IsStack(st2, 3, items[i].at, 0)
    <3>1. st[4] = items[i].at + j
      BY <2>2 DEF IsStack
    <3>2. st # <<>> /\ Current(st) = st[4] /\ IsStack(st2, 4 - 1, items[i].at, items[i].at + j)
      BY <1>5, <2>2
    <3> QED BY <3>1, <3>2 DEF IsStack
  <2>4. ns[items[i].at + j].tag = e[i][j].tag
    <3>1. j \in 1 .. j
      BY <1>11 DEF BehindText
    <3> QED BY <2>2, <3>1 DEF FirstFields, IsField
  <2>5. ExactItem(ns, st2, items, e, i, j)
    BY <2>2, <2>3 DEF ExactItem
  <2>6. ns[Current(st)].tag = d[r + 1].of
    BY <2>1, <2>3, <2>4 DEF EndTag
  <2> QED BY <2>1, <2>3, <2>5, <2>6 DEF ExactAt
<1>12. CASE BehindChannel(e, r) /\ ExactEnd(ns, st, items, e, 1)
  <2>1. d[r + 1] = EndTag("rss") /\ BehindRss(e, r + 1)
    BY <1>12, FromChannel
  <2>2. /\ Root(ns) /\ IsStack(st, 1, 0, 0) /\ Len(items) = Len(e)
        /\ CompleteUpTo(ns, items, e, Len(e))
    BY <1>12 DEF ExactEnd
  <2>3. st # <<>> /\ Current(st) = 1 /\ IsStack(st2, 0, 0, 0)
    <3>1. st[1] = 1
      BY <2>2 DEF IsStack
    <3>2. st # <<>> /\ Current(st) = st[1] /\ IsStack(st2, 1 - 1, 0, 0)
      BY <1>5, <2>2
    <3> QED BY <3>1, <3>2
  <2>4. ns[1].tag = d[r + 1].of
    BY <2>1, <2>2 DEF Root, EndTag
  <2>5. ExactEnd(ns, st2, items, e, 0)
    BY <2>2, <2>3 DEF ExactEnd
  <2> QED BY <2>1, <2>3, <2>4, <2>5 DEF ExactAt
<1>13. ~BehindRss(e, r)
  BY FromEnd
<1> QED BY <1>6, <1>7, <1>8, <1>9, <1>10, <1>11, <1>12, <1>13 DEF ExactAt

-----------------------------------------------------------------------------
(* What was read before the damage *)

\* A place in an item lies between its start tag and its end tag.
LEMMA Within ==
  ASSUME NEW e \in Seq(Seq(Field)), NEW r \in Nat, NEW i, NEW j,
         InItem(e, i, j, r) \/ InField(e, i, j, r) \/ BehindText(e, i, j, r)
  PROVE  /\ i \in 1 .. Len(e) /\ i + 1 \in 1 .. Len(e) + 1 /\ j \in 0 .. Len(e[i])
         /\ Len(e[i]) \in Nat
         /\ r + 1 \in StartsAt(e, i) + 1 .. EndsAt(e, i) /\ r + 1 < StartsAt(e, i + 1)
<1>1. i \in 1 .. Len(e) /\ j \in 0 .. Len(e[i])
  BY StartsIncrease DEF InItem, InField, BehindText
<1>2. /\ Len(e[i]) \in Nat /\ i \in 1 .. Len(e) + 1 /\ i + 1 \in 1 .. Len(e) + 1
      /\ StartsAt(e, i) \in Nat
      /\ StartsAt(e, i + 1) = StartsAt(e, i) + 3 * Len(e[i]) + 2
  <2>1. Len(e[i]) \in Nat /\ i \in 1 .. Len(e) + 1 /\ i + 1 \in 1 .. Len(e) + 1
    BY <1>1, StartsIncrease
  <2> QED BY <1>1, <2>1, ItemsStart DEF ItemsAt
<1>3. j >= 1 \/ InItem(e, i, j, r)
  BY <1>1 DEF InField, BehindText
<1>4. r >= StartsAt(e, i) /\ r <= StartsAt(e, i) + 3 * j
  BY <1>1, <1>2, <1>3, SMTT(30) DEF InItem, InField, BehindText
<1>5. EndsAt(e, i) = StartsAt(e, i + 1) - 1
  BY DEF EndsAt
<1> QED BY <1>1, <1>2, <1>4, <1>5, SMTT(30)

\* The items whose end tag is one of the first r symbols.
EnoughAt(items, e, r) == \A i \in 1 .. Len(e) : EndsAt(e, i) <= r => i <= Len(items)

LEMMA ExactIsEnough ==
  ASSUME NEW e \in Seq(Seq(Field)), NEW r \in Nat, NEW ns, NEW st, NEW items,
         Tree(ns, items), ExactAt(ns, st, items, e, r)
  PROVE  EnoughAt(items, e, r)
<1> SUFFICES ASSUME NEW k \in 1 .. Len(e), EndsAt(e, k) <= r PROVE k <= Len(items)
  BY DEF EnoughAt
<1>1. /\ k + 1 \in 1 .. Len(e) + 1 /\ StartsAt(e, k + 1) \in Nat /\ StartsAt(e, k + 1) > 3
  <2>1. k + 1 \in 1 .. Len(e) + 1 /\ 1 \in 1 .. Len(e) + 1 /\ 1 < k + 1
    OBVIOUS
  <2>2. StartsAt(e, 1) < StartsAt(e, k + 1) /\ StartsAt(e, 1) >= 3
    BY <2>1, StartsIncrease
  <2>3. StartsAt(e, 1) \in Nat /\ StartsAt(e, k + 1) \in Nat
    BY <2>1, StartsIncrease
  <2> QED BY <2>1, <2>2, <2>3
<1>2. StartsAt(e, k + 1) - 1 <= r
  BY DEF EndsAt
<1>3. r > 1
  BY <1>1, <1>2
<1>4. Len(items) \in Nat /\ Len(e) \in Nat
  BY ItemRecords
<1>5. \A l \in 1 .. Len(e) + 1 : StartsAt(e, l) \in Nat /\ (l < k + 1 => StartsAt(e, l) < StartsAt(e, k + 1))
  BY <1>1, StartsIncrease
<1>6. ASSUME NEW i, AtItems(e, i, r), ExactItems(ns, st, items, e, i) PROVE k <= Len(items)
  <2>1. i \in 1 .. Len(e) + 1 /\ r = StartsAt(e, i) - 1 /\ Len(items) = i - 1
    BY <1>6 DEF AtItems, ExactItems
  <2>2. StartsAt(e, i) \in Nat /\ (i < k + 1 => StartsAt(e, i) < StartsAt(e, k + 1))
    BY <1>5, <2>1
  <2> QED BY <1>1, <1>2, <2>1, <2>2
<1>7. ASSUME NEW i, NEW j, Len(items) = i,
             InItem(e, i, j, r) \/ InField(e, i, j, r) \/ BehindText(e, i, j, r)
      PROVE  k <= Len(items)
  <2>1. i \in 1 .. Len(e) /\ i + 1 \in 1 .. Len(e) + 1 /\ r + 1 < StartsAt(e, i + 1)
    BY <1>7, Within
  <2>2. /\ StartsAt(e, i + 1) \in Nat
        /\ i + 1 < k + 1 => StartsAt(e, i + 1) < StartsAt(e, k + 1)
    BY <1>5, <2>1
  <2> QED BY <1>1, <1>2, <1>7, <2>1, <2>2
<1>8. ASSUME Len(items) = Len(e) PROVE k <= Len(items)
  BY <1>8
<1> QED BY <1>3, <1>6, <1>7, <1>8 DEF ExactAt, ExactItem, ExactField, ExactText, AtTheItem, ExactEnd

LEMMA CompleteIsFaithful ==
  ASSUME NEW ns, NEW items, NEW e, NEW k, Complete(ns, items, e, k), Len(e[k]) \in Nat
  PROVE  Faithful(ns, items, e, k)
  BY DEF Complete, Faithful, FirstFields, IsField, MayBeField

LEMMA ExactIsFaithful ==
  ASSUME NEW e \in Seq(Seq(Field)), NEW r \in Nat, NEW ns, NEW st, NEW items,
         Tree(ns, items), ExactAt(ns, st, items, e, r)
  PROVE  AllFaithful(ns, items, e)
<1>1. Len(items) \in Nat /\ Len(e) \in Nat /\ \A k \in 1 .. Len(e) : Len(e[k]) \in Nat
  BY ItemRecords, StartsIncrease
<1>2. ASSUME NEW n \in 0 .. Len(e), CompleteUpTo(ns, items, e, n), NEW k \in 1 .. n
      PROVE  Faithful(ns, items, e, k)
  <2>1. k \in 1 .. Len(e)
    BY <1>1
  <2> QED BY <1>1, <1>2, <2>1, CompleteIsFaithful DEF CompleteUpTo
<1>3. ASSUME NEW n \in 0 .. Len(e), CompleteUpTo(ns, items, e, n), Len(items) = n
      PROVE  AllFaithful(ns, items, e)
  BY <1>1, <1>2, <1>3 DEF AllFaithful
<1>4. ASSUME NEW i \in 1 .. Len(e), CompleteUpTo(ns, items, e, i - 1), Len(items) = i,
             Faithful(ns, items, e, i)
      PROVE  AllFaithful(ns, items, e)
  <2>1. i - 1 \in 0 .. Len(e) /\ \A k \in 1 .. i : k = i \/ k \in 1 .. i - 1
    BY <1>1
  <2>2. \A k \in 1 .. i - 1 : Faithful(ns, items, e, k)
    BY <1>2, <1>4, <2>1
  <2>3. \A k \in 1 .. i : Faithful(ns, items, e, k)
    BY <1>4, <2>1, <2>2
  <2> QED BY <1>1, <1>4, <2>3 DEF AllFaithful
<1>5. CASE items = <<>>
  <2>1. Len(items) = 0
    BY <1>5
  <2> QED BY <1>1, <2>1 DEF AllFaithful
<1>6. ASSUME NEW i, AtItems(e, i, r), ExactItems(ns, st, items, e, i)
      PROVE  AllFaithful(ns, items, e)
  <2>1. i - 1 \in 0 .. Len(e)
    BY <1>1, <1>6 DEF AtItems
  <2> QED BY <1>3, <1>6, <2>1 DEF ExactItems
<1>7. ASSUME NEW i \in 1 .. Len(e), NEW j \in 0 .. Len(e[i]), AtTheItem(ns, items, e, i, j),
             FirstFields(ns, items, e, i, j)
      PROVE  AllFaithful(ns, items, e)
  <2>1. items[i].fields = j /\ Len(items) = i /\ CompleteUpTo(ns, items, e, i - 1)
    BY <1>7 DEF AtTheItem
  <2>2. Faithful(ns, items, e, i)
    BY <1>1, <1>7, <2>1 DEF Faithful, FirstFields, IsField, MayBeField
  <2> QED BY <1>4, <2>1, <2>2
<1>8. ASSUME NEW i, NEW j, InField(e, i, j, r), ExactField(ns, st, items, e, i, j)
      PROVE  AllFaithful(ns, items, e)
  <2>1. i \in 1 .. Len(e) /\ j \in 1 .. Len(e[i])
    BY <1>8 DEF InField
  <2>2. /\ items[i].fields = j /\ Len(items) = i /\ CompleteUpTo(ns, items, e, i - 1)
        /\ Len(ns) = items[i].at + j
        /\ FirstFields(ns, items, e, i, j - 1)
        /\ ns[Len(ns)].tag = e[i][j].tag /\ ns[Len(ns)].text = NoText
    BY <1>8 DEF AtTheItem, ExactField
  <2>3. ASSUME NEW m \in 1 .. j PROVE MayBeField(ns, items[i].at + m, e[i][m])
    <3>1. CASE m = j
      <4>1. MayBeField(ns, items[i].at + j, e[i][j])
        BY <2>2 DEF MayBeField
      <4> QED BY <3>1, <4>1
    <3>2. CASE m # j
      <4>1. m \in 1 .. j - 1
        BY <2>1, <3>2
      <4> QED BY <2>2, <4>1 DEF FirstFields, IsField, MayBeField
    <3> QED BY <3>1, <3>2
  <2>4. Faithful(ns, items, e, i)
    <3>1. items[i].fields = j /\ j <= Len(e[i])
      BY <1>1, <2>1, <2>2
    <3> QED BY <2>3, <3>1 DEF Faithful
  <2> QED BY <1>4, <2>1, <2>2, <2>4
<1>9. ASSUME NEW n, ExactEnd(ns, st, items, e, n) PROVE AllFaithful(ns, items, e)
  <2>1. Len(e) \in 0 .. Len(e)
    BY <1>1
  <2> QED BY <1>3, <1>9, <2>1 DEF ExactEnd
<1>10. ASSUME NEW i, NEW j, InItem(e, i, j, r), ExactItem(ns, st, items, e, i, j)
       PROVE  AllFaithful(ns, items, e)
  <2>1. i \in 1 .. Len(e) /\ j \in 0 .. Len(e[i])
    BY <1>10 DEF InItem
  <2> QED BY <1>7, <1>10, <2>1 DEF ExactItem
<1>11. ASSUME NEW i, NEW j, BehindText(e, i, j, r), ExactText(ns, st, items, e, i, j)
       PROVE  AllFaithful(ns, items, e)
  <2>1. i \in 1 .. Len(e) /\ j \in 0 .. Len(e[i])
    BY <1>1, <1>11 DEF BehindText
  <2> QED BY <1>7, <1>11, <2>1 DEF ExactText
<1> QED BY <1>5, <1>6, <1>8, <1>9, <1>10, <1>11 DEF ExactAt

\* All of the document gives all of its items.
LEMMA ExactAtTheEnd ==
  ASSUME NEW e \in Seq(Seq(Field)), NEW d, Layout(d, e), NEW r \in Nat, r = Len(d),
         NEW ns, NEW st, NEW items, Tree(ns, items), ExactAt(ns, st, items, e, r)
  PROVE  Len(items) = Len(e) /\ CompleteUpTo(ns, items, e, Len(e))
<1> DEFINE S(n) == StartsAt(e, n)
           N == Len(e)
<1>1. N \in Nat /\ Len(d) = S(N + 1) + 1
  BY DEF Layout
<1>2. \A i, l \in 1 .. N + 1 : i < l => S(i) < S(l)
  BY StartsIncrease
<1>3. \A i \in 1 .. N + 1 : S(i) \in Nat /\ S(i) >= 3
  BY StartsIncrease
<1>4. N + 1 \in 1 .. N + 1 /\ S(N + 1) \in Nat /\ S(N + 1) >= 3
  BY <1>1, <1>3
<1> HIDE DEF N, S
<1>5. \A i \in 1 .. N + 1 : S(i) <= S(N + 1)
  <2> TAKE i \in 1 .. N + 1
  <2>1. i = N + 1 \/ i < N + 1
    BY <1>1
  <2>2. S(i) \in Nat
    BY <1>3
  <2> QED BY <1>2, <1>4, <2>1, <2>2
<1>6. r > 1
  BY <1>1, <1>4
<1>7. ASSUME NEW i, AtItems(e, i, r) PROVE FALSE
  <2>1. i \in 1 .. N + 1 /\ r = S(i) - 1
    BY <1>7 DEF AtItems, N, S
  <2> QED BY <1>1, <1>3, <1>4, <1>5, <2>1
<1>8. ASSUME NEW i, NEW j, InItem(e, i, j, r) \/ InField(e, i, j, r) \/ BehindText(e, i, j, r)
      PROVE  FALSE
  <2>1. i + 1 \in 1 .. N + 1 /\ r + 1 < S(i + 1)
    BY <1>8, Within DEF N, S
  <2> QED BY <1>1, <1>3, <1>4, <1>5, <2>1
<1>9. ExactEnd(ns, st, items, e, 1) \/ ExactEnd(ns, st, items, e, 0)
  BY <1>6, <1>7, <1>8 DEF ExactAt
<1> QED BY <1>9 DEF ExactEnd

\* Where Parse is when a symbol is missing.
LEMMA Skipped ==
  ASSUME NEW e \in Seq(Seq(Field)), NEW d, Layout(d, e), NEW r \in Nat, r < Len(d),
         NEW ns, NEW st \in Seq(Nat), NEW items, Tree(ns, items), ExactAt(ns, st, items, e, r)
  PROVE  WeakAt(ns, st, items, e, r + 1)
<1>1. st = <<>> <=> Len(st) = 0
  BY NoLonger
<1>2. \A n \in 1 .. Len(e) : Len(e[n]) \in Nat
  BY StartsIncrease
<1>3. CASE r = 0 /\ items = <<>>
  BY <1>3 DEF WeakAt
<1>4. CASE r = 1 /\ items = <<>>
  <2>1. AtItems(e, 1, r + 1)
    BY <1>4, FromRss
  <2>2. Len(items) = 1 - 1
    BY <1>4
  <2> QED BY <2>1, <2>2 DEF WeakAt
<1>5. ASSUME NEW i, AtItems(e, i, r), ExactItems(ns, st, items, e, i)
      PROVE  WeakAt(ns, st, items, e, r + 1)
  <2>1. i \in 1 .. Len(e) \/ i = Len(e) + 1
    BY <1>5 DEF AtItems
  <2>2. CASE i \in 1 .. Len(e)
    <3>1. InItem(e, i, 0, r + 1)
      BY <1>5, <2>2, IntoItem
    <3>2. Root(ns) /\ IsStack(st, 2, 0, 0)
      BY <1>5 DEF ExactItems
    <3>3. Len(st) = 2 /\ st[2] = 2
      BY <3>2 DEF IsStack
    <3>4. ns[2].tag # "item"
      BY <3>2 DEF Root
    <3>5. Stray(ns, st)
      BY <1>1, <3>3, <3>4 DEF Stray, Top
    <3> QED BY <3>1, <3>5 DEF WeakAt
  <2>3. CASE i = Len(e) + 1
    <3>1. BehindChannel(e, r + 1)
      BY <1>5, <2>3, FromItems
    <3> QED BY <3>1 DEF WeakAt
  <2> QED BY <2>1, <2>2, <2>3
<1>6. ASSUME NEW i, NEW j, InItem(e, i, j, r), ExactItem(ns, st, items, e, i, j)
      PROVE  WeakAt(ns, st, items, e, r + 1)
  <2>1. i \in 1 .. Len(e) /\ i \in Nat /\ (j < Len(e[i]) \/ j = Len(e[i]))
    BY <1>2, <1>6 DEF InItem
  <2>2. Len(items) = i /\ Len(st) = 3 /\ st[3] = items[i].at
    BY <1>6 DEF ExactItem, AtTheItem, IsStack
  <2>3. CASE j < Len(e[i])
    <3>1. InField(e, i, j + 1, r + 1)
      BY <1>6, <2>3, IntoField
    <3>2. i \in 1 .. Len(items)
      BY <2>1, <2>2
    <3>3. ns[items[i].at].tag = "item"
      BY <3>2 DEF Tree
    <3>4. Lost(ns, st)
      BY <1>1, <2>2, <3>3 DEF Lost, Top
    <3> QED BY <3>1, <3>4 DEF WeakAt
  <2>4. CASE j = Len(e[i])
    <3> DEFINE l == i + 1
    <3>1. AtItems(e, l, r + 1)
      BY <1>6, <2>4, FromItem
    <3>2. Len(items) = l - 1
      BY <2>1, <2>2
    <3> HIDE DEF l
    <3> QED BY <3>1, <3>2 DEF WeakAt
  <2> QED BY <2>1, <2>3, <2>4
<1>7. ASSUME NEW i, NEW j, InField(e, i, j, r), ExactField(ns, st, items, e, i, j)
      PROVE  WeakAt(ns, st, items, e, r + 1)
  <2>1. BehindText(e, i, j, r + 1)
    BY <1>7, IntoText
  <2>2. /\ Len(items) = i /\ items[i].fields = j /\ Len(ns) = items[i].at + j
        /\ Len(st) = 4 /\ st[3] = items[i].at /\ st[4] = items[i].at + j
    BY <1>7 DEF ExactField, AtTheItem, IsStack
  <2>3. InsideField(ns, st, items, i, j)
    BY <2>2 DEF InsideField, Top, Below
  <2> QED BY <2>1, <2>3 DEF WeakAt
<1>8. ASSUME NEW i, NEW j, BehindText(e, i, j, r), ExactText(ns, st, items, e, i, j)
      PROVE  WeakAt(ns, st, items, e, r + 1)
  <2>1. InItem(e, i, j, r + 1)
    BY <1>8, FromText
  <2>2. /\ Len(items) = i /\ items[i].fields = j
        /\ Len(st) = 4 /\ st[4] = items[i].at + j
    BY <1>8 DEF ExactText, AtTheItem, IsStack
  <2>3. i \in 1 .. Len(items) /\ j \in 1 .. items[i].fields
    BY <1>8, <2>2 DEF BehindText
  <2>4. ns[items[i].at + j].tag # "item"
    BY <2>3 DEF Tree
  <2>5. Stray(ns, st)
    BY <1>1, <2>2, <2>4 DEF Stray, Top
  <2> QED BY <2>1, <2>5 DEF WeakAt
<1>9. CASE BehindChannel(e, r)
  <2>1. BehindRss(e, r + 1)
    BY <1>9, FromChannel
  <2> QED BY <2>1 DEF WeakAt
<1>10. ~BehindRss(e, r)
  BY FromEnd
<1> QED BY <1>3, <1>4, <1>5, <1>6, <1>7, <1>8, <1>9, <1>10 DEF ExactAt

-----------------------------------------------------------------------------
(* What a cut leaves *)

\* Nothing of the symbol the cut falls in.
LEMMA ExactIsCut ==
  ASSUME NEW e \in Seq(Seq(Field)), NEW r \in Nat, NEW ns, NEW st, NEW items,
         Tree(ns, items), ExactAt(ns, st, items, e, r)
  PROVE  CutTree(ns, items, e, r + 1)
<1>1. Len(items) <= Len(e) /\ Len(items) \in Nat
  BY ExactIsFaithful, ItemRecords DEF AllFaithful
<1>2. ASSUME CompleteUpTo(ns, items, e, Len(items)) PROVE CutTree(ns, items, e, r + 1)
  BY <1>1, <1>2 DEF CutTree
<1>3. ASSUME NEW i, NEW j, AtTheItem(ns, items, e, i, j), CutShort(ns, items, e, i),
             InItem(e, i, j, r) \/ InField(e, i, j, r) \/ BehindText(e, i, j, r)
      PROVE  CutTree(ns, items, e, r + 1)
  <2>1. Len(items) = i /\ CompleteUpTo(ns, items, e, i - 1)
    BY <1>3 DEF AtTheItem
  <2>2. i \in 1 .. Len(e) /\ r + 1 \in StartsAt(e, i) + 1 .. EndsAt(e, i)
    BY <1>3, Within
  <2> QED BY <1>1, <1>3, <2>1, <2>2 DEF CutTree
<1>4. CASE items = <<>>
  <2>1. Len(items) = 0
    BY <1>4
  <2> QED BY <1>2, <2>1 DEF CompleteUpTo
<1>5. ASSUME NEW i, AtItems(e, i, r), ExactItems(ns, st, items, e, i)
      PROVE  CutTree(ns, items, e, r + 1)
  BY <1>2, <1>5 DEF ExactItems
<1>6. ASSUME NEW i, NEW j, InItem(e, i, j, r), ExactItem(ns, st, items, e, i, j)
      PROVE  CutTree(ns, items, e, r + 1)
  BY <1>3, <1>6 DEF ExactItem, AtTheItem, CutShort
<1>7. ASSUME NEW i, NEW j, InField(e, i, j, r), ExactField(ns, st, items, e, i, j)
      PROVE  CutTree(ns, items, e, r + 1)
  <2>1. /\ AtTheItem(ns, items, e, i, j) /\ FirstFields(ns, items, e, i, j - 1)
        /\ ns[Len(ns)].tag = e[i][j].tag /\ ns[Len(ns)].text = NoText
        /\ j \in 1 .. Len(e[i])
    BY <1>7 DEF ExactField, InField
  <2>2. items[i].fields = j /\ Len(ns) = items[i].at + j
    BY <2>1 DEF AtTheItem
  <2>3. CutField(ns, items[i].at + items[i].fields, e[i][items[i].fields])
    BY <2>1, <2>2 DEF CutField
  <2>4. CutShort(ns, items, e, i)
    BY <2>1, <2>2, <2>3 DEF CutShort
  <2> QED BY <1>3, <1>7, <2>1, <2>4
<1>8. ASSUME NEW i, NEW j, BehindText(e, i, j, r), ExactText(ns, st, items, e, i, j)
      PROVE  CutTree(ns, items, e, r + 1)
  BY <1>3, <1>8 DEF ExactText, AtTheItem, CutShort
<1>9. ASSUME NEW n, ExactEnd(ns, st, items, e, n) PROVE CutTree(ns, items, e, r + 1)
  BY <1>2, <1>9 DEF ExactEnd
<1> QED BY <1>4, <1>5, <1>6, <1>7, <1>8, <1>9 DEF ExactAt

\* A part of the name of a start tag.
LEMMA PartialIsCut ==
  ASSUME NEW e \in Seq(Seq(Field)), NEW d, Layout(d, e), NEW r \in Nat,
         NEW ns, NEW st \in Seq(Nat), NEW items, Tree(ns, items), ExactAt(ns, st, items, e, r),
         r < Len(d), d[r + 1].is = "start",
         NEW node, NEW more, Grows(ns, node, more),
         node.tag = Partial, node.parent = Current(st), node.text = NoText
  PROVE  \E items2 : /\ Tree(more, items2) /\ Len(items2) = Len(items)
                     /\ CutTree(more, items2, e, r + 1)
<1>1. Len(items) <= Len(e) /\ Len(items) \in Nat
  BY ExactIsFaithful, ItemRecords DEF AllFaithful
<1>2. st = <<>> <=> Len(st) = 0
  BY NoLonger
<1>3. node.tag # "item"
  BY DEF Partial
<1>4. ASSUME CompleteUpTo(ns, items, e, Len(items)),
             node.parent # 0 => ns[node.parent].tag # "item"
      PROVE  Tree(more, items) /\ CutTree(more, items, e, r + 1)
  <2>1. Tree(more, items)
    BY <1>3, <1>4, AddOther
  <2>2. Len(items) \in 0 .. Len(items) /\ \A k \in 1 .. Len(items) : items[k] = items[k]
    BY <1>1
  <2>3. CompleteUpTo(more, items, e, Len(items))
    BY <1>4, <2>2, GrownItems
  <2> QED BY <1>1, <2>1, <2>3 DEF CutTree
<1>5. CASE r = 0 /\ ns = <<>> /\ IsStack(st, 0, 0, 0) /\ items = <<>>
  <2>1. node.parent = 0
    BY <1>2, <1>5 DEF IsStack, Current
  <2>2. CompleteUpTo(ns, items, e, Len(items))
    <3>1. Len(items) = 0
      BY <1>5
    <3> QED BY <3>1 DEF CompleteUpTo
  <2> QED BY <1>4, <2>1, <2>2
<1>6. CASE r = 1 /\ Len(ns) = 1 /\ ns[1].tag = "rss" /\ IsStack(st, 1, 0, 0) /\ items = <<>>
  <2>1. node.parent = 1
    <3>1. Len(st) = 1 /\ st[1] = 1
      BY <1>6 DEF IsStack
    <3> QED BY <1>2, <3>1 DEF Current
  <2>2. CompleteUpTo(ns, items, e, Len(items))
    <3>1. Len(items) = 0
      BY <1>6
    <3> QED BY <3>1 DEF CompleteUpTo
  <2> QED BY <1>4, <1>6, <2>1, <2>2
<1>7. ASSUME NEW i, AtItems(e, i, r), ExactItems(ns, st, items, e, i)
      PROVE  Tree(more, items) /\ CutTree(more, items, e, r + 1)
  <2>1. /\ Root(ns) /\ IsStack(st, 2, 0, 0) /\ CompleteUpTo(ns, items, e, Len(items))
    BY <1>7 DEF ExactItems
  <2>2. node.parent = 2
    <3>1. Len(st) = 2 /\ st[2] = 2
      BY <2>1 DEF IsStack
    <3> QED BY <1>2, <3>1 DEF Current
  <2> QED BY <1>4, <2>1, <2>2 DEF Root
<1>8. ASSUME NEW i, NEW j, InItem(e, i, j, r), ExactItem(ns, st, items, e, i, j)
      PROVE  \E items2 : /\ Tree(more, items2) /\ Len(items2) = Len(items)
                         /\ CutTree(more, items2, e, r + 1)
  <2>1. /\ Len(items) = i /\ items[i].fields = j /\ Len(ns) = items[i].at + j
        /\ IsStack(st, 3, items[i].at, 0)
        /\ CompleteUpTo(ns, items, e, i - 1) /\ FirstFields(ns, items, e, i, j)
    BY <1>8 DEF ExactItem, AtTheItem
  <2>2. /\ i \in 1 .. Len(e) /\ j \in 0 .. Len(e[i]) /\ Len(e[i]) \in Nat
        /\ r + 1 \in StartsAt(e, i) + 1 .. EndsAt(e, i)
    BY <1>8, Within
  <2>3. j < Len(e[i])
    <3>1. CASE j = Len(e[i])
      <4>1. d[r + 1] = EndTag("item")
        BY <1>8, <3>1, FromItem
      <4> QED BY <4>1, SymbolIs
    <3> QED BY <2>2, <3>1
  <2>4. node.parent = items[i].at
    <3>1. Len(st) = 3 /\ st[3] = items[i].at
      BY <2>1 DEF IsStack
    <3> QED BY <1>2, <3>1 DEF Current
  <2> DEFINE items2 == OneMoreField(items)
             l == j + 1
  <2>5. /\ Tree(more, items2) /\ Len(items2) = i
        /\ items2[i].at = items[i].at /\ items2[i].fields = l
        /\ \A k \in 1 .. i - 1 : items2[k] = items[k]
    <3>1. /\ Len(items) > 0 /\ Len(ns) = items[Len(items)].at + items[Len(items)].fields
          /\ node.parent = items[Len(items)].at
      BY <2>1, <2>2, <2>4
    <3>2. /\ Tree(more, items2) /\ Len(items2) = Len(items)
          /\ items2[Len(items)].at = items[Len(items)].at
          /\ items2[Len(items)].fields = items[Len(items)].fields + 1
          /\ \A k \in 1 .. Len(items) - 1 : items2[k] = items[k]
      BY <1>3, <3>1, AddField
    <3> QED BY <2>1, <3>2
  <2> HIDE DEF items2
  <2>6. i - 1 \in 0 .. Len(items) /\ i \in 1 .. Len(items)
    BY <2>1, <2>2
  <2>7. CompleteUpTo(more, items2, e, i - 1)
    <3>1. \A k \in 1 .. i - 1 : items2[k] = items[k]
      BY <2>5
    <3>2. CompleteUpTo(ns, items, e, i - 1)
      BY <2>1
    <3> QED BY <2>6, <3>1, <3>2, GrownItems
  <2>8. FirstFields(more, items2, e, i, j)
    <3>1. j \in Nat /\ j <= items[i].fields /\ FirstFields(ns, items, e, i, j)
      BY <2>1, <2>2
    <3>2. items2[i].at = items[i].at
      BY <2>5
    <3> QED BY <2>6, <3>1, <3>2, GrownFields
  <2>9. l - 1 = j /\ l \in 1 .. Len(e[i])
    BY <2>2, <2>3
  <2>10. items2[i].at + l = Len(more)
    <3>1. Len(more) = Len(ns) + 1 /\ Len(ns) = items[i].at + j /\ items2[i].at = items[i].at
      BY <2>1, <2>5 DEF Grows
    <3>2. items[i].at \in Nat /\ j \in Nat
      BY <2>2, <2>6, ItemRecords
    <3>3. \A a, b \in Nat : a + b + 1 = a + (b + 1)
      OBVIOUS
    <3>4. items[i].at + j + 1 = items[i].at + l
      BY <3>2, <3>3
    <3> QED BY <3>1, <3>4
  <2> HIDE DEF l
  <2>11. CutField(more, items2[i].at + l, e[i][l])
    <3>1. more[Len(more)] = node
      BY DEF Grows
    <3> QED BY <2>10, <3>1 DEF CutField
  <2>12. CutShort(more, items2, e, i)
    BY <2>5, <2>8, <2>9, <2>11 DEF CutShort
  <2>13. CutTree(more, items2, e, r + 1)
    BY <1>1, <2>1, <2>2, <2>5, <2>7, <2>12 DEF CutTree
  <2> QED BY <2>1, <2>5, <2>13
<1>9. ASSUME NEW i, NEW j, InField(e, i, j, r) PROVE FALSE
  <2>1. d[r + 1] = Text(e[i][j].text)
    BY <1>9, IntoText
  <2> QED BY <2>1, SymbolIs
<1>10. ASSUME NEW i, NEW j, BehindText(e, i, j, r) PROVE FALSE
  <2>1. d[r + 1] = EndTag(e[i][j].tag)
    BY <1>10, FromText
  <2> QED BY <2>1, SymbolIs
<1>11. ~BehindChannel(e, r)
  BY FromChannel, SymbolIs
<1>12. ~BehindRss(e, r)
  BY FromEnd
<1> QED BY <1>5, <1>6, <1>7, <1>8, <1>9, <1>10, <1>11, <1>12, <1>4 DEF ExactAt

\* The beginning of a text.
LEMMA TextIsCut ==
  ASSUME NEW e \in Seq(Seq(Field)), NEW d, Layout(d, e), NEW r \in Nat,
         NEW ns, Len(ns) \in Nat,
         NEW st \in Seq(Nat), NEW items, Tree(ns, items), ExactAt(ns, st, items, e, r),
         r < Len(d), d[r + 1].is = "text",
         NEW text \in ShortTexts[d[r + 1].of], NEW other, Texted(ns, Current(st), text, other)
  PROVE  Tree(other, items) /\ CutTree(other, items, e, r + 1)
<1>1. PICK i, j : /\ InField(e, i, j, r) /\ ExactField(ns, st, items, e, i, j)
                  /\ d[r + 1] = Text(e[i][j].text) /\ BehindText(e, i, j, r + 1)
  BY ExactBeforeText
<1>2. BeforeText(ns, st, items, e, i, j)
  BY <1>1, AtTheText
<1>3. /\ i \in 1 .. Len(e) /\ j \in 1 .. Len(e[i]) /\ AtTheItem(ns, items, e, i, j)
      /\ FirstFields(ns, items, e, i, j - 1) /\ Len(ns) \in 1 .. Len(ns)
      /\ ns[Len(ns)].tag = e[i][j].tag /\ Current(st) = Len(ns)
  BY <1>2 DEF BeforeText
<1>4. Texted(ns, Len(ns), text, other)
  BY <1>3
<1>5. /\ Tree(other, items) /\ AtTheItem(other, items, e, i, j)
      /\ FirstFields(other, items, e, i, j - 1)
  BY <1>3, <1>4, TextedField
<1>6. Len(other) = items[i].at + j /\ items[i].fields = j /\ Len(items) = i
      /\ CompleteUpTo(other, items, e, i - 1)
  BY <1>5 DEF AtTheItem
<1>7. other[Len(other)].tag = e[i][j].tag /\ other[Len(other)].text \in ShortTexts[e[i][j].text]
  <2>1. /\ Len(other) = Len(ns) /\ other[Len(ns)].tag = ns[Len(ns)].tag
        /\ other[Len(ns)].text = text
    BY <1>3, <1>4 DEF Texted
  <2> QED BY <1>1, <1>3, <2>1 DEF Text
<1>8. CutShort(other, items, e, i)
  BY <1>3, <1>5, <1>6, <1>7 DEF CutShort, CutField
<1>9. r + 1 \in StartsAt(e, i) + 1 .. EndsAt(e, i)
  BY <1>1, Within
<1>10. CutTree(other, items, e, r + 1)
  BY <1>3, <1>6, <1>8, <1>9 DEF CutTree
<1> QED BY <1>5, <1>10

-----------------------------------------------------------------------------
(* Parse reads the symbols behind one that is missing *)

LEMMA StaysFaithful ==
  ASSUME NEW ns, NEW node, NEW more, Grows(ns, node, more), NEW items, Tree(ns, items),
         NEW items2, NEW n \in 0 .. Len(items), \A k \in 1 .. n : items2[k] = items[k],
         NEW e, AllFaithful(ns, items, e)
  PROVE  \A k \in 1 .. n : Faithful(more, items2, e, k)
<1>1. \A k \in 1 .. n : SameItem(ns, items, more, items2, k)
  BY GrownItems
<1>2. \A k \in 1 .. n : Faithful(ns, items, e, k)
  BY ItemRecords DEF AllFaithful
<1> QED BY <1>1, <1>2, StaysRead

LEMMA WeakStart ==
  ASSUME NEW e \in Seq(Seq(Field)), NEW d, Layout(d, e), NEW q \in Nat, q < Len(d),
         NEW ns, NEW st \in Seq(Nat), NEW items, Tree(ns, items), AllFaithful(ns, items, e),
         WeakAt(ns, st, items, e, q), d[q + 1].is = "start",
         NEW node, NEW more, Grows(ns, node, more),
         node.tag = d[q + 1].of, node.parent = Current(st), node.text = NoText,
         st # <<>> => Current(st) # 0
  PROVE  \E items2 : /\ Tree(more, items2) /\ Len(items2) >= Len(items)
                     /\ AllFaithful(more, items2, e)
                     /\ WeakAt(more, Append(st, Len(more)), items2, e, q + 1)
<1> DEFINE N == Len(ns)
           K == Len(items)
           st2 == Append(st, Len(more))
           Goal == \E items2 : /\ Tree(more, items2) /\ Len(items2) >= Len(items)
                               /\ AllFaithful(more, items2, e)
                               /\ WeakAt(more, st2, items2, e, q + 1)
<1>1. /\ N \in Nat /\ Len(more) = N + 1 /\ more[N + 1] = node
      /\ node.parent \in 0 .. N /\ \A n \in 1 .. N : more[n] = ns[n]
  BY DEF Grows
<1>2. /\ Len(st) \in Nat /\ st2 \in Seq(Nat) /\ Len(st2) = Len(st) + 1
      /\ st2[Len(st) + 1] = N + 1
      /\ \A l \in 1 .. Len(st) : st2[l] = st[l]
  <2>1. Len(more) \in Nat
    BY <1>1
  <2> QED BY <1>1, <2>1, AppendIsTyped
<1>3. st2 # <<>> /\ (st = <<>> <=> Len(st) = 0)
  <2>1. st2 = <<>> <=> Len(st2) = 0
    BY <1>2, NoLonger
  <2>2. st = <<>> <=> Len(st) = 0
    BY NoLonger
  <2> QED BY <1>2, <2>1, <2>2
<1>4. K \in Nat /\ \A k \in 1 .. K : items[k].at \in Nat /\ items[k].fields \in Nat
  BY ItemRecords
<1>5. Len(e) \in Nat /\ \A n \in 1 .. Len(e) : Len(e[n]) \in Nat
  BY StartsIncrease
<1>6. K <= Len(e)
  BY DEF AllFaithful
<1>7. Top(st2) = Len(more) /\ (st # <<>> => Len(st2) >= 2 /\ Below(st2) = Top(st) /\ Top(st) = node.parent)
  <2>1. Top(st2) = Len(more)
    BY <1>1, <1>2 DEF Top
  <2>2. ASSUME st # <<>> PROVE Len(st2) >= 2 /\ Below(st2) = Top(st) /\ Top(st) = node.parent
    <3>1. Len(st) \in 1 .. Len(st) /\ Len(st2) - 1 = Len(st)
      BY <1>2, <1>3, <2>2
    <3>2. Below(st2) = st[Len(st)]
      BY <1>2, <3>1 DEF Below
    <3> QED BY <1>2, <2>2, <3>1, <3>2 DEF Top, Current
  <2> QED BY <2>1, <2>2
<1> SUFFICES Goal
  OBVIOUS
<1> HIDE DEF N, K, st2
<1>8. ASSUME node.tag # "item", node.parent # 0 => ns[node.parent].tag # "item",
             WeakAt(more, st2, items, e, q + 1)
      PROVE  Goal
  <2>1. Tree(more, items)
    BY <1>8, AddOther
  <2>2. K \in 0 .. Len(items) /\ \A k \in 1 .. K : items[k] = items[k]
    BY <1>4 DEF K
  <2>3. \A k \in 1 .. K : Faithful(more, items, e, k)
    BY <2>2, StaysFaithful
  <2>4. AllFaithful(more, items, e)
    BY <1>6, <2>3 DEF AllFaithful, K
  <2>5. Len(items) >= Len(items)
    BY <1>4 DEF K
  <2> QED BY <1>8, <2>1, <2>4, <2>5
<1>9. CASE q = 1 /\ items = <<>>
  <2>1. d[q + 1] = StartTag("channel") /\ AtItems(e, 1, q + 1)
    BY <1>9, FromRss
  <2>2. node.tag # "item"
    BY <2>1 DEF StartTag
  <2>3. \A n \in 1 .. N : ns[n].tag # "item"
    BY <1>9 DEF Tree, N
  <2>4. Len(items) = 1 - 1
    BY <1>9
  <2>5. WeakAt(more, st2, items, e, q + 1)
    BY <2>1, <2>4 DEF WeakAt
  <2> QED BY <1>1, <1>8, <2>2, <2>3, <2>5
<1>10. ASSUME NEW i, AtItems(e, i, q), Len(items) = i - 1 PROVE Goal
  <2>1. i \in Nat /\ (i \in 1 .. Len(e) \/ i = Len(e) + 1)
    BY <1>10 DEF AtItems
  <2>2. CASE i = Len(e) + 1
    <3>1. d[q + 1] = EndTag("channel")
      BY <1>10, <2>2, FromItems
    <3> QED BY <3>1, SymbolIs
  <2>3. CASE i \in 1 .. Len(e)
    <3>1. d[q + 1] = StartTag("item") /\ InItem(e, i, 0, q + 1)
      BY <1>10, <2>3, IntoItem
    <3>2. node.tag = "item"
      BY <3>1 DEF StartTag
    <3> DEFINE items2 == Append(items, [at |-> Len(more), fields |-> 0])
    <3>3. /\ Tree(more, items2) /\ Len(items2) = K + 1
          /\ items2[K + 1].at = Len(more) /\ items2[K + 1].fields = 0
          /\ \A k \in 1 .. K : items2[k] = items[k]
      BY <3>2, AddItem DEF K
    <3> HIDE DEF items2
    <3>4. K + 1 = i /\ K \in 0 .. Len(items)
      BY <1>4, <1>10, <2>1 DEF K
    <3>5. \A k \in 1 .. K : Faithful(more, items2, e, k)
      BY <3>3, <3>4, StaysFaithful
    <3>6. Faithful(more, items2, e, i)
      BY <1>5, <2>3, <3>3, <3>4 DEF Faithful
    <3>7. AllFaithful(more, items2, e)
      <4>1. \A k \in 1 .. Len(items2) : k \in 1 .. K \/ k = i
        <5>1. Len(items2) = i /\ K = i - 1
          BY <1>4, <2>1, <3>3, <3>4
        <5> QED BY <2>1, <5>1
      <4>2. Len(items2) <= Len(e)
        BY <2>3, <3>3, <3>4
      <4> QED BY <3>5, <3>6, <4>1, <4>2 DEF AllFaithful
    <3>8. InsideItem(more, st2, items2, i, 0)
      BY <1>1, <1>3, <1>7, <3>3, <3>4 DEF InsideItem
    <3>9. WeakAt(more, st2, items2, e, q + 1)
      BY <3>1, <3>8 DEF WeakAt
    <3>10. Len(items2) >= Len(items)
      BY <1>4, <3>3 DEF K
    <3> QED BY <3>3, <3>7, <3>9, <3>10
  <2> QED BY <2>1, <2>2, <2>3
<1>11. ASSUME NEW i, NEW j, InItem(e, i, j, q), InsideItem(ns, st, items, i, j) \/ Stray(ns, st)
       PROVE  Goal
  <2>1. /\ i \in 1 .. Len(e) /\ i \in Nat /\ j \in Nat /\ (j < Len(e[i]) \/ j = Len(e[i]))
        /\ Len(e[i]) \in Nat
    BY <1>5, <1>11, SMTT(30) DEF InItem
  <2>2. j < Len(e[i])
    <3>1. CASE j = Len(e[i])
      <4>1. d[q + 1] = EndTag("item")
        BY <1>11, <3>1, FromItem
      <4> QED BY <4>1, SymbolIs
    <3> QED BY <2>1, <3>1
  <2> DEFINE l == j + 1
  <2>3. d[q + 1] = StartTag(e[i][l].tag) /\ InField(e, i, l, q + 1)
    BY <1>11, <2>2, IntoField
  <2>4. l \in 1 .. Len(e[i]) /\ \A m \in 1 .. l : m = l \/ m \in 1 .. j
    BY <2>1, <2>2
  <2> HIDE DEF l
  <2>5. node.tag = e[i][l].tag /\ node.tag # "item"
    BY <2>1, <2>3, <2>4, FieldTags DEF StartTag
  <2>6. CASE Stray(ns, st)
    <3>1. st # <<>> /\ ns[Top(st)].tag # "item" /\ Top(st) = node.parent
      BY <1>7, <2>6 DEF Stray
    <3>2. more[Top(st)].tag # "item"
      <4>1. node.parent \in 1 .. N \/ node.parent = 0
        BY <1>1
      <4>2. node.parent # 0
        BY <3>1
      <4> QED BY <1>1, <3>1, <4>1, <4>2
    <3>3. StrayField(more, st2)
      <4>1. Below(st2) = Top(st) /\ Top(st) \in 1 .. Len(more)
        BY <1>1, <1>7, <3>1
      <4> QED BY <1>1, <1>7, <2>5, <3>1, <3>2, <4>1 DEF StrayField
    <3>4. WeakAt(more, st2, items, e, q + 1)
      BY <2>3, <3>3 DEF WeakAt
    <3> QED BY <1>8, <2>5, <3>1, <3>4
  <2>7. CASE InsideItem(ns, st, items, i, j)
    <3>1. /\ Len(items) = i /\ items[i].fields = j /\ Len(ns) = items[i].at + j
          /\ st # <<>> /\ Top(st) = items[i].at /\ node.parent = items[i].at
      BY <1>7, <2>7 DEF InsideItem
    <3> DEFINE items2 == OneMoreField(items)
    <3>2. /\ Tree(more, items2) /\ Len(items2) = i
          /\ items2[i].at = items[i].at /\ items2[i].fields = l
          /\ \A k \in 1 .. i - 1 : items2[k] = items[k]
      <4>1. /\ Len(items) > 0 /\ Len(ns) = items[Len(items)].at + items[Len(items)].fields
            /\ node.parent = items[Len(items)].at
        BY <2>1, <3>1
      <4>2. /\ Tree(more, items2) /\ Len(items2) = Len(items)
            /\ items2[Len(items)].at = items[Len(items)].at
            /\ items2[Len(items)].fields = items[Len(items)].fields + 1
            /\ \A k \in 1 .. Len(items) - 1 : items2[k] = items[k]
        BY <2>5, <4>1, AddField, SMTT(30)
      <4> QED BY <3>1, <4>2 DEF l
    <3> HIDE DEF items2
    <3>3. i - 1 \in 0 .. Len(items) /\ i \in 1 .. Len(items) /\ items[i].at \in Nat
      BY <1>4, <2>1, <3>1 DEF K
    <3>4. \A k \in 1 .. i - 1 : Faithful(more, items2, e, k)
      <4>1. \A k \in 1 .. i - 1 : items2[k] = items[k]
        BY <3>2
      <4> QED BY <3>3, <4>1, StaysFaithful
    <3>5. Len(more) = items2[i].at + l
      <4>1. Len(more) = items[i].at + j + 1
        BY <1>1, <3>1 DEF N
      <4>2. \A a, b \in Nat : a + b + 1 = a + (b + 1)
        OBVIOUS
      <4>3. items[i].at + j + 1 = items[i].at + l
        BY <2>1, <3>3, <4>2 DEF l
      <4> QED BY <3>2, <4>1, <4>3
    <3>6. Faithful(more, items2, e, i)
      <4> DEFINE at == items[i].at
      <4>1. \A m \in 1 .. j : MayBeField(ns, at + m, e[i][m])
        <5>1. Faithful(ns, items, e, i)
          BY <3>3 DEF AllFaithful
        <5> QED BY <3>1, <5>1 DEF Faithful
      <4>2. at + j = N /\ at \in Nat
        BY <3>1, <3>3 DEF N
      <4>3. at \in 1 .. N
        BY <3>3 DEF Tree, N
      <4>4. more[at + l] = node
        BY <1>1, <3>2, <3>5
      <4>5. items2[i].at = at /\ items2[i].fields = l
        BY <3>2
      <4> HIDE DEF at
      <4>6. ASSUME NEW m \in 1 .. l PROVE MayBeField(more, at + m, e[i][m])
        <5>1. CASE m = l
          BY <2>5, <4>4, <5>1 DEF MayBeField
        <5>2. CASE m \in 1 .. j
          <6>1. at + m \in 1 .. N
            BY <1>1, <2>1, <4>2, <4>3, <5>2
          <6> QED BY <1>1, <4>1, <5>2, <6>1 DEF MayBeField
        <5> QED BY <2>4, <5>1, <5>2
      <4>7. l <= Len(e[i])
        BY <2>1, <2>4
      <4> QED BY <4>5, <4>6, <4>7 DEF Faithful
    <3>7. AllFaithful(more, items2, e)
      <4>1. \A k \in 1 .. i : k \in 1 .. i - 1 \/ k = i
        BY <2>1
      <4>2. \A k \in 1 .. i : Faithful(more, items2, e, k)
        BY <3>4, <3>6, <4>1
      <4> QED BY <1>5, <2>1, <3>2, <4>2 DEF AllFaithful
    <3>8. InsideField(more, st2, items2, i, l)
      BY <1>7, <3>1, <3>2, <3>5 DEF InsideField
    <3>9. WeakAt(more, st2, items2, e, q + 1)
      BY <2>3, <3>8 DEF WeakAt
    <3>10. Len(items2) >= Len(items)
      BY <1>4, <3>1, <3>2 DEF K
    <3> QED BY <3>2, <3>7, <3>9, <3>10
  <2> QED BY <1>11, <2>6, <2>7
<1>12. ASSUME NEW i, NEW j, InField(e, i, j, q) PROVE FALSE
  <2>1. d[q + 1] = Text(e[i][j].text)
    BY <1>12, IntoText
  <2> QED BY <2>1, SymbolIs
<1>13. ASSUME NEW i, NEW j, BehindText(e, i, j, q) PROVE FALSE
  <2>1. d[q + 1] = EndTag(e[i][j].tag)
    BY <1>13, FromText
  <2> QED BY <2>1, SymbolIs
<1>14. ~BehindChannel(e, q)
  BY FromChannel, SymbolIs
<1>15. ~BehindRss(e, q)
  BY FromEnd
<1> QED BY <1>9, <1>10, <1>11, <1>12, <1>13, <1>14, <1>15 DEF WeakAt

\* A text goes to a field that waits for it, or to no field of an item.
LEMMA WeakReadsText ==
  ASSUME NEW e \in Seq(Seq(Field)), NEW d, Layout(d, e), NEW q \in Nat, q < Len(d),
         NEW ns, Len(ns) \in Nat, NEW st \in Seq(Nat), NEW items,
         Tree(ns, items), AllFaithful(ns, items, e),
         WeakAt(ns, st, items, e, q), d[q + 1].is = "text",
         NEW other, other = ns \/ Texted(ns, Current(st), d[q + 1].of, other)
  PROVE  /\ Tree(other, items) /\ AllFaithful(other, items, e)
         /\ WeakAt(other, st, items, e, q + 1)
<1> DEFINE N == Len(ns)
<1>1. PICK i, j : /\ InField(e, i, j, q)
                  /\ InsideField(ns, st, items, i, j) \/ StrayField(ns, st) \/ Lost(ns, st)
  <2>1. q # 1
    BY FromRss, SymbolIs
  <2>2. ASSUME NEW i, AtItems(e, i, q) PROVE FALSE
    <3>1. i \in 1 .. Len(e) \/ i = Len(e) + 1
      BY <2>2 DEF AtItems
    <3>2. CASE i \in 1 .. Len(e)
      <4>1. d[q + 1] = StartTag("item")
        BY <2>2, <3>2, IntoItem
      <4> QED BY <4>1, SymbolIs
    <3>3. CASE i = Len(e) + 1
      <4>1. d[q + 1] = EndTag("channel")
        BY <2>2, <3>3, FromItems
      <4> QED BY <4>1, SymbolIs
    <3> QED BY <3>1, <3>2, <3>3
  <2>3. ASSUME NEW i, NEW j, InItem(e, i, j, q) PROVE FALSE
    <3>1. j < Len(e[i]) \/ j = Len(e[i])
      BY <2>3, StartsIncrease DEF InItem
    <3>2. CASE j < Len(e[i])
      <4>1. d[q + 1] = StartTag(e[i][j + 1].tag)
        BY <2>3, <3>2, IntoField
      <4> QED BY <4>1, SymbolIs
    <3>3. CASE j = Len(e[i])
      <4>1. d[q + 1] = EndTag("item")
        BY <2>3, <3>3, FromItem
      <4> QED BY <4>1, SymbolIs
    <3> QED BY <3>1, <3>2, <3>3
  <2>4. ASSUME NEW i, NEW j, BehindText(e, i, j, q) PROVE FALSE
    <3>1. d[q + 1] = EndTag(e[i][j].tag)
      BY <2>4, FromText
    <3> QED BY <3>1, SymbolIs
  <2>5. ~BehindChannel(e, q)
    BY FromChannel, SymbolIs
  <2>6. ~BehindRss(e, q)
    BY FromEnd
  <2> QED BY <2>1, <2>2, <2>3, <2>4, <2>5, <2>6 DEF WeakAt
<1>2. d[q + 1].of = e[i][j].text /\ BehindText(e, i, j, q + 1)
  <2>1. d[q + 1] = Text(e[i][j].text) /\ BehindText(e, i, j, q + 1)
    BY <1>1, IntoText
  <2> QED BY <2>1 DEF Text
<1>3. CASE other = ns
  BY <1>1, <1>2, <1>3 DEF WeakAt
<1> DEFINE x == Current(st)
<1>4. CASE Texted(ns, x, d[q + 1].of, other)
  <2>1. /\ Len(other) = N /\ x \in 1 .. N
        /\ \A n \in 1 .. N : /\ other[n].tag = ns[n].tag /\ other[n].parent = ns[n].parent
                             /\ n # x => other[n] = ns[n]
        /\ other[x].text = e[i][j].text
    BY <1>2, <1>4 DEF Texted
  <2>2. Tree(other, items)
    BY <2>1, SameTree
  <2>3. st # <<>> => x = Top(st)
    BY DEF Current, Top
  <2> HIDE DEF N, x
  <2>4. ASSUME NEW k \in 1 .. Len(items), NEW m \in 1 .. items[k].fields
        PROVE  /\ items[k].at + m \in 1 .. N /\ ns[items[k].at + m].parent = items[k].at
               /\ ns[items[k].at + m].tag # "item" /\ ns[items[k].at].tag = "item"
    <3> DEFINE at == items[k].at
               fields == items[k].fields
    <3>1. /\ at \in Nat /\ fields \in Nat /\ at \in 1 .. N /\ at + fields <= N
          /\ ns[at].tag = "item" /\ ns[at + m].parent = at /\ ns[at + m].tag # "item"
          /\ N \in Nat
      BY ItemRecords DEF Tree, N
    <3>2. at + m \in 1 .. N
      <4>1. m \in 1 .. fields
        OBVIOUS
      <4> HIDE DEF at, fields
      <4> QED BY <3>1, <4>1, SMTT(30)
    <3> QED BY <3>1, <3>2
  <2>5. ASSUME NEW k \in 1 .. Len(items), Faithful(ns, items, e, k),
               \A m \in 1 .. items[k].fields :
                 items[k].at + m = x => MayBeField(other, x, e[k][m])
        PROVE  Faithful(other, items, e, k)
    <3>1. ASSUME NEW m \in 1 .. items[k].fields PROVE MayBeField(other, items[k].at + m, e[k][m])
      <4> DEFINE n == items[k].at + m
      <4>1. n \in 1 .. N
        BY <2>4
      <4>2. MayBeField(ns, n, e[k][m])
        BY <2>5 DEF Faithful
      <4>3. n = x => MayBeField(other, n, e[k][m])
        BY <2>5
      <4> HIDE DEF n
      <4>4. n # x => MayBeField(other, n, e[k][m])
        BY <2>1, <4>1, <4>2 DEF MayBeField
      <4>5. MayBeField(other, n, e[k][m])
        BY <4>3, <4>4
      <4> QED BY <4>5 DEF n
    <3> QED BY <2>5, <3>1 DEF Faithful
  <2>6. Len(items) <= Len(e) /\ \A k \in 1 .. Len(items) : Faithful(ns, items, e, k)
    BY DEF AllFaithful
  <2>7. ASSUME \A k \in 1 .. Len(items) : \A m \in 1 .. items[k].fields : items[k].at + m # x
        PROVE  AllFaithful(other, items, e)
    BY <2>5, <2>6, <2>7 DEF AllFaithful
  <2>8. CASE InsideField(ns, st, items, i, j)
    <3>1. /\ Len(items) = i /\ items[i].fields = j /\ Len(ns) = items[i].at + j
          /\ Len(st) >= 2 /\ Top(st) = items[i].at + j /\ Below(st) = items[i].at
      BY <2>8 DEF InsideField
    <3>2. x = N /\ i \in Nat /\ i \in 1 .. Len(items)
      <4>1. st # <<>>
        BY <3>1, NoLonger
      <4> QED BY <1>1, <2>3, <3>1, <4>1 DEF N, InField
    <3>3. ASSUME NEW k \in 1 .. Len(items), NEW m \in 1 .. items[k].fields,
                 items[k].at + m = x
          PROVE  MayBeField(other, x, e[k][m])
      <4>1. k = i /\ m = j
        <5>1. k \in 1 .. i /\ items[k].at \in Nat /\ items[k].fields \in Nat
          BY <3>1, ItemRecords
        <5>2. k < i => items[k].at + items[k].fields < items[i].at
          BY <3>1, <3>2 DEF Tree
        <5>3. items[i].at \in 1 .. N /\ items[i].at \in Nat /\ j \in Nat
          BY <3>1, <3>2, ItemRecords DEF Tree, N
        <5>4. items[k].at + m = items[i].at + j /\ m \in 1 .. items[k].fields
          BY <3>1, <3>2, <3>3 DEF N
        <5> DEFINE a == items[k].at
                   f == items[k].fields
                   b == items[i].at
        <5>5. ~(k < i)
          <6>1. /\ k < i => a + f < b
                /\ a \in Nat /\ f \in Nat /\ b \in Nat /\ j \in Nat
                /\ a + m = b + j /\ m \in 1 .. f
            BY <5>1, <5>2, <5>3, <5>4
          <6> HIDE DEF a, f, b
          <6> QED BY <6>1
        <5>6. k = i
          BY <3>2, <5>1, <5>5
        <5> QED BY <5>3, <5>4, <5>6
      <4>2. MayBeField(ns, items[i].at + j, e[i][j])
        <5>1. j \in 1 .. items[i].fields
          BY <3>3, <4>1
        <5> QED BY <2>6, <3>2, <5>1 DEF Faithful
      <4>3. ns[x].tag = e[i][j].tag
        BY <3>3, <4>1, <4>2 DEF MayBeField
      <4> QED BY <2>1, <4>1, <4>3 DEF MayBeField
    <3>4. AllFaithful(other, items, e)
      BY <2>5, <2>6, <3>3 DEF AllFaithful
    <3>5. InsideField(other, st, items, i, j)
      BY <2>1, <3>1 DEF InsideField, N
    <3> QED BY <1>2, <2>2, <3>4, <3>5 DEF WeakAt
  <2>9. CASE StrayField(ns, st)
    <3>1. /\ Len(st) >= 2 /\ ns[Top(st)].tag # "item" /\ ns[Top(st)].parent = Below(st)
          /\ ns[Below(st)].tag # "item" /\ Below(st) \in 1 .. N
      BY <2>9 DEF StrayField, N
    <3>2. x = Top(st)
      <4>1. st # <<>>
        BY <3>1, NoLonger
      <4> QED BY <2>3, <4>1
    <3>3. \A k \in 1 .. Len(items) : \A m \in 1 .. items[k].fields : items[k].at + m # x
      BY <2>4, <3>1, <3>2
    <3>4. AllFaithful(other, items, e)
      BY <2>7, <3>3
    <3>5. StrayField(other, st)
      <4>1. other[Top(st)].tag # "item" /\ other[Top(st)].parent = Below(st)
        BY <2>1, <3>1, <3>2
      <4>2. other[Below(st)].tag # "item"
        BY <2>1, <3>1
      <4> QED BY <2>1, <3>1, <4>1, <4>2 DEF StrayField, N
    <3> QED BY <1>2, <2>2, <3>4, <3>5 DEF WeakAt
  <2>10. CASE Lost(ns, st)
    <3>1. st # <<>> /\ ns[Top(st)].tag = "item" /\ x = Top(st)
      BY <2>3, <2>10 DEF Lost
    <3>2. \A k \in 1 .. Len(items) : \A m \in 1 .. items[k].fields : items[k].at + m # x
      BY <2>4, <3>1
    <3>3. AllFaithful(other, items, e)
      BY <2>7, <3>2
    <3>4. Lost(other, st)
      BY <2>1, <3>1 DEF Lost
    <3> QED BY <1>2, <2>2, <3>3, <3>4 DEF WeakAt
  <2> QED BY <1>1, <2>8, <2>9, <2>10
<1> QED BY <1>3, <1>4

LEMMA TextThere ==
  ASSUME NEW e \in Seq(Seq(Field)), NEW d, Layout(d, e), NEW r \in Nat,
         NEW i, NEW j, InField(e, i, j, r)
  PROVE  d[r + 1].is = "text"
  BY IntoText, SymbolIs

LEMMA WeakReadsEnd ==
  ASSUME NEW e \in Seq(Seq(Field)), NEW d, Layout(d, e), NEW q \in Nat, q < Len(d),
         NEW ns, NEW st \in Seq(Nat), st # <<>>, NEW items, Tree(ns, items),
         WeakAt(ns, st, items, e, q),
         d[q + 1].is = "end", d[q + 1].of = ns[Current(st)].tag
  PROVE  WeakAt(ns, Front(st), items, e, q + 1)
<1> DEFINE st2 == Front(st)
<1>1. /\ Len(st) \in Nat /\ st2 \in Seq(Nat) /\ Len(st2) = Len(st) - 1
      /\ Current(st) = Top(st) /\ \A l \in 1 .. Len(st) - 1 : st2[l] = st[l]
  BY FrontIsTyped, SMTT(30) DEF Current, Top
<1>2. Len(st) >= 2 => st2 # <<>> /\ Top(st2) = Below(st)
  <2>1. st2 = <<>> <=> Len(st2) = 0
    BY <1>1, NoLonger
  <2>2. ASSUME Len(st) >= 2 PROVE st2[Len(st2)] = st[Len(st) - 1]
    <3>1. Len(st) - 1 \in 1 .. Len(st) - 1
      BY <1>1, <2>2
    <3> QED BY <1>1, <3>1
  <2> QED BY <1>1, <2>1, <2>2 DEF Top, Below
<1> SUFFICES WeakAt(ns, st2, items, e, q + 1)
  OBVIOUS
<1> HIDE DEF st2
<1>3. q # 1
  BY FromRss, SymbolIs
<1>4. ASSUME NEW i, AtItems(e, i, q) PROVE WeakAt(ns, st2, items, e, q + 1)
  <2>1. i \in 1 .. Len(e) \/ i = Len(e) + 1
    BY <1>4 DEF AtItems
  <2>2. CASE i \in 1 .. Len(e)
    <3>1. d[q + 1] = StartTag("item")
      BY <1>4, <2>2, IntoItem
    <3> QED BY <3>1, SymbolIs
  <2>3. CASE i = Len(e) + 1
    <3>1. BehindChannel(e, q + 1)
      BY <1>4, <2>3, FromItems
    <3> QED BY <3>1 DEF WeakAt
  <2> QED BY <2>1, <2>2, <2>3
<1>5. ASSUME NEW i, NEW j, InItem(e, i, j, q), InsideItem(ns, st, items, i, j) \/ Stray(ns, st)
      PROVE  WeakAt(ns, st2, items, e, q + 1)
  <2>1. i \in Nat /\ (j < Len(e[i]) \/ j = Len(e[i]))
    BY <1>5, StartsIncrease DEF InItem
  <2>2. CASE j < Len(e[i])
    <3>1. d[q + 1] = StartTag(e[i][j + 1].tag)
      BY <1>5, <2>2, IntoField
    <3> QED BY <3>1, SymbolIs
  <2>3. CASE j = Len(e[i])
    <3> DEFINE l == i + 1
    <3>1. d[q + 1] = EndTag("item") /\ AtItems(e, l, q + 1)
      BY <1>5, <2>3, FromItem
    <3>2. ~Stray(ns, st)
      BY <1>1, <3>1 DEF Stray, EndTag
    <3>3. Len(items) = l - 1
      <4>1. Len(items) = i
        BY <1>5, <3>2 DEF InsideItem
      <4> QED BY <2>1, <4>1
    <3> HIDE DEF l
    <3> QED BY <3>1, <3>3 DEF WeakAt
  <2> QED BY <2>1, <2>2, <2>3
<1>6. ASSUME NEW i, NEW j, InField(e, i, j, q) PROVE FALSE
  <2>1. d[q + 1].is = "text"
    BY <1>6, TextThere
  <2> QED BY <2>1
<1>7. ASSUME NEW i, NEW j, BehindText(e, i, j, q),
             InsideField(ns, st, items, i, j) \/ StrayField(ns, st) \/ Lost(ns, st)
      PROVE  WeakAt(ns, st2, items, e, q + 1)
  <2>1. d[q + 1] = EndTag(e[i][j].tag) /\ InItem(e, i, j, q + 1)
    BY <1>7, FromText
  <2>2. ~Lost(ns, st)
    <3>1. i \in 1 .. Len(e) /\ j \in 1 .. Len(e[i])
      BY <1>7 DEF BehindText
    <3>2. e[i][j].tag # "item"
      BY <3>1, FieldTags
    <3> QED BY <1>1, <2>1, <3>2, SMTT(30) DEF Lost, EndTag
  <2>3. CASE InsideField(ns, st, items, i, j)
    <3>1. InsideItem(ns, st2, items, i, j)
      BY <1>2, <2>3 DEF InsideField, InsideItem
    <3> QED BY <2>1, <3>1 DEF WeakAt
  <2>4. CASE StrayField(ns, st)
    <3>1. Stray(ns, st2)
      BY <1>2, <2>4 DEF StrayField, Stray
    <3> QED BY <2>1, <3>1 DEF WeakAt
  <2> QED BY <1>7, <2>2, <2>3, <2>4
<1>8. CASE BehindChannel(e, q)
  <2>1. BehindRss(e, q + 1)
    BY <1>8, FromChannel
  <2> QED BY <2>1 DEF WeakAt
<1>9. ~BehindRss(e, q)
  BY FromEnd
<1> QED BY <1>3, <1>4, <1>5, <1>6, <1>7, <1>8, <1>9 DEF WeakAt

-----------------------------------------------------------------------------
(* The steps of Parse *)

doc == Document(arrival.edition)

LEMMA ArrivalParts ==
  ASSUME TInv
  PROVE  /\ arrival.edition \in Seq(Seq(Field)) /\ doc \in Seq(Symbol)
         /\ Layout(doc, arrival.edition) /\ arrival.symbols \in Seq(Symbol)
         /\ Len(doc) \in Nat /\ Len(arrival.symbols) \in Nat
         /\ Whole(arrival, doc) \/ CutOff(arrival, doc) \/ Dropped(arrival, doc)
         /\ arrival.at \in Nat /\ arrival.at >= 1
<1>1. arrival \in Arrivals
  BY DEF TInv, TypeOK
<1>2. /\ arrival.edition \in Editions /\ arrival.symbols \in Seq(Symbol)
      /\ Layout(doc, arrival.edition) /\ doc \in Seq(Symbol)
      /\ Whole(arrival, doc) \/ CutOff(arrival, doc) \/ Dropped(arrival, doc)
  BY <1>1, ArrivalIs DEF doc
<1>3. Len(doc) \in Nat /\ Len(arrival.symbols) \in Nat
  BY <1>2
<1>4. arrival.at \in Nat /\ arrival.at >= 1
  BY <1>2, <1>3 DEF Whole, CutOff, Dropped
<1> QED BY <1>2, <1>3, <1>4, EditionParts

\* The next symbol: one of those before the damage, what a cut left of one, one
\* of those behind a gap.
Sound(items) ==
  /\ p < arrival.at /\ p - 1 < Len(doc) /\ collected[p] = doc[p]
  /\ ExactAt(nodes, open, items, arrival.edition, p - 1)
AtTheCut(items) ==
  /\ arrival.damage = "cut" /\ p = arrival.at /\ p = Len(collected) /\ p - 1 < Len(doc)
  /\ ExactAt(nodes, open, items, arrival.edition, p - 1)
  /\ \/ doc[p].is = "start" /\ collected[p] = StartTag(Partial)
     \/ doc[p].is = "text" /\ \E t \in ShortTexts[doc[p].of] : collected[p] = Text(t)
BehindTheGap(items) ==
  /\ arrival.damage = "drop" /\ p >= arrival.at /\ p < Len(doc) /\ collected[p] = doc[p + 1]
  /\ Enough(items, arrival) /\ AllFaithful(nodes, items, arrival.edition)
  /\ WeakAt(nodes, open, items, arrival.edition, p)

LEMMA CollectedAre ==
  ASSUME TInv, Gathered(collected, arrival)
  PROVE  /\ Len(collected) \in 0 .. Len(arrival.symbols) /\ Len(collected) >= arrival.at - 1
         /\ \A k \in 1 .. Len(collected) : collected[k] = arrival.symbols[k]
         /\ DOMAIN collected = 1 .. Len(collected) /\ p \in 1 .. Len(collected) + 1 /\ p \in Nat
         /\ arrival.damage # "drop" => Len(collected) = Len(arrival.symbols)
<1>1. arrival.symbols \in Seq(Symbol) /\ Len(arrival.symbols) \in Nat
  BY ArrivalParts
<1>2. PICK c \in 0 .. Len(arrival.symbols) :
        collected = SubSeq(arrival.symbols, 1, c) /\ c >= arrival.at - 1
  BY DEF Gathered
<1>3. Len(collected) = c /\ \A k \in 1 .. c : collected[k] = arrival.symbols[k]
  BY <1>1, <1>2, PrefixElements
<1>4. collected \in Seq(Symbol) /\ p \in 1 .. Len(collected) + 1
  BY DEF TInv, TypeOK
<1>5. arrival.damage # "drop" => Len(collected) = Len(arrival.symbols)
  BY DEF Gathered
<1>6. DOMAIN collected = 1 .. Len(collected)
  BY <1>4
<1> QED BY <1>2, <1>3, <1>4, <1>5, <1>6

LEMMA EnoughBefore ==
  ASSUME TInv, NEW items, EnoughAt(items, arrival.edition, arrival.at - 1)
  PROVE  Enough(items, arrival)
<1> DEFINE e == arrival.edition
<1>1. arrival.at \in Nat /\ e \in Seq(Seq(Field))
  BY ArrivalParts
<1>2. \A i \in 1 .. Len(e) : EndsAt(e, i) \in Int
  <2> TAKE i \in 1 .. Len(e)
  <2> HIDE DEF e
  <2>1. i + 1 \in 1 .. Len(e) + 1
    BY <1>1
  <2>2. StartsAt(e, i + 1) \in Nat
    BY <1>1, <2>1, StartsIncrease
  <2> QED BY <2>2 DEF EndsAt
<1> QED BY <1>1, <1>2 DEF EnoughAt, Enough

LEMMA ParsingCases ==
  ASSUME TInv, Gathered(collected, arrival), p \in DOMAIN collected,
         NEW items, Parsing(items)
  PROVE  Sound(items) \/ AtTheCut(items) \/ BehindTheGap(items)
<1> DEFINE e == arrival.edition
<1>1. /\ e \in Seq(Seq(Field)) /\ Layout(doc, e) /\ Len(doc) \in Nat
      /\ Whole(arrival, doc) \/ CutOff(arrival, doc) \/ Dropped(arrival, doc)
      /\ arrival.at \in Nat /\ arrival.at >= 1 /\ Len(arrival.symbols) \in Nat
  BY ArrivalParts
<1>2. /\ p \in 1 .. Len(collected) /\ p \in Nat /\ p <= Len(arrival.symbols)
      /\ collected[p] = arrival.symbols[p]
      /\ Len(collected) \in Nat /\ p - 1 \in Nat /\ p - 1 + 1 = p
      /\ arrival.damage # "drop" => Len(collected) = Len(arrival.symbols)
  BY CollectedAre
<1>3. Tree(nodes, items)
  BY DEF Parsing
<1>4. open \in Seq(Nat)
  BY CurrentIs, SeqOfMore
<1> HIDE DEF e
<1>5. CASE p < arrival.at /\ ExactAt(nodes, open, items, e, p - 1)
  <2>1. p \in 1 .. arrival.at - 1
    BY <1>1, <1>2, <1>5
  <2>2. arrival.symbols[p] = doc[p]
    BY <1>1, <1>2, <1>5, <2>1 DEF Whole, CutOff, Dropped, Same
  <2>3. p <= Len(doc)
    BY <1>1, <1>2, <1>5 DEF Whole, CutOff, Dropped
  <2> QED BY <1>1, <1>2, <1>5, <2>2, <2>3 DEF Sound, e
<1>6. CASE p = arrival.at /\ ExactAt(nodes, open, items, e, p - 1)
  <2>1. CASE Whole(arrival, doc)
    BY <1>1, <1>2, <1>6, <2>1 DEF Whole
  <2>2. CASE CutOff(arrival, doc)
    <3>1. /\ arrival.damage = "cut" /\ Len(arrival.symbols) = p /\ p \in 1 .. Len(doc)
          /\ Fragment(doc[p], <<collected[p]>>) /\ Len(collected) = p
      BY <1>1, <1>2, <1>6, <2>2 DEF CutOff
    <3>2. \/ doc[p].is = "start" /\ collected[p] = StartTag(Partial)
          \/ doc[p].is = "text" /\ \E t \in ShortTexts[doc[p].of] : collected[p] = Text(t)
      BY <3>1 DEF Fragment
    <3> QED BY <1>1, <1>2, <1>6, <3>1, <3>2 DEF AtTheCut, e
  <2>3. CASE Dropped(arrival, doc)
    <3>8. /\ arrival.damage = "drop" /\ Len(arrival.symbols) = Len(doc) - 1
          /\ \A k \in p .. Len(doc) - 1 : arrival.symbols[k] = doc[k + 1]
      BY <1>6, <2>3 DEF Dropped
    <3>9. p < Len(doc) /\ p \in p .. Len(doc) - 1
      BY <1>1, <1>2, <3>8
    <3>1. /\ arrival.damage = "drop" /\ p < Len(doc) /\ collected[p] = doc[p + 1]
      BY <1>2, <3>8, <3>9
    <3> DEFINE r == p - 1
    <3>2. r \in Nat /\ r < Len(doc) /\ r + 1 = p /\ r = arrival.at - 1
      BY <1>1, <1>2, <1>6, <3>1
    <3>3. ExactAt(nodes, open, items, e, r)
      BY <1>6
    <3> HIDE DEF r
    <3>4. WeakAt(nodes, open, items, e, r + 1)
      BY <1>1, <1>3, <1>4, <3>2, <3>3, Skipped
    <3>5. AllFaithful(nodes, items, e)
      BY <1>1, <1>3, <3>2, <3>3, ExactIsFaithful
    <3>6. EnoughAt(items, e, r)
      BY <1>1, <1>3, <3>2, <3>3, ExactIsEnough
    <3>7. Enough(items, arrival)
      BY <3>2, <3>6, EnoughBefore DEF e
    <3> QED BY <1>1, <1>2, <1>6, <3>1, <3>2, <3>4, <3>5, <3>7 DEF BehindTheGap, e
  <2> QED BY <1>1, <2>1, <2>2, <2>3
<1>7. CASE /\ arrival.damage = "drop" /\ p >= arrival.at /\ Enough(items, arrival)
           /\ AllFaithful(nodes, items, e) /\ WeakAt(nodes, open, items, e, p)
  <2>1. Dropped(arrival, doc)
    BY <1>1, <1>7 DEF Whole, CutOff
  <2>2. p < Len(doc) /\ p \in arrival.at .. Len(doc) - 1
    BY <1>1, <1>2, <1>7, <2>1 DEF Dropped
  <2>3. collected[p] = doc[p + 1]
    BY <1>2, <2>1, <2>2 DEF Dropped
  <2> QED BY <1>7, <2>2, <2>3 DEF BehindTheGap, e
<1>8. p <= arrival.at <=> p < arrival.at \/ p = arrival.at
  BY <1>1, <1>2
<1>9. p # Len(collected) + 1
  BY <1>2
<1> QED BY <1>5, <1>6, <1>7, <1>8, <1>9 DEF Parsing, e

LEMMA OpenIs ==
  ASSUME TInv
  PROVE  /\ nodes \in Seq(Node) /\ Len(nodes) \in Nat /\ open \in Seq(Nat)
         /\ \A n \in 1 .. Len(nodes) : nodes[n].parent < n /\ nodes[n].parent \in Nat
         /\ current = Current(open) /\ current \in 0 .. Len(nodes)
         /\ open # <<>> => current \in 1 .. Len(nodes)
<1>1. /\ nodes \in Seq(Node) /\ Len(nodes) \in Nat /\ DOMAIN nodes = 1 .. Len(nodes)
      /\ open \in Seq(1 .. Len(nodes))
      /\ open = <<>> => current = 0
      /\ open # <<>> => current = open[Len(open)] /\ current \in 1 .. Len(nodes)
  BY CurrentIs
<1>2. open \in Seq(Nat)
  BY <1>1, SeqOfMore
<1>3. ASSUME NEW n \in 1 .. Len(nodes) PROVE nodes[n].parent < n /\ nodes[n].parent \in Nat
  <2>1. nodes[n] \in Node
    BY <1>1, ElementOf
  <2>2. nodes[n].parent < n
    BY <1>1 DEF TInv, TypeOK
  <2> QED BY <2>1, <2>2 DEF Node
<1>4. current = Current(open) /\ current \in 0 .. Len(nodes)
  BY <1>1 DEF Current
<1> QED BY <1>1, <1>2, <1>3, <1>4

LEMMA ReadElementGrows ==
  ASSUME TInv, ReadElement
  PROVE  LET node == [tag |-> collected[p].of, parent |-> current, text |-> NoText]
         IN Grows(nodes, node, nodes') /\ open' = Append(open, Len(nodes'))
<1> DEFINE node == [tag |-> collected[p].of, parent |-> current, text |-> NoText]
<1>1. /\ p \in DOMAIN collected /\ collected[p].is = "start"
      /\ nodes' = Append(nodes, node) /\ open' = Append(open, Len(nodes) + 1)
  BY DEF ReadElement, Reading
<1>2. collected[p].of \in Tags
  BY <1>1, ReadIsTyped
<1>3. /\ nodes \in Seq(Node) /\ Len(nodes) \in Nat /\ current \in 0 .. Len(nodes)
      /\ \A n \in 1 .. Len(nodes) : nodes[n].parent < n /\ nodes[n].parent \in Nat
  BY OpenIs
<1>4. node \in Node
  BY <1>2, <1>3 DEF Node
<1>5. node.parent = current
  OBVIOUS
<1> HIDE DEF node
<1>6. /\ nodes' \in Seq(Node) /\ Len(nodes') = Len(nodes) + 1 /\ nodes'[Len(nodes) + 1] = node
      /\ \A n \in 1 .. Len(nodes) : nodes'[n] = nodes[n]
  BY <1>1, <1>3, <1>4, AppendIsTyped
<1>7. Grows(nodes, node, nodes')
  BY <1>3, <1>4, <1>5, <1>6 DEF Grows
<1> QED BY <1>1, <1>6, <1>7 DEF node

LEMMA EnoughStays ==
  ASSUME NEW items, NEW items2, NEW a, Enough(items, a), Len(items) \in Nat, Len(items2) \in Nat,
         Len(items2) >= Len(items), a.edition \in Seq(Seq(Field))
  PROVE  Enough(items2, a)
<1>1. \A i \in 1 .. Len(a.edition) : i \in Nat
  OBVIOUS
<1> QED BY <1>1 DEF Enough

LEMMA ReadElementParses ==
  ASSUME TInv, Gathered(collected, arrival), NEW items, Parsing(items), ReadElement
  PROVE  \E items2 : Parsing(items2)'
<1> DEFINE e == arrival.edition
           node == [tag |-> collected[p].of, parent |-> current, text |-> NoText]
           r == p - 1
<1>1. /\ p \in DOMAIN collected /\ collected[p].is = "start" /\ p' = p + 1
      /\ arrival' = arrival /\ collected' = collected
  BY DEF ReadElement, Reading
<1>2. Grows(nodes, node, nodes') /\ open' = Append(open, Len(nodes'))
  BY ReadElementGrows
<1>3. node.tag = collected[p].of /\ node.parent = Current(open) /\ node.text = NoText
  BY OpenIs
<1>4. /\ open \in Seq(Nat) /\ Len(nodes) \in Nat /\ (open # <<>> => Current(open) # 0)
  BY OpenIs
<1>5. /\ e \in Seq(Seq(Field)) /\ Layout(doc, e) /\ arrival.at \in Nat
  BY ArrivalParts
<1>6. p \in Nat /\ p >= 1 /\ r \in Nat /\ r + 1 = p /\ p + 1 - 1 = p
  BY CollectedAre
<1>7. Tree(nodes, items) /\ Len(items) \in Nat
  BY ItemRecords DEF Parsing
<1>8. Sound(items) \/ AtTheCut(items) \/ BehindTheGap(items)
  BY <1>1, ParsingCases
<1> HIDE DEF e, node
<1>9. CASE Sound(items)
  <2>1. r < Len(doc) /\ ExactAt(nodes, open, items, e, r) /\ collected[p] = doc[p] /\ p < arrival.at
    BY <1>9 DEF Sound, e
  <2> HIDE DEF r
  <2>2. doc[r + 1].is = "start" /\ node.tag = doc[r + 1].of
    BY <1>1, <1>3, <1>6, <2>1
  <2>3. PICK items2 : /\ Tree(nodes', items2)
                      /\ ExactAt(nodes', Append(open, Len(nodes')), items2, e, r + 1)
    BY <1>2, <1>3, <1>4, <1>5, <1>6, <1>7, <2>1, <2>2, ExactStart
  <2>4. /\ Tree(nodes', items2) /\ ExactAt(nodes', open', items2, arrival'.edition, p' - 1)
        /\ p' <= arrival'.at
    BY <1>1, <1>2, <1>5, <1>6, <2>1, <2>3 DEF e
  <2> QED BY <2>4 DEF Parsing
<1>10. CASE AtTheCut(items)
  <2>1. /\ arrival.damage = "cut" /\ p = arrival.at /\ p = Len(collected) /\ r < Len(doc)
        /\ ExactAt(nodes, open, items, e, r)
        /\ doc[p].is = "start" /\ collected[p] = StartTag(Partial)
    BY <1>1, <1>10, SymbolIs DEF AtTheCut, e
  <2> HIDE DEF r
  <2>2. doc[r + 1].is = "start" /\ node.tag = Partial
    BY <1>3, <1>6, <2>1 DEF StartTag
  <2>3. PICK items2 : /\ Tree(nodes', items2) /\ Len(items2) = Len(items)
                      /\ CutTree(nodes', items2, e, r + 1)
    BY <1>2, <1>3, <1>4, <1>5, <1>6, <1>7, <2>1, <2>2, PartialIsCut
  <2>4. EnoughAt(items, e, r)
    BY <1>5, <1>6, <1>7, <2>1, ExactIsEnough
  <2>5. Enough(items, arrival)
    <3>1. r = arrival.at - 1
      BY <1>5, <1>6, <2>1
    <3> QED BY <2>4, <3>1, EnoughBefore DEF e
  <2>6. Enough(items2, arrival)
    BY <1>5, <1>7, <2>3, <2>5, EnoughStays DEF e
  <2>7. Outcome(nodes', items2, arrival)
    BY <1>6, <2>1, <2>3, <2>6 DEF Outcome, e
  <2>8. p' = Len(collected') + 1 /\ arrival'.damage = "cut" /\ Outcome(nodes', items2, arrival')
    BY <1>1, <2>1, <2>7
  <2> QED BY <2>3, <2>8 DEF Parsing
<1>11. CASE BehindTheGap(items)
  <2>1. /\ arrival.damage = "drop" /\ p >= arrival.at /\ p < Len(doc) /\ collected[p] = doc[p + 1]
        /\ Enough(items, arrival) /\ AllFaithful(nodes, items, e)
        /\ WeakAt(nodes, open, items, e, p)
    BY <1>11 DEF BehindTheGap, e
  <2>2. doc[p + 1].is = "start" /\ node.tag = doc[p + 1].of
    BY <1>1, <1>3, <2>1
  <2>3. PICK items2 : /\ Tree(nodes', items2) /\ Len(items2) >= Len(items)
                      /\ AllFaithful(nodes', items2, e)
                      /\ WeakAt(nodes', Append(open, Len(nodes')), items2, e, p + 1)
    BY <1>2, <1>3, <1>4, <1>5, <1>6, <1>7, <2>1, <2>2, WeakStart
  <2>4. Len(items2) \in Nat
    BY <2>3, ItemRecords
  <2>5. Enough(items2, arrival)
    BY <1>5, <1>7, <2>1, <2>3, <2>4, EnoughStays DEF e
  <2>6. p' >= arrival'.at
    BY <1>1, <1>5, <1>6, <2>1
  <2>7. /\ arrival'.damage = "drop" /\ Enough(items2, arrival')
        /\ AllFaithful(nodes', items2, arrival'.edition)
        /\ WeakAt(nodes', open', items2, arrival'.edition, p')
    BY <1>1, <1>2, <2>1, <2>3, <2>5 DEF e
  <2> QED BY <2>3, <2>6, <2>7 DEF Parsing
<1> QED BY <1>8, <1>9, <1>10, <1>11

\* What ReadText does to the tree.
LEMMA ReadTextTexts ==
  ASSUME TInv, ReadText
  PROVE  /\ nodes' = nodes \/ Texted(nodes, Current(open), collected[p].of, nodes')
         /\ /\ open # <<>> /\ nodes[Current(open)].text = NoText
            /\ \A n \in 1 .. Len(nodes) : nodes[n].parent # Current(open)
            => Texted(nodes, Current(open), collected[p].of, nodes')
<1>1. /\ nodes \in Seq(Node) /\ Len(nodes) \in Nat /\ DOMAIN nodes = 1 .. Len(nodes)
      /\ current = Current(open) /\ (open # <<>> => current \in 1 .. Len(nodes))
  BY OpenIs
<1> DEFINE Cond == open # <<>> /\ ChildrenOf(current) = {} /\ nodes[current].text = NoText
           more == [nodes EXCEPT ![current].text = collected[p].of]
<1>2. nodes' = IF Cond THEN more ELSE nodes
  BY DEF ReadText
<1>3. ASSUME Cond PROVE Texted(nodes, current, collected[p].of, more)
  <2>1. current \in 1 .. Len(nodes)
    BY <1>1, <1>3
  <2>2. \A n \in 1 .. Len(nodes) :
          nodes[n] = [tag |-> nodes[n].tag, parent |-> nodes[n].parent, text |-> nodes[n].text]
    <3>1. \A n \in 1 .. Len(nodes) : nodes[n] \in Node
      BY <1>1, ElementOf
    <3> QED BY <3>1 DEF Node
  <2>3. more[current].text = collected[p].of
    BY <1>1, <2>1, <2>2
  <2>4. Len(more) = Len(nodes)
    BY <1>1
  <2>5. \A n \in 1 .. Len(nodes) : /\ more[n].tag = nodes[n].tag /\ more[n].parent = nodes[n].parent
                                   /\ n # current => more[n] = nodes[n]
    BY <1>1, <2>1, <2>2
  <2> QED BY <2>1, <2>3, <2>4, <2>5 DEF Texted
<1>4. ASSUME \A n \in 1 .. Len(nodes) : nodes[n].parent # Current(open)
      PROVE  ChildrenOf(current) = {}
  BY <1>1, <1>4 DEF ChildrenOf
<1> HIDE DEF more
<1> QED BY <1>1, <1>2, <1>3, <1>4

LEMMA ReadTextParses ==
  ASSUME TInv, Gathered(collected, arrival), NEW items, Parsing(items), ReadText
  PROVE  Parsing(items)'
<1> DEFINE e == arrival.edition
           r == p - 1
<1>1. /\ p \in DOMAIN collected /\ collected[p].is = "text" /\ p' = p + 1
      /\ arrival' = arrival /\ collected' = collected /\ open' = open
  BY DEF ReadText, Reading
<1>2. /\ nodes' = nodes \/ Texted(nodes, Current(open), collected[p].of, nodes')
      /\ /\ open # <<>> /\ nodes[Current(open)].text = NoText
         /\ \A n \in 1 .. Len(nodes) : nodes[n].parent # Current(open)
         => Texted(nodes, Current(open), collected[p].of, nodes')
  BY ReadTextTexts
<1>3. /\ open \in Seq(Nat) /\ Len(nodes) \in Nat
      /\ \A n \in 1 .. Len(nodes) : nodes[n].parent < n
  BY OpenIs
<1>4. /\ e \in Seq(Seq(Field)) /\ Layout(doc, e) /\ arrival.at \in Nat
  BY ArrivalParts
<1>5. p \in Nat /\ p >= 1 /\ r \in Nat /\ r + 1 = p /\ p + 1 - 1 = p
  BY CollectedAre
<1>6. Tree(nodes, items) /\ Len(items) \in Nat
  BY ItemRecords DEF Parsing
<1>7. Sound(items) \/ AtTheCut(items) \/ BehindTheGap(items)
  BY <1>1, ParsingCases
<1> HIDE DEF e
<1>8. ASSUME r < Len(doc), ExactAt(nodes, open, items, e, r), doc[p].is = "text"
      PROVE  /\ Texted(nodes, Current(open), collected[p].of, nodes')
             /\ \A other : Texted(nodes, Current(open), doc[p].of, other) =>
                  Tree(other, items) /\ ExactAt(other, open, items, e, p)
  <2> HIDE DEF r
  <2>1. doc[r + 1].is = "text"
    BY <1>5, <1>8
  <2>2. /\ open # <<>> /\ Current(open) \in 1 .. Len(nodes) /\ nodes[Current(open)].text = NoText
        /\ \A n \in 1 .. Len(nodes) : nodes[n].parent # Current(open)
        /\ \A other : Texted(nodes, Current(open), doc[r + 1].of, other) =>
             Tree(other, items) /\ ExactAt(other, open, items, e, r + 1)
    BY <1>3, <1>4, <1>5, <1>6, <1>8, <2>1, ExactReadsText
  <2> QED BY <1>2, <1>5, <2>2
<1>9. CASE Sound(items)
  <2>1. r < Len(doc) /\ ExactAt(nodes, open, items, e, r) /\ collected[p] = doc[p] /\ p < arrival.at
    BY <1>9 DEF Sound, e
  <2>2. doc[p].is = "text"
    BY <1>1, <2>1
  <2>3. Tree(nodes', items) /\ ExactAt(nodes', open, items, e, p)
    BY <1>8, <2>1, <2>2
  <2>4. /\ ExactAt(nodes', open', items, arrival'.edition, p' - 1) /\ p' <= arrival'.at
    BY <1>1, <1>4, <1>5, <2>1, <2>3 DEF e
  <2> QED BY <2>3, <2>4 DEF Parsing
<1>10. CASE AtTheCut(items)
  <2>1. /\ arrival.damage = "cut" /\ p = arrival.at /\ p = Len(collected) /\ r < Len(doc)
        /\ ExactAt(nodes, open, items, e, r)
    BY <1>10 DEF AtTheCut, e
  <2>2. PICK t \in ShortTexts[doc[p].of] : doc[p].is = "text" /\ collected[p] = Text(t)
    BY <1>1, <1>10, SymbolIs DEF AtTheCut
  <2>3. Texted(nodes, Current(open), t, nodes')
    BY <1>8, <2>1, <2>2 DEF Text
  <2> HIDE DEF r
  <2>4. Tree(nodes', items) /\ CutTree(nodes', items, e, r + 1)
    <3>1. doc[r + 1].is = "text" /\ t \in ShortTexts[doc[r + 1].of]
      BY <1>5, <2>2
    <3> QED BY <1>3, <1>4, <1>5, <1>6, <2>1, <2>3, <3>1, TextIsCut
  <2>5. EnoughAt(items, e, r)
    BY <1>4, <1>5, <1>6, <2>1, ExactIsEnough
  <2>6. Enough(items, arrival)
    <3>1. r = arrival.at - 1
      BY <1>4, <1>5, <2>1
    <3> QED BY <2>5, <3>1, EnoughBefore DEF e
  <2>7. Outcome(nodes', items, arrival)
    BY <1>5, <2>1, <2>4, <2>6 DEF Outcome, e
  <2>8. p' = Len(collected') + 1 /\ arrival'.damage = "cut" /\ Outcome(nodes', items, arrival')
    BY <1>1, <2>1, <2>7
  <2> QED BY <2>4, <2>8 DEF Parsing
<1>11. CASE BehindTheGap(items)
  <2>1. /\ arrival.damage = "drop" /\ p >= arrival.at /\ p < Len(doc) /\ collected[p] = doc[p + 1]
        /\ Enough(items, arrival) /\ AllFaithful(nodes, items, e)
        /\ WeakAt(nodes, open, items, e, p)
    BY <1>11 DEF BehindTheGap, e
  <2>2. /\ doc[p + 1].is = "text"
        /\ nodes' = nodes \/ Texted(nodes, Current(open), doc[p + 1].of, nodes')
    BY <1>1, <1>2, <2>1
  <2>3. /\ Tree(nodes', items) /\ AllFaithful(nodes', items, e)
        /\ WeakAt(nodes', open, items, e, p + 1)
    BY <1>3, <1>4, <1>5, <1>6, <2>1, <2>2, WeakReadsText
  <2>4. p' >= arrival'.at
    BY <1>1, <1>4, <1>5, <2>1
  <2>5. /\ arrival'.damage = "drop" /\ Enough(items, arrival')
        /\ AllFaithful(nodes', items, arrival'.edition)
        /\ WeakAt(nodes', open', items, arrival'.edition, p')
    BY <1>1, <2>1, <2>3 DEF e
  <2> QED BY <2>3, <2>4, <2>5 DEF Parsing
<1> QED BY <1>7, <1>9, <1>10, <1>11

LEMMA ReadEndTagParses ==
  ASSUME TInv, Gathered(collected, arrival), NEW items, Parsing(items), ReadEndTag
  PROVE  Parsing(items)'
<1> DEFINE e == arrival.edition
           r == p - 1
<1>1. /\ p \in DOMAIN collected /\ collected[p].is = "end" /\ p' = p + 1
      /\ open # <<>> /\ collected[p].of = nodes[current].tag /\ open' = Front(open)
      /\ arrival' = arrival /\ collected' = collected /\ nodes' = nodes
  BY DEF ReadEndTag, Reading
<1>2. open \in Seq(Nat) /\ current = Current(open)
  BY OpenIs
<1>3. /\ e \in Seq(Seq(Field)) /\ Layout(doc, e) /\ arrival.at \in Nat
  BY ArrivalParts
<1>4. p \in Nat /\ p >= 1 /\ r \in Nat /\ r + 1 = p /\ p + 1 - 1 = p
  BY CollectedAre
<1>5. Tree(nodes, items)
  BY DEF Parsing
<1>6. Sound(items) \/ AtTheCut(items) \/ BehindTheGap(items)
  BY <1>1, ParsingCases
<1> HIDE DEF e
<1>7. CASE Sound(items)
  <2>1. r < Len(doc) /\ ExactAt(nodes, open, items, e, r) /\ collected[p] = doc[p] /\ p < arrival.at
    BY <1>7 DEF Sound, e
  <2> HIDE DEF r
  <2>2. doc[r + 1].is = "end"
    BY <1>1, <1>4, <2>1
  <2>3. ExactAt(nodes, Front(open), items, e, r + 1)
    BY <1>2, <1>3, <1>4, <1>5, <2>1, <2>2, ExactReadsEnd
  <2>4. /\ ExactAt(nodes', open', items, arrival'.edition, p' - 1) /\ p' <= arrival'.at
    BY <1>1, <1>3, <1>4, <2>1, <2>3 DEF e
  <2> QED BY <1>1, <1>5, <2>4 DEF Parsing
<1>8. ~AtTheCut(items)
  BY <1>1, SymbolIs DEF AtTheCut
<1>9. CASE BehindTheGap(items)
  <2>1. /\ arrival.damage = "drop" /\ p >= arrival.at /\ p < Len(doc) /\ collected[p] = doc[p + 1]
        /\ Enough(items, arrival) /\ AllFaithful(nodes, items, e)
        /\ WeakAt(nodes, open, items, e, p)
    BY <1>9 DEF BehindTheGap, e
  <2>2. doc[p + 1].is = "end" /\ doc[p + 1].of = nodes[Current(open)].tag
    BY <1>1, <1>2, <2>1
  <2>3. WeakAt(nodes, Front(open), items, e, p + 1)
    BY <1>1, <1>2, <1>3, <1>4, <1>5, <2>1, <2>2, WeakReadsEnd
  <2>4. p' >= arrival'.at
    BY <1>1, <1>3, <1>4, <2>1
  <2>5. /\ arrival'.damage = "drop" /\ Enough(items, arrival')
        /\ AllFaithful(nodes', items, arrival'.edition)
        /\ WeakAt(nodes', open', items, arrival'.edition, p')
    BY <1>1, <2>1, <2>3 DEF e
  <2> QED BY <1>1, <1>5, <2>4, <2>5 DEF Parsing
<1> QED BY <1>6, <1>7, <1>8, <1>9

\* Only a gap makes Parse meet a wrong end tag.
LEMMA WrongEndTagEnds ==
  ASSUME TInv, Gathered(collected, arrival), NEW items, Parsing(items), WrongEndTag
  PROVE  Outcome(nodes, items, arrival)
<1> DEFINE e == arrival.edition
           r == p - 1
<1>1. /\ p \in DOMAIN collected /\ collected[p].is = "end"
      /\ open = <<>> \/ collected[p].of # nodes[current].tag
  BY DEF WrongEndTag, Reading
<1>2. open \in Seq(Nat) /\ current = Current(open)
  BY OpenIs
<1>3. /\ e \in Seq(Seq(Field)) /\ Layout(doc, e)
  BY ArrivalParts
<1>4. r \in Nat /\ r + 1 = p
  BY CollectedAre
<1>5. Tree(nodes, items)
  BY DEF Parsing
<1>6. Sound(items) \/ AtTheCut(items) \/ BehindTheGap(items)
  BY <1>1, ParsingCases
<1> HIDE DEF e
<1>7. ~Sound(items)
  <2> SUFFICES ASSUME Sound(items) PROVE FALSE
    OBVIOUS
  <2>1. r < Len(doc) /\ ExactAt(nodes, open, items, e, r) /\ collected[p] = doc[p]
    BY DEF Sound, e
  <2> HIDE DEF r
  <2>2. doc[r + 1].is = "end"
    BY <1>1, <1>4, <2>1
  <2>3. open # <<>> /\ nodes[Current(open)].tag = doc[r + 1].of
    BY <1>2, <1>3, <1>4, <1>5, <2>1, <2>2, ExactReadsEnd
  <2> QED BY <1>1, <1>2, <1>4, <2>1, <2>3
<1>8. ~AtTheCut(items)
  BY <1>1, SymbolIs DEF AtTheCut
<1>9. BehindTheGap(items)
  BY <1>6, <1>7, <1>8
<1> QED BY <1>9 DEF BehindTheGap, Outcome

LEMMA EndOfTextEnds ==
  ASSUME TInv, Gathered(collected, arrival), NEW items, Parsing(items), EndOfText
  PROVE  Outcome(nodes, items, arrival)
<1> DEFINE e == arrival.edition
           r == p - 1
<1>1. p \notin DOMAIN collected
  BY DEF EndOfText
<1>2. /\ p = Len(collected) + 1 /\ p \in Nat /\ r \in Nat /\ r + 1 = p
      /\ Len(collected) \in Nat /\ Len(collected) >= arrival.at - 1
      /\ arrival.damage # "drop" => Len(collected) = Len(arrival.symbols)
  BY <1>1, CollectedAre, ArrivalParts
<1>3. /\ e \in Seq(Seq(Field)) /\ Layout(doc, e) /\ arrival.at \in Nat /\ Len(doc) \in Nat
      /\ Whole(arrival, doc) \/ CutOff(arrival, doc) \/ Dropped(arrival, doc)
  BY ArrivalParts
<1>4. Tree(nodes, items)
  BY DEF Parsing
<1> HIDE DEF e
<1>5. CASE p <= arrival.at /\ ExactAt(nodes, open, items, e, r)
  <2>1. p = arrival.at /\ r = arrival.at - 1
    BY <1>2, <1>3, <1>5
  <2> HIDE DEF r
  <2>2. EnoughAt(items, e, r) /\ AllFaithful(nodes, items, e)
    BY <1>2, <1>3, <1>4, <1>5, ExactIsEnough, ExactIsFaithful
  <2>3. Enough(items, arrival)
    BY <2>1, <2>2, EnoughBefore DEF e
  <2>4. CutTree(nodes, items, e, r + 1)
    BY <1>2, <1>3, <1>4, <1>5, ExactIsCut
  <2>5. CASE Whole(arrival, doc)
    <3>1. r = Len(doc) /\ arrival.damage = "none"
      BY <1>3, <2>1, <2>5 DEF Whole
    <3>2. Len(items) = Len(e) /\ CompleteUpTo(nodes, items, e, Len(e))
      BY <1>2, <1>3, <1>4, <1>5, <3>1, ExactAtTheEnd
    <3> QED BY <3>1, <3>2 DEF Outcome, e
  <2>6. CASE CutOff(arrival, doc)
    BY <1>2, <2>1, <2>3, <2>4, <2>6 DEF Outcome, CutOff, e
  <2>7. CASE Dropped(arrival, doc)
    BY <2>2, <2>3, <2>7 DEF Outcome, Dropped, e
  <2> QED BY <1>3, <2>5, <2>6, <2>7
<1>6. CASE arrival.damage = "cut" /\ Outcome(nodes, items, arrival)
  BY <1>6
<1>7. CASE arrival.damage = "drop" /\ Enough(items, arrival) /\ AllFaithful(nodes, items, e)
  BY <1>7 DEF Outcome, e
<1> QED BY <1>5, <1>6, <1>7 DEF Parsing, e

-----------------------------------------------------------------------------
(* xml_feed_visitor visits the tree *)

LEMMA SameNames ==
  ASSUME nodes' = nodes
  PROVE  /\ \A n : ChildrenOf(n)' = ChildrenOf(n)
         /\ \A n, name : Named(n, name)' = Named(n, name) /\ GetText(n, name)' = GetText(n, name)
  BY DEF ChildrenOf, Named, GetText

\* Before the first item.
LEMMA NothingHandedOn ==
  ASSUME NEW items, Tree(nodes, items), feed_items = <<>>, visited = 0, stage \notin Ended
  PROVE  HandedOn(items)
<1>1. Len(items) \in Nat /\ \A k \in 1 .. Len(items) : items[k].at >= 1
  <2>1. \A k \in 1 .. Len(items) : items[k].at \in 1 .. Len(nodes)
    BY DEF Tree
  <2> QED BY <2>1, ItemRecords
<1>2. Len(feed_items) = 0
  OBVIOUS
<1>3. \A k \in 1 .. Len(items) : items[k].at <= visited <=> k <= Len(feed_items)
  BY <1>1, <1>2, ItemRecords
<1> QED BY <1>1, <1>2, <1>3 DEF HandedOn, Ended

\* The item the visitor has come to is the one behind those it has handed on.
LEMMA NextItem ==
  ASSUME NEW ns, NEW items, Tree(ns, items), NEW v \in Nat, NEW n \in Nat, n <= Len(items),
         \A k \in 1 .. Len(items) : items[k].at <= v <=> k <= n,
         v + 1 \in 1 .. Len(ns), ns[v + 1].tag = "item"
  PROVE  /\ n + 1 \in 1 .. Len(items) /\ items[n + 1].at = v + 1
         /\ \A k \in 1 .. Len(items) : items[k].at <= v + 1 <=> k <= n + 1
<1>1. Len(items) \in Nat /\ \A k \in 1 .. Len(items) : items[k].at \in Nat /\ items[k].fields \in Nat
  BY ItemRecords
<1>2. \A k, l \in 1 .. Len(items) : k < l => items[k].at < items[l].at
  <2> TAKE k, l \in 1 .. Len(items)
  <2>1. k < l => items[k].at + items[k].fields < items[l].at
    BY DEF Tree
  <2>2. items[k].at \in Nat /\ items[k].fields \in Nat /\ items[l].at \in Nat
    BY <1>1
  <2> DEFINE a == items[k].at
             f == items[k].fields
             b == items[l].at
  <2>3. a \in Nat /\ f \in Nat /\ b \in Nat /\ (k < l => a + f < b)
    BY <2>1, <2>2
  <2> HIDE DEF a, f, b
  <2>4. k < l => a < b
    BY <2>3
  <2> QED BY <2>4 DEF a, b
<1>3. PICK k \in 1 .. Len(items) : items[k].at = v + 1
  BY DEF Tree
<1>4. k > n
  BY <1>1, <1>3
<1>5. ~(k > n + 1)
  <2> SUFFICES ASSUME k > n + 1 PROVE FALSE
    OBVIOUS
  <2> DEFINE l == n + 1
  <2>1. l \in 1 .. Len(items) /\ l < k /\ ~(l <= n)
    BY <1>1
  <2> HIDE DEF l
  <2>2. items[l].at < v + 1 /\ items[l].at \in Nat
    BY <1>1, <1>2, <1>3, <2>1
  <2>3. items[l].at <= v
    BY <2>2
  <2> QED BY <2>1, <2>3
<1>6. k = n + 1
  BY <1>1, <1>4, <1>5
<1>7. ASSUME NEW l \in 1 .. Len(items) PROVE items[l].at <= v + 1 <=> l <= n + 1
  <2>1. items[l].at \in Nat /\ (items[l].at # v + 1 \/ l = k)
    BY <1>1, <1>2, <1>3
  <2>2. CASE l = k
    BY <1>3, <1>6, <2>2
  <2>3. CASE l # k
    <3>1. items[l].at <= v + 1 <=> items[l].at <= v
      BY <1>1, <2>1, <2>3
    <3>2. l <= n + 1 <=> l <= n
      BY <1>6, <2>3
    <3> QED BY <3>1, <3>2
  <2> QED BY <2>2, <2>3
<1> QED BY <1>3, <1>6, <1>7

LEMMA AtAnItem ==
  ASSUME TInv, NEW items, Visited(items), stage = "visit", AtItem
  PROVE  LET n == Len(feed_items) + 1
         IN /\ n \in 1 .. Len(items) /\ items[n].at = here /\ here = visited + 1
            /\ \A k \in 1 .. Len(items) : items[k].at <= here <=> k <= n
<1>1. /\ Tree(nodes, items) /\ Len(feed_items) <= Len(items)
      /\ \A k \in 1 .. Len(items) : items[k].at <= visited <=> k <= Len(feed_items)
  BY DEF Visited, HandedOn
<1>2. /\ visited \in Nat /\ visited + 1 \in 1 .. Len(nodes) /\ nodes[visited + 1].tag = "item"
      /\ here = visited + 1
  BY CurrentIs DEF AtItem, Visiting, here, TInv, TypeOK
<1>3. Len(feed_items) \in Nat
  BY DEF TInv, TypeOK
<1>4. /\ Len(feed_items) + 1 \in 1 .. Len(items) /\ items[Len(feed_items) + 1].at = visited + 1
      /\ \A k \in 1 .. Len(items) : items[k].at <= visited + 1 <=> k <= Len(feed_items) + 1
  BY <1>1, <1>2, <1>3, NextItem
<1> QED BY <1>2, <1>4

LEMMA VisitOtherHandsOn ==
  ASSUME TInv, NEW items, Visited(items), VisitOther
  PROVE  Visited(items)'
<1>1. /\ stage = "visit" /\ here \in DOMAIN nodes /\ nodes[here].tag # "item" /\ visited' = here
      /\ arrival' = arrival /\ stage' = stage /\ nodes' = nodes /\ feed_items' = feed_items
  BY DEF VisitOther, Visiting, parseVars
<1>2. /\ Tree(nodes, items) /\ Outcome(nodes, items, arrival) /\ HandedOn(items)
  BY DEF Visited
<1>3. visited \in Nat /\ here = visited + 1
  BY DEF TInv, TypeOK, here
<1>4. \A k \in 1 .. Len(items) : items[k].at \in Nat /\ items[k].at # here
  BY <1>1, <1>2, ItemRecords DEF Tree
<1>5. \A k \in 1 .. Len(items) : items[k].at <= visited <=> items[k].at <= here
  BY <1>3, <1>4
<1>6. \A n, name : Named(n, name)' = Named(n, name) /\ GetText(n, name)' = GetText(n, name)
  BY <1>1, SameNames
<1>7. HandedOn(items)'
  BY <1>1, <1>2, <1>5, <1>6 DEF HandedOn
<1> QED BY <1>1, <1>2, <1>7 DEF Visited

LEMMA VisitItemHandsOn ==
  ASSUME TInv, NEW items, Visited(items), VisitItem
  PROVE  Visited(items)'
<1> DEFINE n == Len(feed_items) + 1
           new == [title |-> GetText(here, "title"), link |-> GetText(here, "link")]
<1>1. /\ stage = "visit" /\ AtItem /\ visited' = here /\ feed_items' = Append(feed_items, new)
      /\ Named(here, "title") # {} /\ Named(here, "link") # {}
      /\ arrival' = arrival /\ stage' = stage /\ nodes' = nodes
  BY DEF VisitItem, AtItem, Visiting, parseVars, PushBack, Has, Missing
<1>2. /\ Tree(nodes, items) /\ Outcome(nodes, items, arrival) /\ HandedOn(items)
  BY DEF Visited
<1>3. /\ n \in 1 .. Len(items) /\ items[n].at = here
      /\ \A k \in 1 .. Len(items) : items[k].at <= here <=> k <= n
  BY <1>1, AtAnItem
<1>4. /\ Len(feed_items') = n /\ feed_items'[n] = new /\ Len(feed_items) \in Nat
      /\ \A k \in 1 .. Len(feed_items) : feed_items'[k] = feed_items[k]
  <2>1. feed_items \in Seq([title : Texts, link : Texts])
    BY DEF TInv, TypeOK
  <2>2. feed_items' \in Seq([title : Texts, link : Texts])
    BY VisitItemTyped DEF TInv, TypeOK
  <2> HIDE DEF new
  <2> QED BY <1>1, <2>1
<1>5. \A m, name : Named(m, name)' = Named(m, name) /\ GetText(m, name)' = GetText(m, name)
  BY <1>1, SameNames
<1>6. ASSUME NEW k \in 1 .. n
      PROVE  /\ Named(items[k].at, "title") # {} /\ Named(items[k].at, "link") # {}
             /\ feed_items'[k].title = GetText(items[k].at, "title")
             /\ feed_items'[k].link = GetText(items[k].at, "link")
  <2>1. CASE k = n
    <3>1. feed_items'[n].title = GetText(here, "title") /\ feed_items'[n].link = GetText(here, "link")
      BY <1>4
    <3> QED BY <1>1, <1>3, <2>1, <3>1
  <2>2. CASE k # n
    <3>1. k \in 1 .. Len(feed_items)
      BY <1>4, <2>2
    <3> QED BY <1>2, <1>4, <3>1 DEF HandedOn
  <2> QED BY <2>1, <2>2
<1>7. Len(feed_items') <= Len(items)
  BY <1>3, <1>4
<1> HIDE DEF n, new
<1>8. HandedOn(items)'
  <2>1. stage' # "done" /\ stage' \notin {"thrown", "crashed"}
    BY <1>1
  <2>2. \A k \in 1 .. Len(items) : items[k].at <= visited' <=> k <= Len(feed_items')
    BY <1>1, <1>3, <1>4
  <2>3. \A k \in 1 .. Len(feed_items') :
          /\ Named(items[k].at, "title")' # {} /\ feed_items'[k].title = GetText(items[k].at, "title")'
          /\ Named(items[k].at, "link")' # {} /\ feed_items'[k].link = GetText(items[k].at, "link")'
    BY <1>4, <1>5, <1>6
  <2> QED BY <1>7, <2>1, <2>2, <2>3 DEF HandedOn
<1> QED BY <1>1, <1>2, <1>8 DEF Visited

\* VisitEnds, VisitThrows and VisitCrashes.
LEMMA VisitStops ==
  ASSUME TInv, NEW items, Visited(items), stage = "visit",
         VisitEnds \/ VisitThrows \/ VisitCrashes
  PROVE  Visited(items)'
<1>1. /\ arrival' = arrival /\ nodes' = nodes /\ feed_items' = feed_items /\ visited' = visited
  BY DEF VisitEnds, VisitThrows, VisitCrashes, parseVars, visitVars
<1>2. /\ Tree(nodes, items) /\ Outcome(nodes, items, arrival) /\ HandedOn(items)
  BY DEF Visited
<1>3. \A n, name : Named(n, name)' = Named(n, name) /\ GetText(n, name)' = GetText(n, name)
  BY <1>1, SameNames
<1>4. stage' = "done" => visited = Len(nodes)
  <2> SUFFICES ASSUME stage' = "done" PROVE visited = Len(nodes)
    OBVIOUS
  <2>1. visited + 1 \notin DOMAIN nodes
    BY DEF VisitEnds, VisitThrows, VisitCrashes, here
  <2>2. visited \in 0 .. Len(nodes)
    BY DEF TInv, TypeOK
  <2>3. DOMAIN nodes = 1 .. Len(nodes) /\ Len(nodes) \in Nat
    BY CurrentIs
  <2>4. visited + 1 \notin 1 .. Len(nodes)
    BY <2>1, <2>3
  <2>5. Len(nodes) \in Nat
    BY <2>3
  <2> QED BY <2>2, <2>4, <2>5
<1>5. stage' \in {"thrown", "crashed"} =>
        /\ \E k \in 1 .. Len(items) : items[k].at = visited + 1
        /\ \E name \in {"title", "link"} :
             Named(visited + 1, name) = {} \/ GetText(visited + 1, name) = NoText
  <2> SUFFICES ASSUME stage' \in {"thrown", "crashed"}
               PROVE  /\ \E k \in 1 .. Len(items) : items[k].at = visited + 1
                      /\ \E name \in {"title", "link"} :
                           Named(visited + 1, name) = {} \/ GetText(visited + 1, name) = NoText
    OBVIOUS
  <2>1. AtItem /\ (VisitThrows \/ VisitCrashes)
    BY DEF VisitEnds, VisitThrows, VisitCrashes
  <2>2. \E k \in 1 .. Len(items) : items[k].at = visited + 1
    BY <2>1, AtAnItem
  <2>3. \E name \in {"title", "link"} :
          Named(visited + 1, name) = {} \/ GetText(visited + 1, name) = NoText
    BY <2>1 DEF VisitThrows, VisitCrashes, Missing, Empty, here
  <2> QED BY <2>2, <2>3
<1>6. HandedOn(items)'
  BY <1>1, <1>2, <1>3, <1>4, <1>5 DEF HandedOn
<1> QED BY <1>1, <1>2, <1>6 DEF Visited

-----------------------------------------------------------------------------
(* The inductive invariant *)

LEMMA StreamInParses ==
  ASSUME TInv, TInv', StreamIn
  PROVE  Gathered(collected, arrival)' /\ Parsing(<<>>)'
<1>1. /\ collected' = Collected(arrival.symbols) /\ arrival' = arrival /\ stage = "stream"
      /\ p' = p /\ nodes' = nodes /\ open' = open
  BY DEF StreamIn
<1>2. p = 1 /\ nodes = <<>> /\ open = <<>>
  BY <1>1 DEF TInv, NothingRead
<1>3. arrival \in Arrivals /\ arrival.at \in Nat /\ arrival.at >= 1
  BY ArrivalParts DEF TInv, TypeOK
<1>4. Gathered(collected', arrival)
  BY <1>1, <1>3, CollectedIsGathered
<1>5. Gathered(collected, arrival)'
  BY <1>1, <1>4 DEF Gathered
<1>6. Tree(<<>>, <<>>)
  <2>1. <<>> \in Seq([at : Nat, fields : Nat])
    BY EmptySeq
  <2>2. 1 .. Len(<<>>) = {}
    OBVIOUS
  <2> QED BY <2>1, <2>2 DEF Tree
<1>7. ExactAt(<<>>, <<>>, <<>>, arrival.edition, 0)
  <2>1. IsStack(<<>>, 0, 0, 0)
    BY DEF IsStack
  <2> QED BY <2>1 DEF ExactAt
<1>8. Parsing(<<>>)'
  <2>1. p' - 1 = 0 /\ p' <= arrival.at
    BY <1>1, <1>2, <1>3
  <2> QED BY <1>1, <1>2, <1>6, <1>7, <2>1 DEF Parsing
<1> QED BY <1>5, <1>8

LEMMA ParsingKept ==
  ASSUME IInv, TInv', stage = "parse", stage' = "parse",
         collected' = collected, arrival' = arrival, visited' = visited, feed_items' = feed_items,
         \A items : Parsing(items) => \E items2 : Parsing(items2)'
  PROVE  IInv'
<1>1. Gathered(collected, arrival) /\ (\E items : Parsing(items)) /\ feed_items = <<>> /\ visited = 0
  BY DEF IInv
<1>2. Gathered(collected, arrival)'
  BY <1>1 DEF Gathered
<1>3. \E items2 : Parsing(items2)'
  BY <1>1
<1>4. stage' # "stream" /\ stage' \notin {"visit"} \cup Ended
  BY DEF Ended
<1> QED BY <1>1, <1>2, <1>3, <1>4 DEF IInv

LEMMA ParsingEnded ==
  ASSUME IInv, TInv', stage = "parse", stage' = "visit",
         collected' = collected, arrival' = arrival, nodes' = nodes,
         visited' = visited, feed_items' = feed_items,
         \A items : Parsing(items) => Outcome(nodes, items, arrival)
  PROVE  IInv'
<1>1. /\ Gathered(collected, arrival) /\ feed_items = <<>> /\ visited = 0
  BY DEF IInv
<1>2. PICK items : Parsing(items)
  BY DEF IInv
<1>3. Tree(nodes, items) /\ Outcome(nodes, items, arrival)
  BY <1>2 DEF Parsing
<1>4. HandedOn(items)
  BY <1>1, <1>3, NothingHandedOn DEF Ended
<1>5. HandedOn(items)'
  <2>1. \A n, name : Named(n, name)' = Named(n, name) /\ GetText(n, name)' = GetText(n, name)
    BY SameNames
  <2> QED BY <1>4, <2>1 DEF HandedOn
<1>6. Visited(items)'
  BY <1>3, <1>5 DEF Visited
<1>7. Gathered(collected, arrival)'
  BY <1>1 DEF Gathered
<1> QED BY <1>6, <1>7 DEF IInv

LEMMA VisitedKept ==
  ASSUME IInv, TInv', stage = "visit", stage' \in {"visit"} \cup Ended,
         collected' = collected, arrival' = arrival,
         \A items : Visited(items) => Visited(items)'
  PROVE  IInv'
<1>1. Gathered(collected, arrival) /\ \E items : Visited(items)
  BY DEF IInv
<1>2. Gathered(collected, arrival)'
  BY <1>1 DEF Gathered
<1>3. (\E items : Visited(items))'
  BY <1>1
<1>4. stage' # "parse"
  BY DEF Ended
<1> QED BY <1>2, <1>3, <1>4 DEF IInv

LEMMA StaysInvariant == ASSUME IInv, [Next]_vars PROVE IInv'
<1>1. TInv /\ TInv'
  BY StaysTyped DEF IInv
<1>2. CASE StreamIn
  <2>1. Gathered(collected, arrival)' /\ Parsing(<<>>)'
    BY <1>1, <1>2, StreamInParses
  <2>2. stage' = "parse" /\ feed_items' = <<>> /\ visited' = 0
    BY <1>1, <1>2 DEF StreamIn, visitVars, TInv, NothingRead
  <2>3. \E items : Parsing(items)'
    BY <2>1
  <2>4. stage' \notin {"visit"} \cup Ended
    BY <2>2 DEF Ended
  <2> QED BY <1>1, <2>1, <2>2, <2>3, <2>4 DEF IInv
<1>3. CASE ReadElement
  <2>1. /\ stage = "parse" /\ stage' = "parse" /\ collected' = collected /\ arrival' = arrival
        /\ visited' = visited /\ feed_items' = feed_items
    BY <1>3 DEF ReadElement, Reading, visitVars
  <2>2. Gathered(collected, arrival)
    BY <2>1 DEF IInv
  <2>3. \A items : Parsing(items) => \E items2 : Parsing(items2)'
    BY <1>1, <1>3, <2>2, ReadElementParses
  <2> QED BY <1>1, <2>1, <2>3, ParsingKept
<1>4. CASE ReadText
  <2>1. /\ stage = "parse" /\ stage' = "parse" /\ collected' = collected /\ arrival' = arrival
        /\ visited' = visited /\ feed_items' = feed_items
    BY <1>4 DEF ReadText, Reading, visitVars
  <2>2. Gathered(collected, arrival)
    BY <2>1 DEF IInv
  <2>3. \A items : Parsing(items) => \E items2 : Parsing(items2)'
    BY <1>1, <1>4, <2>2, ReadTextParses
  <2> QED BY <1>1, <2>1, <2>3, ParsingKept
<1>5. CASE ReadEndTag
  <2>1. /\ stage = "parse" /\ stage' = "parse" /\ collected' = collected /\ arrival' = arrival
        /\ visited' = visited /\ feed_items' = feed_items
    BY <1>5 DEF ReadEndTag, Reading, visitVars
  <2>2. Gathered(collected, arrival)
    BY <2>1 DEF IInv
  <2>3. \A items : Parsing(items) => \E items2 : Parsing(items2)'
    BY <1>1, <1>5, <2>2, ReadEndTagParses
  <2> QED BY <1>1, <2>1, <2>3, ParsingKept
<1>6. CASE WrongEndTag
  <2>1. /\ stage = "parse" /\ stage' = "visit" /\ collected' = collected /\ arrival' = arrival
        /\ nodes' = nodes /\ visited' = visited /\ feed_items' = feed_items
    BY <1>6 DEF WrongEndTag, Reading, parseVars, visitVars
  <2>2. Gathered(collected, arrival)
    BY <2>1 DEF IInv
  <2>3. \A items : Parsing(items) => Outcome(nodes, items, arrival)
    BY <1>1, <1>6, <2>2, WrongEndTagEnds
  <2> QED BY <1>1, <2>1, <2>3, ParsingEnded
<1>7. CASE EndOfText
  <2>1. /\ stage = "parse" /\ stage' = "visit" /\ collected' = collected /\ arrival' = arrival
        /\ nodes' = nodes /\ visited' = visited /\ feed_items' = feed_items
    BY <1>7 DEF EndOfText, parseVars, visitVars
  <2>2. Gathered(collected, arrival)
    BY <2>1 DEF IInv
  <2>3. \A items : Parsing(items) => Outcome(nodes, items, arrival)
    BY <1>1, <1>7, <2>2, EndOfTextEnds
  <2> QED BY <1>1, <2>1, <2>3, ParsingEnded
<1>8. CASE VisitOther
  <2>1. /\ stage = "visit" /\ stage' = "visit" /\ collected' = collected /\ arrival' = arrival
    BY <1>8 DEF VisitOther, Visiting, parseVars
  <2>2. \A items : Visited(items) => Visited(items)'
    BY <1>1, <1>8, VisitOtherHandsOn
  <2> QED BY <1>1, <2>1, <2>2, VisitedKept
<1>9. CASE VisitItem
  <2>1. /\ stage = "visit" /\ stage' = "visit" /\ collected' = collected /\ arrival' = arrival
    BY <1>9 DEF VisitItem, AtItem, Visiting, parseVars
  <2>2. \A items : Visited(items) => Visited(items)'
    BY <1>1, <1>9, VisitItemHandsOn
  <2> QED BY <1>1, <2>1, <2>2, VisitedKept
<1>10. CASE VisitEnds \/ VisitThrows \/ VisitCrashes
  <2>1. /\ stage = "visit" /\ stage' \in {"visit"} \cup Ended
        /\ collected' = collected /\ arrival' = arrival
    BY <1>10 DEF VisitEnds, VisitThrows, VisitCrashes, AtItem, Visiting, parseVars, Ended
  <2>2. \A items : Visited(items) => Visited(items)'
    BY <1>1, <1>10, <2>1, VisitStops
  <2> QED BY <1>1, <2>1, <2>2, VisitedKept
<1>11. CASE NextDownload
  <2>1. stage' = "stream"
    BY <1>11 DEF NextDownload
  <2>2. stage' # "parse" /\ stage' \notin {"visit"} \cup Ended
    BY <2>1 DEF Ended
  <2> QED BY <1>1, <2>1, <2>2 DEF IInv
<1>12. CASE UNCHANGED vars
  <2>1. /\ arrival' = arrival /\ stage' = stage /\ collected' = collected /\ p' = p
        /\ nodes' = nodes /\ open' = open /\ visited' = visited /\ feed_items' = feed_items
    BY <1>12 DEF vars, parseVars, visitVars
  <2>2. Gathered(collected, arrival)' <=> Gathered(collected, arrival)
    BY <2>1 DEF Gathered
  <2>3. \A items : Parsing(items)' <=> Parsing(items)
    BY <2>1 DEF Parsing
  <2>4. \A n, name : Named(n, name)' = Named(n, name) /\ GetText(n, name)' = GetText(n, name)
    BY <2>1, SameNames
  <2>5. \A items : HandedOn(items)' <=> HandedOn(items)
    BY <2>1, <2>4 DEF HandedOn
  <2>6. \A items : Visited(items)' <=> Visited(items)
    BY <2>1, <2>5 DEF Visited
  <2>7. stage' # "stream" => Gathered(collected, arrival)'
    BY <2>1, <2>2 DEF IInv
  <2>8. stage' = "parse" => (\E items : Parsing(items)') /\ feed_items' = <<>> /\ visited' = 0
    BY <2>1, <2>3 DEF IInv
  <2>9. stage' \in {"visit"} \cup Ended => \E items : Visited(items)'
    BY <2>1, <2>6 DEF IInv
  <2> QED BY <1>1, <2>7, <2>8, <2>9 DEF IInv
<1> QED BY <1>2, <1>3, <1>4, <1>5, <1>6, <1>7, <1>8, <1>9, <1>10, <1>11, <1>12
        DEF Next, Parse, Visit

\* Before the damage the tree and the open elements are those of the document up
\* to the symbol Parse is at; behind a missing symbol the items of the tree are
\* still the first ones of the feed, with no field made up; and the visitor hands
\* on the items it has passed, in order.
THEOREM ReadAsFarAsItGoes == Spec => []IInv
<1>1. Init => IInv
  <2> SUFFICES ASSUME Init PROVE IInv
    OBVIOUS
  <2>1. TInv
    BY InitTyped
  <2>2. stage = "stream"
    BY DEF Init, NothingRead
  <2> QED BY <2>1, <2>2 DEF IInv, Ended
<1>2. IInv /\ [Next]_vars => IInv'
  BY StaysInvariant
<1> QED BY <1>1, <1>2, PTL DEF Spec

-----------------------------------------------------------------------------
(* What is handed on is what was published *)

IsFirst(item, name, m) ==
  m \in 1 .. Len(item) /\ item[m].tag = name /\ \A n \in 1 .. m - 1 : item[n].tag # name

LEMMA FirstTextIs ==
  ASSUME NEW item \in Seq(Field), NEW name, NEW otherwise
  PROVE  /\ (\A m \in 1 .. Len(item) : item[m].tag # name) =>
              FirstText(item, name, otherwise) = otherwise
         /\ \A m : IsFirst(item, name, m) => FirstText(item, name, otherwise) = item[m].text
         /\ FirstText(item, name, otherwise) \in Texts \cup {otherwise}
<1> DEFINE I == {m \in 1 .. Len(item) : item[m].tag = name}
           s == SelectInSeq(item, LAMBDA f : f.tag = name)
<1>1. s = IF I # {} THEN Min(I) ELSE 0
  BY Zenon DEF SelectInSeq
<1>2. FirstText(item, name, otherwise) = IF s = 0 THEN otherwise ELSE item[s].text
  BY Zenon DEF FirstText
<1> HIDE DEF s
<1>3. Len(item) \in Nat /\ I \subseteq Nat
  OBVIOUS
<1>4. I # {} => Min(I) \in I /\ \A m \in I : Min(I) <= m
  BY <1>3, LeastIsMin
<1>5. ASSUME NEW m, IsFirst(item, name, m) PROVE s = m /\ s # 0
  <2>1. m \in I /\ m \in Nat /\ m # 0
    BY <1>5 DEF IsFirst
  <2>2. s \in I /\ s <= m
    BY <1>1, <1>4, <2>1
  <2>3. ~(s \in 1 .. m - 1)
    BY <1>5, <2>2 DEF IsFirst
  <2>4. s \in Nat /\ s >= 1
    BY <1>3, <2>2
  <2> QED BY <2>1, <2>2, <2>3, <2>4
<1>6. (\A m \in 1 .. Len(item) : item[m].tag # name) => s = 0
  BY <1>1
<1>7. s # 0 => item[s].text \in Texts
  <2>1. s # 0 => s \in 1 .. Len(item)
    BY <1>1, <1>4
  <2>2. s # 0 => item[s] \in Field
    BY <2>1, ElementOf
  <2> QED BY <2>2, FieldParts
<1> QED BY <1>2, <1>5, <1>6, <1>7

LEMMA PublishedIs ==
  ASSUME TInv
  PROVE  /\ Len(published) = Len(arrival.edition) /\ DOMAIN published = 1 .. Len(arrival.edition)
         /\ published \in Seq([title : Texts \cup {NoTitle}, link : Texts \cup {"none"}])
         /\ \A k \in 1 .. Len(arrival.edition) :
              published[k] = [title |-> FirstText(arrival.edition[k], "title", NoTitle),
                              link |-> FirstText(arrival.edition[k], "link", "none")]
<1> DEFINE e == arrival.edition
           Item == [title : Texts \cup {NoTitle}, link : Texts \cup {"none"}]
           item(k) == [title |-> FirstText(e[k], "title", NoTitle),
                       link |-> FirstText(e[k], "link", "none")]
<1>1. e \in Seq(Seq(Field)) /\ Len(e) \in Nat /\ DOMAIN e = 1 .. Len(e)
  BY ArrivalParts
<1>2. published = [k \in 1 .. Len(e) |-> item(k)]
  BY <1>1 DEF published, Published
<1> HIDE DEF e
<1>3. \A k \in 1 .. Len(e) : item(k) \in Item
  <2> TAKE k \in 1 .. Len(e)
  <2>1. e[k] \in Seq(Field)
    BY <1>1, ElementOf
  <2>2. /\ FirstText(e[k], "title", NoTitle) \in Texts \cup {NoTitle}
        /\ FirstText(e[k], "link", "none") \in Texts \cup {"none"}
    BY <2>1, FirstTextIs
  <2> QED BY <2>2
<1> HIDE DEF item
<1>4. \A k \in 1 .. Len(e) : published[k] = item(k)
  BY <1>2
<1>5. published \in Seq(Item) /\ Len(published) = Len(e) /\ DOMAIN published = 1 .. Len(e)
  BY <1>1, <1>2, <1>3
<1> QED BY <1>4, <1>5 DEF item, e

\* The texts the visitor takes from item k, when the elements under it are the
\* first fields of the item, the last of them perhaps with a part of its name.
Begun(items, k, it) ==
  /\ items[k].fields <= Len(it)
  /\ \A m \in 1 .. items[k].fields :
       \/ nodes[items[k].at + m].tag = it[m].tag
       \/ m = items[k].fields /\ nodes[items[k].at + m].tag = Partial

LEMMA NamedIsField ==
  ASSUME TInv, NEW items, Tree(nodes, items), NEW k \in 1 .. Len(items),
         NEW name \in {"title", "link"}, NEW n \in Named(items[k].at, name)
  PROVE  \E m \in 1 .. items[k].fields : n = items[k].at + m
<1>1. items[k].at \in Nat /\ items[k].fields \in Nat
  BY ItemRecords
<1>2. DOMAIN nodes = 1 .. Len(nodes)
  BY CurrentIs
<1>3. n \in 1 .. Len(nodes) /\ nodes[n].parent = items[k].at /\ nodes[n].tag # "item"
  BY <1>2 DEF Named, ChildrenOf
<1>4. n \in items[k].at + 1 .. items[k].at + items[k].fields
  BY <1>3 DEF Tree
<1> DEFINE a == items[k].at
           f == items[k].fields
<1>5. a \in Nat /\ f \in Nat /\ n \in a + 1 .. a + f
  BY <1>1, <1>4
<1> HIDE DEF a, f
<1>6. n - a \in 1 .. f /\ n = a + (n - a)
  BY <1>5
<1> QED BY <1>6 DEF a, f

LEMMA FieldIsNamed ==
  ASSUME TInv, NEW items, Tree(nodes, items), NEW k \in 1 .. Len(items),
         NEW name, NEW m \in 1 .. items[k].fields, nodes[items[k].at + m].tag = name
  PROVE  items[k].at + m \in Named(items[k].at, name)
<1>1. items[k].at \in Nat /\ items[k].fields \in Nat
  BY ItemRecords
<1>2. DOMAIN nodes = 1 .. Len(nodes) /\ Len(nodes) \in Nat
  BY CurrentIs
<1>3. nodes[items[k].at + m].parent = items[k].at /\ items[k].at + items[k].fields <= Len(nodes)
  BY DEF Tree
<1> DEFINE a == items[k].at
           f == items[k].fields
<1>4. a \in Nat /\ f \in Nat /\ a + f <= Len(nodes) /\ m \in 1 .. f
  BY <1>1, <1>3
<1> HIDE DEF a, f
<1>5. a + m \in 1 .. Len(nodes)
  BY <1>2, <1>4
<1> QED BY <1>2, <1>3, <1>5 DEF Named, ChildrenOf, a

FirstOf(items, k, it, name) ==
  \E m \in 1 .. items[k].fields :
    /\ GetText(items[k].at, name) = nodes[items[k].at + m].text
    /\ nodes[items[k].at + m].tag = name
    /\ IsFirst(it, name, m)

LEMMA FirstNamed ==
  ASSUME TInv, NEW items, Tree(nodes, items), NEW k \in 1 .. Len(items), NEW it,
         Begun(items, k, it), Len(it) \in Nat,
         NEW name \in {"title", "link"}, Named(items[k].at, name) # {}
  PROVE  FirstOf(items, k, it, name)
<1> DEFINE n == Min(Named(items[k].at, name))
<1>1. n \in Named(items[k].at, name) /\ \A l \in Named(items[k].at, name) : n <= l
  BY NamedAre
<1>2. GetText(items[k].at, name) = nodes[n].text /\ nodes[n].tag = name
  BY <1>1 DEF GetText, Named
<1> HIDE DEF n
<1>3. PICK m \in 1 .. items[k].fields : n = items[k].at + m
  BY <1>1, NamedIsField, ZenonT(30)
<1>4. items[k].at \in Nat /\ items[k].fields \in Nat
  BY ItemRecords
<1>5. name # Partial
  BY DEF Partial
<1>6. it[m].tag = name /\ m \in 1 .. Len(it)
  BY <1>2, <1>3, <1>4, <1>5 DEF Begun
<1>7. ASSUME NEW l \in 1 .. m - 1, it[l].tag = name PROVE FALSE
  <2>1. l \in 1 .. items[k].fields /\ l # items[k].fields /\ l < m
    BY <1>3, <1>4
  <2>2. nodes[items[k].at + l].tag = name
    BY <1>7, <2>1 DEF Begun
  <2>3. items[k].at + l \in Named(items[k].at, name)
    BY <2>1, <2>2, FieldIsNamed
  <2>4. n <= items[k].at + l
    BY <1>1, <2>3
  <2> QED BY <1>3, <1>4, <2>1, <2>4
<1> QED BY <1>2, <1>3, <1>6, <1>7 DEF IsFirst, FirstOf

LEMMA PublishedItem ==
  ASSUME TInv, NEW k \in 1 .. Len(arrival.edition)
  PROVE  /\ published[k] = [title |-> published[k].title, link |-> published[k].link]
         /\ published[k].title = FirstText(arrival.edition[k], "title", NoTitle)
         /\ published[k].link = FirstText(arrival.edition[k], "link", "none")
<1> DEFINE title == FirstText(arrival.edition[k], "title", NoTitle)
           link == FirstText(arrival.edition[k], "link", "none")
<1>1. published[k] = [title |-> title, link |-> link]
  BY PublishedIs
<1> HIDE DEF title, link
<1>2. published[k].title = title /\ published[k].link = link
  BY <1>1
<1> QED BY <1>1, <1>2 DEF title, link

\* The fields of an item in the tree, and what is published of them.
LEMMA ItemParts ==
  ASSUME TInv, NEW items, Tree(nodes, items), Len(items) <= Len(arrival.edition),
         NEW k \in 1 .. Len(items)
  PROVE  /\ k \in 1 .. Len(arrival.edition)
         /\ arrival.edition[k] \in Seq(Field) /\ Len(arrival.edition[k]) \in Nat
         /\ \A m \in 1 .. Len(arrival.edition[k]) :
              arrival.edition[k][m] \in Field /\ arrival.edition[k][m].text \in Texts
         /\ items[k].at \in Nat /\ items[k].fields \in Nat
         /\ published[k].title = FirstText(arrival.edition[k], "title", NoTitle)
         /\ published[k].link = FirstText(arrival.edition[k], "link", "none")
<1> DEFINE e == arrival.edition
<1>1. e \in Seq(Seq(Field)) /\ Len(e) \in Nat
  BY ArrivalParts
<1>2. items[k].at \in Nat /\ items[k].fields \in Nat /\ Len(items) \in Nat
  BY ItemRecords
<1>3. k \in 1 .. Len(e)
  BY <1>1, <1>2
<1>4. /\ published[k].title = FirstText(e[k], "title", NoTitle)
      /\ published[k].link = FirstText(e[k], "link", "none")
  BY <1>3, PublishedItem
<1> HIDE DEF e
<1>5. e[k] \in Seq(Field)
  BY <1>1, <1>3, ElementOf
<1>6. Len(e[k]) \in Nat /\ \A m \in 1 .. Len(e[k]) : e[k][m] \in Field
  BY <1>5, ElementOf
<1>7. \A m \in 1 .. Len(e[k]) : e[k][m].text \in Texts
  BY <1>6, FieldParts
<1> QED BY <1>2, <1>3, <1>4, <1>5, <1>6, <1>7 DEF e

Of(record, name) == IF name = "title" THEN record.title ELSE record.link

LEMMA PublishedText ==
  ASSUME TInv, NEW items, Tree(nodes, items), Len(items) <= Len(arrival.edition),
         NEW k \in 1 .. Len(items), NEW name \in {"title", "link"}
  PROVE  /\ \A m : IsFirst(arrival.edition[k], name, m) =>
                     Of(published[k], name) = arrival.edition[k][m].text
         /\ (\A m \in 1 .. Len(arrival.edition[k]) : arrival.edition[k][m].tag # name) =>
              Of(published[k], name) \in {NoTitle, "none"}
<1> DEFINE it == arrival.edition[k]
<1>1. /\ it \in Seq(Field) /\ published[k].title = FirstText(it, "title", NoTitle)
      /\ published[k].link = FirstText(it, "link", "none")
  BY ItemParts
<1> HIDE DEF it
<1>2. CASE name = "title"
  <2>1. Of(published[k], name) = FirstText(it, name, NoTitle)
    BY <1>1, <1>2 DEF Of
  <2> QED BY <1>1, <2>1, FirstTextIs DEF it
<1>3. CASE name = "link"
  <2>1. Of(published[k], name) = FirstText(it, name, "none")
    BY <1>1, <1>3 DEF Of
  <2> QED BY <1>1, <2>1, FirstTextIs DEF it
<1> QED BY <1>2, <1>3

LEMMA HandedOnIs ==
  ASSUME TInv, NEW items, Tree(nodes, items), HandedOn(items), NEW k \in 1 .. Len(feed_items)
  PROVE  /\ k \in 1 .. Len(items)
         /\ feed_items[k] \in [title : Texts, link : Texts]
         /\ \A name \in {"title", "link"} :
              /\ Named(items[k].at, name) # {}
              /\ Of(feed_items[k], name) = GetText(items[k].at, name)
              /\ Of(feed_items[k], name) \in Texts /\ Of(feed_items[k], name) # NoText
<1>1. feed_items \in Seq([title : Texts, link : Texts]) /\ Len(feed_items) \in Nat
  BY DEF TInv, TypeOK
<1>2. feed_items[k] \in [title : Texts, link : Texts]
  BY <1>1, ElementOf
<1>3. Len(items) \in Nat
  BY ItemRecords
<1>4. k \in 1 .. Len(items)
  BY <1>1, <1>3 DEF HandedOn
<1>5. /\ Named(items[k].at, "title") # {} /\ feed_items[k].title = GetText(items[k].at, "title")
      /\ Named(items[k].at, "link") # {} /\ feed_items[k].link = GetText(items[k].at, "link")
  BY DEF HandedOn
<1>6. \A name \in {"title", "link"} : Of(feed_items[k], name) \in Texts
  BY <1>2 DEF Of
<1>7. NoText \notin Texts
  BY MarkersAssumption
<1> QED BY <1>2, <1>4, <1>5, <1>6, <1>7 DEF Of

LEMMA SameItems ==
  ASSUME TInv, NEW k \in 1 .. Len(feed_items), k \in 1 .. Len(arrival.edition),
         \A name \in {"title", "link"} : Of(feed_items[k], name) = Of(published[k], name)
  PROVE  feed_items[k] = published[k]
<1>1. feed_items \in Seq([title : Texts, link : Texts])
  BY DEF TInv, TypeOK
<1>2. feed_items[k] \in [title : Texts, link : Texts]
  BY <1>1, ElementOf
<1>3. published[k] = [title |-> published[k].title, link |-> published[k].link]
  BY PublishedItem
<1>4. feed_items[k].title = published[k].title /\ feed_items[k].link = published[k].link
  BY DEF Of
<1> QED BY <1>2, <1>3, <1>4

\* An item that was read as it stands is handed on as it was published.
LEMMA FaithfulItem ==
  ASSUME TInv, NEW items, Tree(nodes, items), HandedOn(items),
         Len(items) <= Len(arrival.edition), NEW k \in 1 .. Len(feed_items),
         Faithful(nodes, items, arrival.edition, k)
  PROVE  feed_items[k] = published[k]
<1> DEFINE it == arrival.edition[k]
<1>1. k \in 1 .. Len(items)
  BY HandedOnIs
<1>2. /\ Len(it) \in Nat /\ k \in 1 .. Len(arrival.edition)
      /\ \A m \in 1 .. Len(it) : it[m].text \in Texts
  BY <1>1, ItemParts
<1>3. /\ items[k].fields <= Len(it)
      /\ \A m \in 1 .. items[k].fields :
           /\ nodes[items[k].at + m].tag = it[m].tag
           /\ nodes[items[k].at + m].text = it[m].text \/ nodes[items[k].at + m].text = NoText
  BY DEF Faithful, MayBeField
<1>4. ASSUME NEW name \in {"title", "link"} PROVE Of(feed_items[k], name) = Of(published[k], name)
  <2>1. /\ Named(items[k].at, name) # {}
        /\ Of(feed_items[k], name) = GetText(items[k].at, name)
        /\ Of(feed_items[k], name) # NoText
    BY HandedOnIs
  <2>2. \A m : IsFirst(it, name, m) => Of(published[k], name) = it[m].text
    BY <1>1, PublishedText
  <2> HIDE DEF it
  <2>3. Begun(items, k, it)
    BY <1>3 DEF Begun
  <2>4. FirstOf(items, k, it, name)
    BY <1>1, <1>2, <2>1, <2>3, FirstNamed
  <2>5. PICK m \in 1 .. items[k].fields :
          GetText(items[k].at, name) = nodes[items[k].at + m].text /\ IsFirst(it, name, m)
    BY <2>4 DEF FirstOf
  <2> QED BY <1>3, <2>1, <2>2, <2>5
<1> QED BY <1>2, <1>4, SameItems

\* An item that is complete ends the process only if it was published without
\* title or link.
LEMMA CompleteItem ==
  ASSUME TInv, NEW items, Tree(nodes, items), Len(items) <= Len(arrival.edition),
         NEW k \in 1 .. Len(items), Complete(nodes, items, arrival.edition, k),
         NEW name \in {"title", "link"},
         Named(items[k].at, name) = {} \/ GetText(items[k].at, name) = NoText
  PROVE  ~WellFormed(published)
<1> DEFINE it == arrival.edition[k]
<1>1. /\ Len(it) \in Nat /\ k \in 1 .. Len(arrival.edition)
      /\ \A m \in 1 .. Len(it) : it[m].text \in Texts
  BY ItemParts
<1>2. /\ items[k].fields = Len(it)
      /\ \A m \in 1 .. Len(it) :
           nodes[items[k].at + m].tag = it[m].tag /\ nodes[items[k].at + m].text = it[m].text
  BY DEF Complete, FirstFields, IsField
<1>3. Named(items[k].at, name) = {}
  <2> SUFFICES ASSUME Named(items[k].at, name) # {} PROVE FALSE
    OBVIOUS
  <2> HIDE DEF it
  <2>1. Begun(items, k, it)
    BY <1>1, <1>2 DEF Begun
  <2>2. FirstOf(items, k, it, name)
    BY <1>1, <2>1, FirstNamed
  <2>3. PICK m \in 1 .. items[k].fields : GetText(items[k].at, name) = nodes[items[k].at + m].text
    BY <2>2 DEF FirstOf
  <2>4. GetText(items[k].at, name) \in Texts
    BY <1>1, <1>2, <2>3
  <2> QED BY <2>4, MarkersAssumption
<1>4. \A m \in 1 .. Len(it) : it[m].tag # name
  <2> SUFFICES ASSUME NEW m \in 1 .. Len(it), it[m].tag = name PROVE FALSE
    OBVIOUS
  <2> HIDE DEF it
  <2>1. m \in 1 .. items[k].fields /\ nodes[items[k].at + m].tag = name
    BY <1>2
  <2>2. items[k].at + m \in Named(items[k].at, name)
    BY <2>1, FieldIsNamed
  <2> QED BY <1>3, <2>2
<1>5. /\ published[k].title = FirstText(it, "title", NoTitle)
      /\ published[k].link = FirstText(it, "link", "none") /\ it \in Seq(Field)
  BY ItemParts
<1>6. k \in DOMAIN published
  BY <1>1, PublishedIs
<1> HIDE DEF it
<1>7. CASE name = "title"
  <2>1. published[k].title = NoTitle
    BY <1>4, <1>5, <1>7, FirstTextIs
  <2> QED BY <1>6, <2>1 DEF WellFormed
<1>8. CASE name = "link"
  <2>1. published[k].link = "none"
    BY <1>4, <1>5, <1>8, FirstTextIs
  <2> QED BY <1>6, <2>1 DEF WellFormed
<1> QED BY <1>7, <1>8

\* An item a cut fell in is handed on as it was published, or as one of the
\* items FeedItems.tla makes of it.
LEMMA CutItemIs ==
  ASSUME TInv, NEW items, Tree(nodes, items), HandedOn(items),
         Len(items) <= Len(arrival.edition), NEW k \in 1 .. Len(feed_items),
         CutShort(nodes, items, arrival.edition, k)
  PROVE  feed_items[k] = published[k] \/ feed_items[k] \in CutItem(published[k], ShortTexts)
<1> DEFINE it == arrival.edition[k]
           f == items[k].fields
           at == items[k].at
<1>1. k \in 1 .. Len(items)
  BY HandedOnIs
<1>2. /\ Len(it) \in Nat /\ k \in 1 .. Len(arrival.edition)
      /\ \A m \in 1 .. Len(it) : it[m].text \in Texts
      /\ at \in Nat /\ f \in Nat
  BY <1>1, ItemParts
<1>3. CASE FirstFields(nodes, items, arrival.edition, k, f)
  <2>1. Faithful(nodes, items, arrival.edition, k)
    BY <1>3 DEF FirstFields, Faithful, IsField, MayBeField
  <2> QED BY <2>1, FaithfulItem
<1>4. CASE /\ f \in 1 .. Len(it) /\ FirstFields(nodes, items, arrival.edition, k, f - 1)
           /\ CutField(nodes, at + f, it[f])
  <2>1. \A m \in 1 .. f - 1 : nodes[at + m].tag = it[m].tag /\ nodes[at + m].text = it[m].text
    BY <1>4 DEF FirstFields, IsField
  <2>2. nodes[at + f].tag = Partial \/ nodes[at + f].tag = it[f].tag
    BY <1>4 DEF CutField
  <2>3. \A m \in 1 .. f : m = f \/ m \in 1 .. f - 1
    BY <1>2
  <2>4. Begun(items, k, it)
    <3>1. f <= Len(it)
      BY <1>2, <1>4
    <3> HIDE DEF it
    <3>2. \A m \in 1 .. f : nodes[at + m].tag = it[m].tag \/ (m = f /\ nodes[at + m].tag = Partial)
      BY <2>1, <2>2, <2>3
    <3> QED BY <3>1, <3>2 DEF Begun
  \* The texts of the field that was cut.
  <2>5. \A name \in {"title", "link"} :
          /\ Named(at, name) # {} /\ Of(feed_items[k], name) = GetText(at, name)
          /\ Of(feed_items[k], name) \in Texts /\ Of(feed_items[k], name) # NoText
    BY HandedOnIs
  <2>6. \A name \in {"title", "link"} :
          \A m : IsFirst(it, name, m) => Of(published[k], name) = it[m].text
    BY <1>1, PublishedText
  <2>7. ASSUME NEW name \in {"title", "link"}
        PROVE  \/ Of(feed_items[k], name) = Of(published[k], name)
               \/ /\ it[f].tag = name /\ Of(published[k], name) = it[f].text
                  /\ Of(feed_items[k], name) \in ShortTexts[it[f].text]
    <3> HIDE DEF it
    <3>0. Named(at, name) # {} /\ Len(it) \in Nat
      BY <1>2, <2>5
    <3>4. FirstOf(items, k, it, name)
      BY <1>1, <2>4, <3>0, FirstNamed
    <3>1. PICK m \in 1 .. f : /\ GetText(at, name) = nodes[at + m].text
                              /\ nodes[at + m].tag = name /\ IsFirst(it, name, m)
      BY <3>4 DEF FirstOf
    <3>2. CASE m \in 1 .. f - 1
      BY <2>1, <2>5, <2>6, <3>1, <3>2
    <3>3. CASE m = f
      <4>1. nodes[at + f].text # NoText
        BY <2>5, <3>1, <3>3
      <4>2. nodes[at + f].tag = it[f].tag /\ nodes[at + f].text \in ShortTexts[it[f].text]
        BY <1>4, <4>1 DEF CutField
      <4> QED BY <2>5, <2>6, <3>1, <3>3, <4>2
    <3> QED BY <2>3, <3>2, <3>3
  <2>8. PICK title \in Texts, link \in Texts : feed_items[k] = [title |-> title, link |-> link]
    BY HandedOnIs
  <2>9. published[k] = [title |-> published[k].title, link |-> published[k].link]
    BY <1>2, PublishedItem
  <2>10. title = Of(feed_items[k], "title") /\ link = Of(feed_items[k], "link")
    BY <2>8 DEF Of
  <2>11. published[k].title = Of(published[k], "title") /\ published[k].link = Of(published[k], "link")
    BY DEF Of
  <2>12. CASE \A name \in {"title", "link"} : Of(feed_items[k], name) = Of(published[k], name)
    BY <1>2, <2>12, SameItems
  <2>13. CASE /\ it[f].tag = "title" /\ published[k].title = it[f].text
              /\ title \in ShortTexts[it[f].text] /\ link = published[k].link
    <3>1. DOMAIN ShortTexts = Texts
      BY ShortTextsAssumption
    <3>2. published[k].title \in {published[k].title} \cap DOMAIN ShortTexts
      BY <1>2, <1>4, <2>13, <3>1
    <3>3. title \in UNION {ShortTexts[t] : t \in {published[k].title} \cap DOMAIN ShortTexts}
      BY <2>13, <3>2
    <3>4. feed_items[k] = [published[k] EXCEPT !.title = title]
      BY <2>8, <2>9, <2>13
    <3> QED BY <3>3, <3>4 DEF CutItem
  <2>14. CASE /\ it[f].tag = "link" /\ published[k].link = it[f].text
              /\ link \in ShortTexts[it[f].text] /\ title = published[k].title
    <3>1. arrival.edition \in Editions /\ DOMAIN arrival.edition = 1 .. Len(arrival.edition)
      BY ArrivalIs, ArrivalParts DEF TInv, TypeOK
    <3>2. DOMAIN it = 1 .. Len(it)
      BY <1>1, ItemParts
    <3>3. ShortTexts[it[f].text] \subseteq {"bad", "cut"}
      BY <1>2, <1>4, <2>14, <3>1, <3>2, LinksAssumption
    <3>4. link \in {"none", "bad", "cut"}
      BY <2>14, <3>3
    <3>5. feed_items[k] = [published[k] EXCEPT !.link = link]
      BY <2>8, <2>9, <2>14
    <3> QED BY <3>4, <3>5 DEF CutItem
  <2>15. "title" # "link"
    OBVIOUS
  <2> QED BY <2>7, <2>10, <2>11, <2>12, <2>13, <2>14, <2>15
<1> QED BY <1>3, <1>4 DEF CutShort

-----------------------------------------------------------------------------
(* The safety invariants *)

\* When the visitor has come to the end, it has handed on all the items.
LEMMA AllHandedOn ==
  ASSUME TInv, NEW items, Tree(nodes, items), HandedOn(items), stage = "done"
  PROVE  Len(feed_items) = Len(items) /\ Len(items) \in Nat
<1>1. Len(items) \in Nat /\ Len(feed_items) \in Nat
  BY ItemRecords DEF TInv, TypeOK
<1>2. visited = Len(nodes) /\ Len(feed_items) <= Len(items)
  BY DEF HandedOn
<1>3. \A k \in 1 .. Len(items) : items[k].at <= visited
  <2> TAKE k \in 1 .. Len(items)
  <2>1. items[k].at \in 1 .. Len(nodes) /\ Len(nodes) \in Nat
    BY CurrentIs DEF Tree
  <2> QED BY <1>2, <2>1
<1>4. \A k \in 1 .. Len(items) : k <= Len(feed_items)
  BY <1>3 DEF HandedOn
<1>5. Len(items) = 0 \/ Len(items) \in 1 .. Len(items)
  BY <1>1
<1> QED BY <1>1, <1>2, <1>4, <1>5

LEMMA SomeVisited ==
  ASSUME IInv, stage \in Ended
  PROVE  \E items : Visited(items) /\ TInv
  BY DEF IInv

LEMMA OutcomeItems ==
  ASSUME TInv, NEW items, Visited(items)
  PROVE  Len(items) <= Len(arrival.edition)
<1>1. Len(arrival.edition) \in Nat /\ Len(items) \in Nat
  BY ArrivalParts, ItemRecords DEF Visited
<1> QED BY <1>1 DEF Visited, Outcome, CutTree, AllFaithful

\* The items that are complete are handed on as they were published.
LEMMA CompleteUpToIs ==
  ASSUME TInv, NEW items, Visited(items), NEW n, CompleteUpTo(nodes, items, arrival.edition, n),
         NEW k \in 1 .. Len(feed_items), k \in 1 .. n
  PROVE  feed_items[k] = published[k]
<1>1. Tree(nodes, items) /\ HandedOn(items) /\ Len(items) <= Len(arrival.edition)
  BY OutcomeItems DEF Visited
<1>2. k \in 1 .. Len(items)
  BY <1>1, HandedOnIs
<1>3. Len(arrival.edition[k]) \in Nat
  BY <1>1, <1>2, ItemParts
<1>4. Complete(nodes, items, arrival.edition, k)
  BY DEF CompleteUpTo
<1>5. Faithful(nodes, items, arrival.edition, k)
  BY <1>3, <1>4, CompleteIsFaithful
<1> QED BY <1>1, <1>5, FaithfulItem

LEMMA SurviveInvariant == IInv => ItemsBeforeDamageSurvive
<1> SUFFICES ASSUME IInv, stage = "done", NEW i \in DOMAIN arrival.edition,
                    EndsAt(arrival.edition, i) < arrival.at
             PROVE  i \in DOMAIN feed_items /\ feed_items[i] = published[i]
  BY DEF ItemsBeforeDamageSurvive
<1> DEFINE e == arrival.edition
<1>1. PICK items : Visited(items) /\ TInv
  BY SomeVisited DEF Ended
<1> DEFINE All == CompleteUpTo(nodes, items, e, Len(items))
           Most == AllFaithful(nodes, items, e)
           AllButOne == /\ Len(items) > 0
                        /\ arrival.at \in StartsAt(e, Len(items)) + 1 .. EndsAt(e, Len(items))
                        /\ CompleteUpTo(nodes, items, e, Len(items) - 1)
<1>2. Tree(nodes, items) /\ Outcome(nodes, items, arrival) /\ HandedOn(items)
  BY <1>1 DEF Visited
<1>3. Len(feed_items) = Len(items) /\ Len(items) \in Nat
  BY <1>1, <1>2, AllHandedOn
<1>4. Len(items) <= Len(e)
  BY <1>1, OutcomeItems
<1>5. e \in Seq(Seq(Field)) /\ i \in 1 .. Len(e) /\ Len(e) \in Nat /\ arrival.at \in Nat
  BY <1>1, ArrivalParts
<1>6. i <= Len(items)
  BY <1>2, <1>5 DEF Outcome, Enough
<1>7. i \in 1 .. Len(feed_items) /\ i \in DOMAIN feed_items
  <2>1. feed_items \in Seq([title : Texts, link : Texts])
    BY <1>1 DEF TInv, TypeOK
  <2> QED BY <1>3, <1>5, <1>6, <2>1
<1>8. ASSUME NEW n, CompleteUpTo(nodes, items, e, n), i \in 1 .. n
      PROVE  feed_items[i] = published[i]
  BY <1>1, <1>7, <1>8, CompleteUpToIs
<1>9. ASSUME All PROVE feed_items[i] = published[i]
  BY <1>3, <1>7, <1>8, <1>9
<1>10. ASSUME Most PROVE feed_items[i] = published[i]
  <2>1. Faithful(nodes, items, e, i)
    BY <1>3, <1>7, <1>10 DEF AllFaithful
  <2> QED BY <1>1, <1>2, <1>4, <1>7, <2>1, FaithfulItem
<1>11. ASSUME AllButOne PROVE feed_items[i] = published[i]
  <2>1. i # Len(items)
    <3> SUFFICES ASSUME i = Len(items) PROVE FALSE
      OBVIOUS
    <3> HIDE DEF e
    <3>1. i + 1 \in 1 .. Len(e) + 1
      BY <1>5
    <3>2. EndsAt(e, i) \in Int
      BY <1>5, <3>1, StartsIncrease, SMTT(30) DEF EndsAt
    <3>3. arrival.at <= EndsAt(e, i) /\ EndsAt(e, i) < arrival.at
      BY <1>5, <1>11, <3>2 DEF e
    <3> QED BY <1>5, <3>2, <3>3
  <2>2. i \in 1 .. Len(items) - 1
    BY <1>3, <1>7, <2>1
  <2> QED BY <1>8, <1>11, <2>2
<1>12. All \/ Most \/ AllButOne
  BY <1>2 DEF Outcome, CutTree
<1> HIDE DEF All, Most, AllButOne
<1> QED BY <1>7, <1>9, <1>10, <1>11, <1>12

LEMMA LosesATail == IInv => MissingSymbolLosesATail
<1> SUFFICES ASSUME IInv, arrival.damage = "drop", stage = "done"
             PROVE  IsPrefix(feed_items, published)
  BY DEF MissingSymbolLosesATail
<1> DEFINE e == arrival.edition
           Item == [title : Texts \cup {NoTitle}, link : Texts \cup {"none"}]
<1>1. PICK items : Visited(items) /\ TInv
  BY SomeVisited DEF Ended
<1>2. Tree(nodes, items) /\ Outcome(nodes, items, arrival) /\ HandedOn(items)
  BY <1>1 DEF Visited
<1>3. Len(feed_items) = Len(items) /\ Len(items) \in Nat /\ Len(items) <= Len(e)
  BY <1>1, <1>2, AllHandedOn, OutcomeItems
<1>4. AllFaithful(nodes, items, e)
  BY <1>2 DEF Outcome
<1>5. \A k \in 1 .. Len(feed_items) : feed_items[k] = published[k]
  <2> TAKE k \in 1 .. Len(feed_items)
  <2>1. Faithful(nodes, items, e, k)
    BY <1>3, <1>4 DEF AllFaithful
  <2> QED BY <1>1, <1>2, <1>3, <2>1, FaithfulItem
<1>6. published \in Seq(Item) /\ Len(published) = Len(e)
  BY <1>1, PublishedIs
<1>7. feed_items \in Seq([title : Texts, link : Texts]) /\ feed_items \in Seq(Item)
  <2>1. feed_items \in Seq([title : Texts, link : Texts])
    BY <1>1 DEF TInv, TypeOK
  <2>2. [title : Texts, link : Texts] \subseteq Item
    OBVIOUS
  <2> HIDE DEF Item
  <2> QED BY <2>1, <2>2, SeqOfMore
<1>8. Len(e) \in Nat
  BY <1>1, ArrivalParts
<1> HIDE DEF Item, e
<1>9. Len(feed_items) <= Len(published)
  BY <1>3, <1>6
<1>10. SubSeq(feed_items, 1, Len(feed_items)) = SubSeq(published, 1, Len(feed_items))
  BY <1>3, <1>5, <1>6, <1>7, <1>8
<1> QED BY <1>9, <1>10 DEF IsPrefix

LEMMA CutIsHarmless == IInv => CutBetweenItemsIsHarmless
<1> DEFINE e == arrival.edition
<1> SUFFICES ASSUME IInv, arrival.damage = "cut",
                    \A i \in DOMAIN arrival.edition :
                      arrival.at \notin StartsAt(arrival.edition, i) + 1 .. EndsAt(arrival.edition, i),
                    WellFormed(published), stage \in {"thrown", "crashed"}
             PROVE  FALSE
  BY DEF CutBetweenItemsIsHarmless
<1>1. PICK items : Visited(items) /\ TInv
  BY SomeVisited DEF Ended
<1>2. Tree(nodes, items) /\ Outcome(nodes, items, arrival) /\ HandedOn(items)
  BY <1>1 DEF Visited
<1>3. Len(items) \in Nat /\ Len(items) <= Len(e) /\ Len(e) \in Nat /\ DOMAIN e = 1 .. Len(e)
  BY <1>1, <1>2, ItemRecords, OutcomeItems, ArrivalParts
<1>4. CompleteUpTo(nodes, items, e, Len(items))
  <2>1. Len(items) > 0 => Len(items) \in DOMAIN e
    BY <1>3
  <2> QED BY <1>2, <2>1 DEF Outcome, CutTree
<1>5. PICK k \in 1 .. Len(items) : items[k].at = visited + 1
  BY <1>2 DEF HandedOn
<1>6. PICK name \in {"title", "link"} :
        Named(visited + 1, name) = {} \/ GetText(visited + 1, name) = NoText
  BY <1>2 DEF HandedOn
<1>7. Complete(nodes, items, e, k)
  BY <1>4 DEF CompleteUpTo
<1>8. Named(items[k].at, name) = {} \/ GetText(items[k].at, name) = NoText
  BY <1>5, <1>6
<1> QED BY <1>1, <1>2, <1>3, <1>7, <1>8, CompleteItem

LEMMA WholeInvariant ==
  ASSUME IInv, arrival.damage = "none"
  PROVE  /\ stage = "done" => feed_items = published
         /\ stage \in {"thrown", "crashed"} => ~WellFormed(published)
<1> DEFINE e == arrival.edition
           Item == [title : Texts \cup {NoTitle}, link : Texts \cup {"none"}]
<1>1. SUFFICES ASSUME NEW items, Visited(items), TInv, stage \in Ended
               PROVE  /\ stage = "done" => feed_items = published
                      /\ stage \in {"thrown", "crashed"} => ~WellFormed(published)
  BY SomeVisited DEF Ended
<1>2. Tree(nodes, items) /\ Outcome(nodes, items, arrival) /\ HandedOn(items)
  BY <1>1 DEF Visited
<1>3. Len(items) = Len(e) /\ CompleteUpTo(nodes, items, e, Len(e)) /\ Len(items) <= Len(e)
  BY <1>1, <1>2, OutcomeItems DEF Outcome
<1>4. ASSUME stage = "done" PROVE feed_items = published
  <2>1. Len(feed_items) = Len(e)
    BY <1>1, <1>2, <1>3, <1>4, AllHandedOn
  <2>2. \A k \in 1 .. Len(feed_items) : feed_items[k] = published[k]
    BY <1>1, <1>3, <2>1, CompleteUpToIs
  <2>3. published \in Seq(Item) /\ Len(published) = Len(e)
    BY <1>1, PublishedIs
  <2>4. feed_items \in Seq([title : Texts, link : Texts])
    BY <1>1 DEF TInv, TypeOK
  <2> HIDE DEF Item, e
  <2> QED BY <2>1, <2>2, <2>3, <2>4
<1>5. ASSUME stage \in {"thrown", "crashed"} PROVE ~WellFormed(published)
  <2>1. PICK k \in 1 .. Len(items) : items[k].at = visited + 1
    BY <1>2, <1>5 DEF HandedOn
  <2>2. PICK name \in {"title", "link"} :
          Named(visited + 1, name) = {} \/ GetText(visited + 1, name) = NoText
    BY <1>2, <1>5 DEF HandedOn
  <2>3. Complete(nodes, items, e, k)
    BY <1>3 DEF CompleteUpTo
  <2>4. Named(items[k].at, name) = {} \/ GetText(items[k].at, name) = NoText
    BY <2>1, <2>2
  <2> QED BY <1>1, <1>2, <1>3, <2>3, <2>4, CompleteItem
<1> QED BY <1>4, <1>5

\* Sequences that agree up to n are the same up to there.
LEMMA SamePrefix ==
  ASSUME NEW S, NEW s \in Seq(S), NEW T, NEW t \in Seq(T), NEW n \in Nat,
         Len(s) = n, n <= Len(t), \A k \in 1 .. n : s[k] = t[k]
  PROVE  s = SubSeq(t, 1, n)
<1>1. Len(SubSeq(t, 1, n)) = n /\ \A k \in 1 .. n : SubSeq(t, 1, n)[k] = t[k]
  BY PrefixElements
<1>2. SubSeq(t, 1, n) \in Seq(T)
  OBVIOUS
<1> QED BY <1>1, <1>2

LEMMA SameButTheLast ==
  ASSUME NEW S, NEW s \in Seq(S), NEW T, NEW t \in Seq(T), NEW n \in Nat, n > 0,
         Len(s) = n, n <= Len(t), \A k \in 1 .. n - 1 : s[k] = t[k]
  PROVE  s = Append(SubSeq(t, 1, n - 1), s[n])
<1>1. Len(SubSeq(t, 1, n - 1)) = n - 1 /\ \A k \in 1 .. n - 1 : SubSeq(t, 1, n - 1)[k] = t[k]
  <2> DEFINE l == n - 1
  <2>1. l \in Nat /\ l <= Len(t)
    OBVIOUS
  <2> HIDE DEF l
  <2>2. Len(SubSeq(t, 1, l)) = l /\ \A k \in 1 .. l : SubSeq(t, 1, l)[k] = t[k]
    BY <2>1, PrefixElements
  <2> QED BY <2>2 DEF l
<1>2. SubSeq(t, 1, n - 1) \in Seq(T)
  OBVIOUS
<1> DEFINE x == SubSeq(t, 1, n - 1)
           y == Append(x, s[n])
<1>3. x \in Seq(T \cup S) /\ s[n] \in T \cup S
  BY <1>2, ElementOf
<1> HIDE DEF x
<1>4. y \in Seq(T \cup S) /\ Len(y) = n /\ y[n] = s[n] /\ \A k \in 1 .. n - 1 : y[k] = x[k]
  BY <1>1, <1>3 DEF x
<1> HIDE DEF y
<1>5. \A k \in 1 .. n : y[k] = s[k]
  <2> TAKE k \in 1 .. n
  <2>1. k = n \/ k \in 1 .. n - 1
    OBVIOUS
  <2> QED BY <1>1, <1>4, <2>1 DEF x
<1> QED BY <1>4, <1>5 DEF y, x

LEMMA CutInvariant ==
  ASSUME IInv, arrival.damage = "cut"
  PROVE  /\ stage = "done" => feed_items \in {published} \cup Truncations(published, ShortTexts)
         /\ stage \in {"thrown", "crashed"} =>
              \E d \in {published} \cup Truncations(published, ShortTexts) : ~WellFormed(d)
<1> DEFINE e == arrival.edition
           Item == [title : Texts \cup {NoTitle}, link : Texts \cup {"none"}]
           documents == {published} \cup Truncations(published, ShortTexts)
<1> SUFFICES ASSUME NEW items, Visited(items), TInv, stage \in Ended
             PROVE  /\ stage = "done" => feed_items \in documents
                    /\ stage \in {"thrown", "crashed"} => \E d \in documents : ~WellFormed(d)
  BY SomeVisited DEF Ended
<1>1. Tree(nodes, items) /\ Outcome(nodes, items, arrival) /\ HandedOn(items)
  BY DEF Visited
<1>2. Len(items) \in Nat /\ Len(items) <= Len(e) /\ Len(e) \in Nat
  BY <1>1, ItemRecords, OutcomeItems, ArrivalParts
<1>3. published \in Seq(Item) /\ Len(published) = Len(e) /\ DOMAIN published = 1 .. Len(e)
  BY PublishedIs
<1>4. feed_items \in Seq([title : Texts, link : Texts])
  BY DEF TInv, TypeOK
\* The two kinds of truncations.
<1>5. \A n \in 0 .. Len(e) - 1 : SubSeq(published, 1, n) \in documents
  BY <1>3 DEF Truncations
<1>6. \A n \in 1 .. Len(e) : \A item \in CutItem(published[n], ShortTexts) :
        Append(SubSeq(published, 1, n - 1), item) \in documents
  BY <1>3 DEF Truncations
<1>7. SubSeq(published, 1, Len(e)) = published /\ published \in documents
  BY <1>3
<1> HIDE DEF documents, Item, e
<1>8. \A n \in 0 .. Len(e) : SubSeq(published, 1, n) \in documents
  <2> TAKE n \in 0 .. Len(e)
  <2>1. n = Len(e) \/ n \in 0 .. Len(e) - 1
    BY <1>2
  <2> QED BY <1>5, <1>7, <2>1
<1>9. ASSUME stage = "done" PROVE feed_items \in documents
  <2> DEFINE n == Len(items)
  <2>1. Len(feed_items) = n /\ n \in 0 .. Len(e)
    BY <1>1, <1>2, <1>9, AllHandedOn
  <2> HIDE DEF n
  <2>2. ASSUME \A k \in 1 .. n : feed_items[k] = published[k] PROVE feed_items \in documents
    <3>1. feed_items = SubSeq(published, 1, n)
      BY <1>3, <1>4, <2>1, <2>2, SamePrefix
    <3> QED BY <1>8, <2>1, <3>1
  <2>3. ASSUME NEW m, CompleteUpTo(nodes, items, e, m), NEW k \in 1 .. n, k \in 1 .. m
        PROVE  feed_items[k] = published[k]
    BY <2>1, <2>3, CompleteUpToIs DEF e
  <2>4. CASE CompleteUpTo(nodes, items, e, n)
    BY <2>2, <2>3, <2>4
  <2>5. CASE n > 0 /\ CompleteUpTo(nodes, items, e, n - 1) /\ CutShort(nodes, items, e, n)
    <3>1. n \in 1 .. n /\ n \in 1 .. Len(e) /\ n \in Nat /\ n <= Len(published)
      BY <1>2, <1>3, <2>1, <2>5
    <3>2. \A k \in 1 .. n - 1 : k \in 1 .. n
      BY <3>1
    <3>3. \A k \in 1 .. n - 1 : feed_items[k] = published[k]
      BY <2>3, <2>5, <3>2
    <3>4. feed_items[n] = published[n] \/ feed_items[n] \in CutItem(published[n], ShortTexts)
      BY <1>1, <1>2, <2>1, <2>5, <3>1, CutItemIs DEF e
    <3>5. CASE feed_items[n] = published[n]
      <4>1. \A k \in 1 .. n : k = n \/ k \in 1 .. n - 1
        BY <3>1
      <4> QED BY <2>2, <3>3, <3>5, <4>1
    <3>6. CASE feed_items[n] \in CutItem(published[n], ShortTexts)
      <4>1. feed_items = Append(SubSeq(published, 1, n - 1), feed_items[n])
        BY <1>3, <1>4, <2>1, <2>5, <3>1, <3>3, SameButTheLast
      <4>2. Append(SubSeq(published, 1, n - 1), feed_items[n]) \in documents
        BY <1>6, <3>1, <3>6
      <4> QED BY <4>1, <4>2
    <3> QED BY <3>4, <3>5, <3>6
  <2>6. \/ CompleteUpTo(nodes, items, e, n)
        \/ n > 0 /\ CompleteUpTo(nodes, items, e, n - 1) /\ CutShort(nodes, items, e, n)
    BY <1>1 DEF Outcome, CutTree, e, n
  <2> QED BY <2>4, <2>5, <2>6
<1>10. ASSUME stage \in {"thrown", "crashed"} PROVE \E d \in documents : ~WellFormed(d)
  <2>1. PICK k \in 1 .. Len(items) : items[k].at = visited + 1
    BY <1>1, <1>10 DEF HandedOn
  <2>2. k \in 1 .. Len(e)
    BY <1>2, <2>1
  <2> DEFINE item == [published[k] EXCEPT !.link = "none"]
             before == SubSeq(published, 1, k - 1)
             d == Append(before, item)
  <2>3. item \in CutItem(published[k], ShortTexts)
    BY DEF CutItem
  <2>4. d \in documents
    BY <1>6, <2>2, <2>3
  <2>5. published[k] \in Item
    BY <1>3, <2>2, ElementOf
  <2>6. item.link = "none" /\ item \in Item
    BY <2>5 DEF Item
  <2>7. before \in Seq(Item) /\ Len(before) = k - 1
    BY <1>3, <2>2
  <2> HIDE DEF item, before
  <2>8. d[k] = item /\ k \in DOMAIN d
    BY <2>2, <2>6, <2>7
  <2>9. ~WellFormed(d)
    BY <2>6, <2>8 DEF WellFormed
  <2> QED BY <2>4, <2>9
<1> QED BY <1>9, <1>10 DEF documents

LEMMA TruncationInvariant == IInv => OutcomeIsATruncation
<1> SUFFICES ASSUME IInv PROVE OutcomeIsATruncation
  OBVIOUS
<1>1. arrival.damage \in {"none", "cut", "drop"}
  BY ArrivalParts DEF IInv, Whole, CutOff, Dropped
<1>2. WellFormed(feed_items)
  <2>1. feed_items \in Seq([title : Texts, link : Texts])
    BY DEF IInv, TInv, TypeOK
  <2>2. \A i \in DOMAIN feed_items : feed_items[i].title \in Texts /\ feed_items[i].link \in Texts
    <3> TAKE i \in DOMAIN feed_items
    <3>1. i \in 1 .. Len(feed_items)
      BY <2>1
    <3>2. feed_items[i] \in [title : Texts, link : Texts]
      BY <2>1, <3>1, ElementOf
    <3> QED BY <3>2
  <2> QED BY <2>2, MarkersAssumption DEF WellFormed
<1>3. CASE arrival.damage = "none"
  BY <1>2, <1>3, WholeInvariant DEF OutcomeIsATruncation
<1>4. CASE arrival.damage = "cut"
  BY <1>2, <1>4, CutInvariant DEF OutcomeIsATruncation
<1>5. CASE arrival.damage = "drop"
  BY <1>5 DEF OutcomeIsATruncation
<1> QED BY <1>1, <1>3, <1>4, <1>5

\* A feed that arrives whole gives its items; one that was cut gives one of the
\* documents that FeedWatcher.tla takes into account for it.
THEOREM OutcomesAreTruncations == Spec => []OutcomeIsATruncation
  BY ReadAsFarAsItGoes, TruncationInvariant, PTL

\* What is damaged further down costs no item above: xml_feed_visitor hands on
\* every item whose end tag was read.
THEOREM CompleteItemsSurvive == Spec => []ItemsBeforeDamageSurvive
  BY ReadAsFarAsItGoes, SurviveInvariant, PTL

\* A tag or a text that is missing costs the items behind it at most: Parse gives
\* up at the first end tag that does not fit and keeps what it has.
THEOREM OnlyATailIsLost == Spec => []MissingSymbolLosesATail
  BY ReadAsFarAsItGoes, LosesATail, PTL

\* A connection that closes between two items never ends the process: the visitor
\* meets whole items only.
THEOREM CutBetweenItems == Spec => []CutBetweenItemsIsHarmless
  BY ReadAsFarAsItGoes, CutIsHarmless, PTL

=============================================================================
