------------------------- MODULE FeedWatcherProofs -------------------------
(***************************************************************************)
(* TLAPS proofs of the safety properties of FeedWatcher, for every feeds    *)
(* file, every history of the feeds and every number of failures.          *)
(***************************************************************************)
EXTENDS FeedWatcher, SequenceTheorems, FiniteSetTheorems, TLAPS

ConstantAssumptions ==
  /\ MaxDbFaults \in Nat
  /\ NoNewspaper \notin Media /\ QueryFailed \notin Media
  /\ NFeeds \in Nat \ {0}
  /\ MediaOf \in [Feeds -> Media]
  /\ Editions \in [Feeds -> SUBSET Seq(Item)]
  /\ MaxNetFaults \in Nat /\ MaxCrashes \in Nat
  /\ NoTitle \notin Titles
  /\ BadFeedSets \subseteq SUBSET Feeds
  /\ ShortTitles \in [Titles -> SUBSET Titles]

\* The assumptions the modules make on their constants, in one fact.
LEMMA Assumed == ConstantAssumptions
  BY MaxDbFaultsAssumption, OwnersDistinct, NFeedsAssumption, MediaOfAssumption,
     EditionsAssumption, BoundsAssumption, NoTitleIsNoTitle, BadFeedsAssumption,
     ShortTitlesAssumption DEF ConstantAssumptions

\* The items of a document the visitor accepts all have a title and a link.
LEMMA AcceptedItems ==
  ASSUME NEW document \in Seq(Item), WellFormed(document)
  PROVE  document \in Seq([title : Titles, link : Links])
<1>1. \A i \in 1 .. Len(document) : document[i] \in [title : Titles, link : Links]
  <2> SUFFICES ASSUME NEW i \in 1 .. Len(document)
               PROVE  document[i] \in [title : Titles, link : Links]
    OBVIOUS
  <2>1. document[i] \in Item
    OBVIOUS
  <2>2. document[i].title # NoTitle
    BY DEF WellFormed
  <2> QED BY <2>1, <2>2 DEF Item
<1> DEFINE Proper == [title : Titles, link : Links]
           n == Len(document)
<1>2. n \in Nat /\ document \in [1 .. n -> Item]
  BY LenProperties
<1> HIDE DEF Proper, n
<1>3. document \in [1 .. n -> Proper]
  BY <1>1, <1>2 DEF Proper, n
<1>4. document \in Seq(Proper)
  BY <1>2, <1>3, SeqDef
<1> QED BY <1>4 DEF Proper

\* The item a cut fell in is an item still.
LEMMA CutItemsAreItems ==
  ASSUME NEW item \in Item
  PROVE  CutItem(item, ShortTitles) \subseteq Item
<1> USE Assumed
<1>1. ASSUME NEW link \in {"none", "bad", "cut"}
      PROVE  [item EXCEPT !.link = link] \in Item
  BY DEF Item, Links
<1>2. \A t \in {item.title} \cap DOMAIN ShortTitles : ShortTitles[t] \subseteq Titles
  BY DEF ConstantAssumptions
<1>3. ASSUME NEW t \in {NoTitle} \cup Titles
      PROVE  [item EXCEPT !.title = t] \in Item
  BY DEF Item
<1> QED BY <1>1, <1>2, <1>3 DEF CutItem

\* A download that was cut is still a sequence of items.
LEMMA TruncationsAreDocuments ==
  ASSUME NEW edition \in Seq(Item)
  PROVE  Truncations(edition, ShortTitles) \subseteq Seq(Item)
<1>1. \A n \in 0 .. Len(edition) : SubSeq(edition, 1, n) \in Seq(Item)
  <2> SUFFICES ASSUME NEW n \in 0 .. Len(edition)
               PROVE  SubSeq(edition, 1, n) \in Seq(Item)
    OBVIOUS
  <2>1. \A i \in 1 .. n : edition[i] \in Item
    BY LenProperties
  <2>2. 1 \in Int /\ n \in Int
    BY LenProperties
  <2> QED BY <2>1, <2>2, SubSeqProperties
<1>2. ASSUME NEW n \in DOMAIN edition, NEW item \in CutItem(edition[n], ShortTitles)
      PROVE  Append(SubSeq(edition, 1, n - 1), item) \in Seq(Item)
  <2>1. edition[n] \in Item
    OBVIOUS
  <2>2. item \in Item
    BY <2>1, CutItemsAreItems
  <2>3. SubSeq(edition, 1, n - 1) \in Seq(Item)
    <3>1. n \in 1 .. Len(edition)
      BY LenProperties
    <3> QED BY <3>1, <1>1
  <2> QED BY <2>2, <2>3
<1>3. Len(edition) \in Nat
  BY LenProperties
<1>4. {SubSeq(edition, 1, n) : n \in 0 .. Len(edition) - 1} \subseteq Seq(Item)
  <2>1. 0 .. Len(edition) - 1 \subseteq 0 .. Len(edition)
    BY <1>3
  <2> QED BY <1>1, <2>1
<1>5. ASSUME NEW n \in DOMAIN edition
      PROVE  {Append(SubSeq(edition, 1, n - 1), item) :
                item \in CutItem(edition[n], ShortTitles)} \subseteq Seq(Item)
  BY <1>2
<1> QED BY <1>4, <1>5 DEF Truncations

\* What feed_leacher can return is a sequence of items.
LEMMA DocumentsType ==
  ASSUME TypeOK
  PROVE  Documents \subseteq Seq(Item)
<1>1. published[feed] \in Seq(Item)
  BY DEF TypeOK
<1> QED BY <1>1, TruncationsAreDocuments DEF Documents

-----------------------------------------------------------------------------

\* When the process goes, what is in memory has its initial value.
LEMMA ProcessGoneTypeOK ==
  ASSUME TypeOK, ProcessGone, dbFaults' = dbFaults, published' = published,
         badFeeds' = badFeeds, notified' = notified, netFaults' \in 0 .. MaxNetFaults,
         crashes' \in 0 .. MaxCrashes
  PROVE  TypeOK'
<1> USE Assumed
<1>1. /\ pc' = "down" /\ pc' \in Phases
      /\ feed' \in Feeds
      /\ items' \in Seq([title : Titles, link : Links])
      /\ m' \in 1 .. Len(items') + 1
      /\ m_items' \in [Media -> SUBSET Titles]
      /\ content' \in Contents
  <2>1. feed' \in Feeds
    BY DEF ProcessGone, Feeds, ConstantAssumptions
  <2>2. items' = <<>> /\ m' = 1
    BY DEF ProcessGone
  <2>3. m' \in 1 .. Len(items') + 1
    BY <2>2
  <2> QED BY <2>1, <2>2, <2>3 DEF ProcessGone, Phases, Contents
<1>2. DbTypeOK'
  BY DEF ProcessGone, TypeOK, DbTypeOK
<1> QED BY <1>1, <1>2 DEF TypeOK

\* NextItem moves to the item after the current one or past the last one.
LEMMA NextItemTypeOK ==
  ASSUME TypeOK, m \in DOMAIN items, NextItem, UNCHANGED <<feed, items>>
  PROVE  /\ pc' = "scan" /\ pc' \in Phases
         /\ items' \in Seq([title : Titles, link : Links])
         /\ m' \in 1 .. Len(items') + 1
         /\ content' \in Contents
<1>1. items \in Seq([title : Titles, link : Links])
  BY DEF TypeOK
<1>2. m \in 1 .. Len(items) /\ Len(items) \in Nat
  BY <1>1, LenProperties
<1>3. m' \in 1 .. Len(items') + 1
  BY <1>2 DEF NextItem
<1> QED BY <1>1, <1>3 DEF NextItem, Phases, Contents

\* A new_article call is recorded with the title of a feed item.
LEMMA NewArticleTypeOK ==
  ASSUME TypeOK, m \in DOMAIN items, NEW uid \in Nat \cup {NoUid}, NewArticle(uid)
  PROVE  notified' \in Seq([uid : Nat \cup {NoUid}, title : Titles])
<1>1. items[m] \in [title : Titles, link : Links]
  <2>1. items \in Seq([title : Titles, link : Links])
    BY DEF TypeOK
  <2>2. m \in 1 .. Len(items)
    BY <2>1, LenProperties
  <2> QED BY <2>1, <2>2, ElementOfSeq
<1>2. title \in Titles
  BY <1>1 DEF title
<1> QED BY <1>2 DEF NewArticle, TypeOK

-----------------------------------------------------------------------------

\* The program starts in a state of the right types.
LEMMA InitTypeOK == Init => TypeOK
<1> USE Assumed
<1> SUFFICES ASSUME Init PROVE TypeOK
  OBVIOUS
<1>1. DbTypeOK
  <2>1. handle \in BOOLEAN /\ dbFile \in BOOLEAN
    BY DEF Init, DbInit
  <2>2. article \in Seq(Row)
    BY DEF Init, DbInit
  <2>3. tables \subseteq {"newspaper", "article"} /\ newspaper \subseteq Media
    BY DEF Init, DbInit
  <2>4. dbFaults \in 0 .. MaxDbFaults
    BY DEF Init, DbInit, ConstantAssumptions
  <2> QED BY <2>1, <2>2, <2>3, <2>4 DEF DbTypeOK
<1>2. published \in [Feeds -> Seq(Item)]
  BY DEF Init, ConstantAssumptions
<1>3. feed \in Feeds /\ m \in 1 .. Len(items) + 1 /\ badFeeds \subseteq Feeds
  BY DEF Init, NothingInMemory, Feeds, ConstantAssumptions
<1>4. items \in Seq([title : Titles, link : Links]) /\ m_items \in [Media -> SUBSET Titles]
  BY DEF Init, NothingInMemory
<1>5. notified \in Seq([uid : Nat \cup {NoUid}, title : Titles])
  BY DEF Init
<1> QED BY <1>1, <1>2, <1>3, <1>4, <1>5
     DEF Init, NothingInMemory, TypeOK, Phases, Contents, ConstantAssumptions

\* A row that is inserted is a row of the table.
LEMMA InsertArticleTypeOK ==
  ASSUME TypeOK, m \in DOMAIN items, InsertArticle(title, content, media)
  PROVE  article' \in Seq(Row) /\ dbFaults' \in 0 .. MaxDbFaults
<1> USE Assumed
<1>1. items[m] \in [title : Titles, link : Links]
  <2>1. items \in Seq([title : Titles, link : Links])
    BY DEF TypeOK
  <2>2. m \in 1 .. Len(items)
    BY <2>1, LenProperties
  <2> QED BY <2>1, <2>2, ElementOfSeq
<1>2. title \in Titles /\ content \in Contents
  BY <1>1 DEF title, TypeOK
<1>3. PICK uid \in Media \cup {NoNewspaper, QueryFailed} :
        /\ GetNewspaperUid(media, uid)
        /\ article' = Append(article, [title |-> title, content |-> content,
                                       newspaperuid |-> uid])
  BY DEF InsertArticle
<1>4. [title |-> title, content |-> content, newspaperuid |-> uid] \in Row
  BY <1>2 DEF Row
<1>5. article' \in Seq(Row)
  BY <1>3, <1>4 DEF TypeOK, DbTypeOK
<1>6. dbFaults' \in 0 .. MaxDbFaults
  BY <1>3 DEF GetNewspaperUid, DbFault, NoDbFault, TypeOK, DbTypeOK, ConstantAssumptions
<1> QED BY <1>5, <1>6

\* Every step of the program keeps the types.
LEMMA NextTypeOK == TypeOK /\ [Next]_vars => TypeOK'
<1> USE Assumed
<1> SUFFICES ASSUME TypeOK, [Next]_vars PROVE TypeOK'
  OBVIOUS
<1>1. CASE Start
  BY <1>1 DEF Start, TypeOK, DbTypeOK, dbVars, inMemory, environment, Phases
<1>2. CASE OpenDatabase
  <2>1. dbFaults' \in 0 .. MaxDbFaults
    BY <1>2 DEF OpenDatabase, Open, OpenFails, DbFault, NoDbFault, TypeOK, DbTypeOK,
       ConstantAssumptions
  <2>2. handle' \in BOOLEAN /\ dbFile' \in BOOLEAN
    BY <1>2 DEF OpenDatabase, Open, OpenFails, TypeOK, DbTypeOK
  <2>3. pc' \in Phases /\ pc' \notin {"retrieve", "insert", "select"}
    BY <1>2 DEF OpenDatabase, Phases
  <2> QED BY <1>2, <2>1, <2>2, <2>3 DEF OpenDatabase, TypeOK, DbTypeOK, inMemory, environment
<1>3. CASE CreateNewspaperTable
  <2>1. dbFaults' \in 0 .. MaxDbFaults
    BY <1>3 DEF CreateNewspaperTable, CreateTable, DbFault, NoDbFault, TypeOK,
       DbTypeOK, ConstantAssumptions
  <2>2. tables' \subseteq {"newspaper", "article"}
    BY <1>3 DEF CreateNewspaperTable, CreateTable, TypeOK, DbTypeOK
  <2> QED BY <1>3, <2>1, <2>2
       DEF CreateNewspaperTable, TypeOK, DbTypeOK, inMemory, environment, Phases
<1>4. CASE CreateArticleTable
  <2>1. dbFaults' \in 0 .. MaxDbFaults
    BY <1>4 DEF CreateArticleTable, CreateTable, DbFault, NoDbFault, TypeOK,
       DbTypeOK, ConstantAssumptions
  <2>2. tables' \subseteq {"newspaper", "article"}
    BY <1>4 DEF CreateArticleTable, CreateTable, TypeOK, DbTypeOK
  <2> QED BY <1>4, <2>1, <2>2
       DEF CreateArticleTable, TypeOK, DbTypeOK, inMemory, environment, Phases
<1>5. CASE InitNewspapers
  BY <1>5 DEF InitNewspapers, InsertNewspapers, TypeOK, DbTypeOK,
     inMemory, environment, Phases
<1>6. CASE Leech
  <2>1. PICK document \in Documents :
          Download(document) /\ WellFormed(document) /\ items' = document
    BY <1>6 DEF Leech
  <2>2. items' \in Seq([title : Titles, link : Links])
    BY <2>1, DocumentsType, AcceptedItems
  <2>3. m' \in 1 .. Len(items') + 1
    BY <1>6, <2>2, LenProperties DEF Leech
  <2>4. netFaults' \in 0 .. MaxNetFaults
    BY <2>1 DEF Download, TypeOK, ConstantAssumptions
  <2> QED BY <1>6, <2>2, <2>3, <2>4 DEF Leech, TypeOK, DbTypeOK, dbVars, Phases
<1>7. CASE LeechThrows
  <2>1. netFaults' \in 0 .. MaxNetFaults
    BY <1>7 DEF LeechThrows, Download, TypeOK, ConstantAssumptions
  <2> QED BY <1>7, <2>1, ProcessGoneTypeOK DEF LeechThrows, TypeOK
<1>8. CASE ScanKnown
  BY <1>8, NextItemTypeOK DEF ScanKnown, Scanning, TypeOK, DbTypeOK, dbVars, environment
<1>9. CASE ScanStored
  <2>1. dbFaults' \in 0 .. MaxDbFaults
    BY <1>9 DEF ScanStored, Exists, ExistFails, DbFault, NoDbFault, TypeOK, DbTypeOK,
       ConstantAssumptions
  <2> QED BY <1>9, <2>1, NextItemTypeOK DEF ScanStored, Scanning, TypeOK, DbTypeOK, environment
<1>10. CASE ScanNew
  BY <1>10 DEF ScanNew, Scanning, TypeOK, DbTypeOK, dbVars, inMemory, environment, Phases
<1>11. CASE Retrieve
  BY <1>11 DEF Retrieve, TypeOK, DbTypeOK, dbVars, Phases, Contents, ConstantAssumptions
<1>12. CASE RetrieveThrows
  <2>1. netFaults' \in 0 .. MaxNetFaults
    BY <1>12 DEF RetrieveThrows, TypeOK, ConstantAssumptions
  <2> QED BY <1>12, <2>1, ProcessGoneTypeOK DEF RetrieveThrows, TypeOK
<1>13. CASE Insert
  <2>1. m \in DOMAIN items
    BY <1>13 DEF Insert, TypeOK
  <2> QED BY <1>13, <2>1, InsertArticleTypeOK
       DEF Insert, TypeOK, DbTypeOK, inMemory, environment, Phases
<1>14. CASE InsertFails
  <2>1. m \in DOMAIN items
    BY <1>14 DEF InsertFails, TypeOK
  <2>2. dbFaults' \in 0 .. MaxDbFaults /\ article' = article
    BY <1>14 DEF InsertFails, InsertArticleFails, DbFault, NoDbFault, TypeOK, DbTypeOK,
       ConstantAssumptions
  <2>3. notified' \in Seq([uid : Nat \cup {NoUid}, title : Titles])
    BY <1>14, <2>1, NewArticleTypeOK DEF InsertFails
  <2>4. NextItem
    BY <1>14 DEF InsertFails, NewArticle
  <2> QED BY <1>14, <2>1, <2>2, <2>3, <2>4, NextItemTypeOK
       DEF InsertFails, TypeOK, DbTypeOK, environment
<1>15. CASE SelectUid
  <2>1. m \in DOMAIN items
    BY <1>15 DEF SelectUid, TypeOK
  <2>2. dbFaults' \in 0 .. MaxDbFaults
    BY <1>15 DEF SelectUid, ReadUid, ReadUidFails, DbFault, NoDbFault, TypeOK, DbTypeOK,
       ConstantAssumptions
  <2>3. PICK uid \in Nat \cup {NoUid} : NewArticle(uid)
    <3>1. DOMAIN article \subseteq Nat
      <4>1. article \in Seq(Row)
        BY DEF TypeOK, DbTypeOK
      <4> QED BY <4>1, LenProperties
    <3> QED BY <1>15, <3>1 DEF SelectUid
  <2>4. notified' \in Seq([uid : Nat \cup {NoUid}, title : Titles])
    BY <2>1, <2>3, NewArticleTypeOK
  <2>5. NextItem
    BY <2>3 DEF NewArticle
  <2> QED BY <1>15, <2>1, <2>2, <2>4, <2>5, NextItemTypeOK
       DEF SelectUid, TypeOK, DbTypeOK, environment
<1>16. CASE Refresh
  <2>1. items' \in Seq([title : Titles, link : Links]) /\ m' \in 1 .. Len(items') + 1
    BY <1>16 DEF Refresh
  <2>2. feed' \in Feeds
    BY <1>16 DEF Refresh, TypeOK, Feeds, ConstantAssumptions
  <2>3. {items[i].title : i \in DOMAIN items} \subseteq Titles
    <3>1. items \in Seq([title : Titles, link : Links])
      BY DEF TypeOK
    <3>2. \A i \in DOMAIN items : items[i] \in [title : Titles, link : Links]
      BY <3>1, LenProperties, ElementOfSeq
    <3> QED BY <3>2
  <2>4. m_items' \in [Media -> SUBSET Titles]
    BY <1>16, <2>3 DEF Refresh, TypeOK
  <2> QED BY <1>16, <2>1, <2>2, <2>4 DEF Refresh, TypeOK, DbTypeOK, dbVars, environment, Phases
<1>17. CASE Cycle
  BY <1>17 DEF Cycle, TypeOK, DbTypeOK, dbVars, inMemory, environment, Phases
<1>18. CASE Crash
  <2>1. crashes' \in 0 .. MaxCrashes
    BY <1>18 DEF Crash, TypeOK, ConstantAssumptions
  <2> QED BY <1>18, <2>1, ProcessGoneTypeOK DEF Crash, TypeOK
<1>19. CASE Publish
  <2>1. published' \in [Feeds -> Seq(Item)]
    BY <1>19 DEF Publish, TypeOK, ConstantAssumptions
  <2> QED BY <1>19, <2>1 DEF Publish, TypeOK, DbTypeOK, dbVars, procVars
<1>20. CASE UNCHANGED vars
  BY <1>20 DEF vars, dbVars, procVars, TypeOK, DbTypeOK
<1> QED
  BY <1>1, <1>2, <1>3, <1>4, <1>5, <1>6, <1>7, <1>8, <1>9, <1>10, <1>11, <1>12, <1>13,
     <1>14, <1>15, <1>16, <1>17, <1>18, <1>19, <1>20
     DEF Next, Process, InitDatabase, VisitFeed, ScanItem, StoreItem

\* Type correctness of the whole program.
THEOREM TypeCorrect == Spec => []TypeOK
  BY InitTypeOK, NextTypeOK, PTL DEF Spec

-----------------------------------------------------------------------------
(* The inductive invariant *)

\* The invariant holds before anything was stored or announced.
LEMMA InitInv == Init => Inv
<1> SUFFICES ASSUME Init PROVE Inv
  OBVIOUS
<1>1. article = <<>> /\ notified = <<>> /\ pc = "down" /\ ~Usable
  BY DEF Init, DbInit, Usable, HasTable
<1>2. DOMAIN article = {} /\ DOMAIN notified = {}
  BY <1>1
<1>3. UniqueTitles /\ NotificationsInOrder
  BY <1>2 DEF UniqueTitles, NotificationsInOrder
<1>6. LostForFaults
  <2>1. Lost = {}
    BY <1>2 DEF Lost
  <2>2. Cardinality(Lost) = 0
    BY <2>1, FS_EmptySet
  <2> QED BY <2>2 DEF Init, DbInit, LostForFaults
<1>4. NotStoredYet /\ JustStored /\ ScannedAreStored /\ CacheSound
  BY <1>1 DEF NotStoredYet, JustStored, ScannedAreStored, CacheSound
<1>5. MemoryStartsEmpty
  BY <1>1 DEF Init, MemoryStartsEmpty
<1> QED BY <1>3, <1>4, <1>5, <1>6 DEF Inv

\* Steps that leave the table and the announcements alone keep what is said of
\* these two.
LEMMA TableAndAnnouncementsKept ==
  ASSUME Inv, UNCHANGED <<article, notified>>
  PROVE  UniqueTitles' /\ NotificationsInOrder'
  BY DEF Inv, UniqueTitles, NotificationsInOrder, ValidUid

\* The faults are counted and none is forgotten.
FaultsKept == dbFaults' \in dbFaults .. MaxDbFaults /\ crashes' \in crashes .. MaxCrashes

LEMMA FaultsAreKept == TypeOK /\ [Next]_vars => FaultsKept
<1> SUFFICES ASSUME TypeOK, [Next]_vars PROVE FaultsKept
  OBVIOUS
<1>1. /\ MaxDbFaults \in Nat /\ MaxCrashes \in Nat
      /\ dbFaults \in 0 .. MaxDbFaults /\ crashes \in 0 .. MaxCrashes
  BY Assumed DEF ConstantAssumptions, TypeOK, DbTypeOK
<1> USE <1>1 DEF FaultsKept, DbFault, NoDbFault, dbVars, environment
<1>2. CASE Start \/ InitDatabase
  BY <1>2 DEF Start, InitDatabase, OpenDatabase, Open, OpenFails, CreateNewspaperTable,
              CreateArticleTable, CreateTable, InitNewspapers
<1>3. CASE VisitFeed
  BY <1>3 DEF VisitFeed, Leech, LeechThrows, Refresh, Cycle
<1>4. CASE ScanItem
  BY <1>4 DEF ScanItem, ScanKnown, ScanStored, ScanNew, Exists, ExistFails
<1>5. CASE StoreItem
  <2>1. CASE Retrieve \/ RetrieveThrows
    BY <2>1 DEF Retrieve, RetrieveThrows
  <2>2. CASE Insert
    BY <2>2 DEF Insert, InsertArticle, GetNewspaperUid
  <2>4. CASE InsertFails
    BY <2>4 DEF InsertFails, InsertArticleFails
  <2>3. CASE SelectUid
    BY <2>3 DEF SelectUid, ReadUid, ReadUidFails
  <2> QED BY <1>5, <2>1, <2>2, <2>3, <2>4 DEF StoreItem
<1>6. CASE Crash \/ Publish \/ UNCHANGED vars
  BY <1>6 DEF Crash, Publish, vars
<1> QED BY <1>2, <1>3, <1>4, <1>5, <1>6 DEF Next, Process

LEMMA LostAreFinite == TypeOK => IsFiniteSet(Lost) /\ Cardinality(Lost) \in Nat
<1> SUFFICES ASSUME TypeOK PROVE IsFiniteSet(Lost) /\ Cardinality(Lost) \in Nat
  OBVIOUS
<1>1. article \in Seq(Row)
  BY DEF TypeOK, DbTypeOK
<1>2. DOMAIN article = 1 .. Len(article) /\ Len(article) \in Int /\ 1 \in Int
  BY <1>1, LenProperties
<1>3. IsFiniteSet(DOMAIN article)
  BY <1>2, FS_Interval
<1>4. Lost \in SUBSET DOMAIN article
  BY DEF Lost
<1>5. IsFiniteSet(Lost)
  BY <1>3, <1>4, FS_Subset
<1> QED BY <1>5, FS_CardinalityType

\* A step that loses no announcement, and one that loses that of the last row
\* along with a fault.
LEMMA NoneLost ==
  ASSUME TypeOK, Inv, FaultsKept, Lost' \subseteq Lost
  PROVE  LostForFaults'
<1>1. Cardinality(Lost') <= Cardinality(Lost) /\ Cardinality(Lost') \in Nat
  BY LostAreFinite, FS_Subset, FS_CardinalityType
<1>2. Cardinality(Lost) \in Nat /\ Cardinality(Lost) <= dbFaults + crashes
  BY LostAreFinite DEF Inv, LostForFaults
<1> QED BY <1>1, <1>2 DEF FaultsKept, LostForFaults, TypeOK, DbTypeOK

LEMMA OneLost ==
  ASSUME TypeOK, Inv, FaultsKept, Lost' \subseteq Lost \cup {Len(article)},
         dbFaults < dbFaults' \/ crashes < crashes'
  PROVE  LostForFaults'
<1> DEFINE more == Lost \cup {Len(article)}
<1>1. IsFiniteSet(more) /\ Cardinality(more) <= Cardinality(Lost) + 1
  <2>1. IsFiniteSet(Lost) /\ Cardinality(Lost) \in Nat
    BY LostAreFinite
  <2>2. /\ IsFiniteSet(more)
        /\ Cardinality(more) =
             IF Len(article) \in Lost THEN Cardinality(Lost) ELSE Cardinality(Lost) + 1
    BY <2>1, FS_AddElement
  <2> QED BY <2>1, <2>2
<1> HIDE DEF more
<1>2. Cardinality(Lost') <= Cardinality(more) /\ Cardinality(Lost') \in Nat
  <2>1. Lost' \in SUBSET more
    BY DEF more
  <2> QED BY <1>1, <2>1, FS_Subset, FS_CardinalityType
<1>3. Cardinality(more) \in Nat
  BY <1>1, FS_CardinalityType
<1>4. Cardinality(Lost) \in Nat /\ Cardinality(Lost) <= dbFaults + crashes
  BY LostAreFinite DEF Inv, LostForFaults
<1>5. /\ dbFaults \in Int /\ crashes \in Int
      /\ dbFaults' \in Int /\ crashes' \in Int
  BY Assumed DEF FaultsKept, ConstantAssumptions, TypeOK, DbTypeOK
<1>6. PICK a \in Int, b \in Int : a = dbFaults /\ b = crashes
  BY <1>5
<1>7. PICK c \in Int : c = dbFaults'
  BY <1>5
<1>8. PICK d \in Int : d = crashes'
  BY <1>5
<1>9. PICK k \in Int : k = Cardinality(Lost)
  BY <1>4
<1>10. PICK l \in Int : l = Cardinality(Lost')
  BY <1>2
<1>11. l <= k + 1
  BY <1>1, <1>2, <1>3, <1>4, <1>9, <1>10
<1>12. k <= a + b
  BY <1>4, <1>6, <1>9
<1>13. a <= c /\ b <= d
  BY <1>5, <1>6, <1>7, <1>8 DEF FaultsKept
<1>14. a < c \/ b < d
  BY <1>5, <1>6, <1>7, <1>8
<1>15. l <= c + d
  BY <1>6, <1>7, <1>8, <1>9, <1>10, <1>11, <1>12, <1>13, <1>14
<1>16. Cardinality(Lost') <= dbFaults' + crashes'
  BY <1>7, <1>8, <1>10, <1>15, Zenon
<1> QED BY <1>16 DEF LostForFaults

\* Steps that leave the table and the announcements alone lose none, unless a
\* kill leaves that of the last row behind.
LEMMA AnnouncedKept ==
  ASSUME TypeOK, Inv, FaultsKept, UNCHANGED <<article, notified>>,
         pc = "select" => pc' = "select" \/ crashes' = crashes + 1
  PROVE  LostForFaults'
<1>1. CASE pc = "select" => pc' = "select"
  <2>1. Lost' \subseteq Lost
    BY <1>1 DEF Lost, Announced, Pending
  <2> QED BY <2>1, NoneLost
<1>2. CASE pc = "select" /\ pc' # "select"
  <2>1. Lost' \subseteq Lost \cup {Len(article)}
    BY <1>2 DEF Lost, Announced, Pending
  <2>2. crashes < crashes'
    BY <1>2, Assumed DEF ConstantAssumptions, TypeOK
  <2> QED BY <2>1, <2>2, OneLost
<1> QED BY <1>1, <1>2

\* The end of the process, between any two steps.
LEMMA ProcessGoneInv ==
  ASSUME TypeOK, Inv, FaultsKept, ProcessGone, UNCHANGED notified,
         pc = "select" => crashes' = crashes + 1
  PROVE  Inv'
<1>1. pc' = "down" /\ ~Usable' /\ NothingInMemory' /\ UNCHANGED article
  BY DEF ProcessGone, Usable, HasTable, NothingInMemory
<1>2. UniqueTitles' /\ NotificationsInOrder'
  BY <1>1, TableAndAnnouncementsKept
<1>3. NotStoredYet' /\ JustStored' /\ MemoryStartsEmpty' /\ ScannedAreStored' /\ CacheSound'
  BY <1>1 DEF NotStoredYet, JustStored, MemoryStartsEmpty, ScannedAreStored, CacheSound
<1>4. LostForFaults'
  BY <1>1, AnnouncedKept
<1> QED BY <1>2, <1>3, <1>4 DEF Inv

\* The steps of main and init: memory stays empty.
LEMMA InitPhaseInv ==
  ASSUME TypeOK, Inv, FaultsKept, UNCHANGED <<article, notified, inMemory>>,
         pc \in {"down", "open", "createNewspaper", "createArticle", "newspapers"},
         pc' \in {"open", "createNewspaper", "createArticle", "newspapers", "leech"}
  PROVE  Inv'
<1>1. NothingInMemory /\ NothingInMemory'
  BY DEF Inv, MemoryStartsEmpty, NothingInMemory, inMemory
<1>2. UniqueTitles' /\ NotificationsInOrder'
  BY TableAndAnnouncementsKept
<1>3. LostForFaults'
  BY AnnouncedKept
<1>4. NotStoredYet' /\ JustStored' /\ ScannedAreStored'
  BY DEF NotStoredYet, JustStored, ScannedAreStored
<1>5. MemoryStartsEmpty'
  BY <1>1 DEF MemoryStartsEmpty, NothingInMemory
<1>6. CacheSound'
  BY <1>1 DEF CacheSound, NothingInMemory
<1> QED BY <1>2, <1>3, <1>4, <1>5, <1>6 DEF Inv

\* The item under the loop is done and stored, or a statement was rejected: the
\* loop moves on.
LEMMA NextItemInv ==
  ASSUME TypeOK, Inv, NextItem, m \in DOMAIN items,
         UNCHANGED <<article, items, handle, tables>>,
         pc \in {"scan", "insert", "select"},
         dbFaults' = 0 => dbFaults = 0,
         dbFaults' = 0 /\ Usable => title \in StoredTitles
  PROVE  NotStoredYet' /\ JustStored' /\ MemoryStartsEmpty' /\ ScannedAreStored'
<1>1. pc' = "scan" /\ m' = m + 1
  BY DEF NextItem
<1>2. NotStoredYet' /\ JustStored' /\ MemoryStartsEmpty'
  BY <1>1 DEF NotStoredYet, JustStored, MemoryStartsEmpty
<1>3. ScannedAreStored'
  <2> SUFFICES ASSUME dbFaults' = 0, Usable', NEW i \in DOMAIN items, i < m + 1
               PROVE  items[i].title \in StoredTitles'
    BY <1>1 DEF ScannedAreStored
  <2>1. Usable /\ StoredTitles' = StoredTitles
    BY DEF Usable, HasTable, StoredTitles
  <2>2. m \in Int /\ i \in Int
    BY LenProperties DEF TypeOK
  <2>3. CASE i = m
    BY <2>1, <2>3 DEF title
  <2>4. CASE i < m
    BY <2>1, <2>4 DEF Inv, ScannedAreStored
  <2> QED BY <2>2, <2>3, <2>4
<1> QED BY <1>2, <1>3

\* The cache stays sound while neither it nor the table changes.
LEMMA CacheKept ==
  ASSUME Inv, UNCHANGED <<article, m_items, handle, tables>>, dbFaults' = 0 => dbFaults = 0
  PROVE  CacheSound'
  BY DEF Inv, CacheSound, Usable, HasTable, StoredTitles

\* An insertion: the new row has the title of the item, which no row had, and
\* the next uid.
LEMMA InsertRow ==
  ASSUME TypeOK, Inv, Insert
  PROVE  /\ Len(article) \in Nat
         /\ DOMAIN article = 1 .. Len(article)
         /\ DOMAIN article' = 1 .. Len(article) + 1
         /\ Len(article') = Len(article) + 1
         /\ \A u \in DOMAIN article : article'[u] = article[u]
         /\ article'[Len(article) + 1].title = title
         /\ title' = title
         /\ title \notin StoredTitles
         /\ StoredTitles \subseteq StoredTitles'
         /\ dbFaults' = 0 => dbFaults = 0
         /\ Usable /\ Usable'
<1>1. PICK uid \in Media \cup {NoNewspaper, QueryFailed} :
        article' = Append(article, [title |-> title, content |-> content,
                                   newspaperuid |-> uid])
  BY DEF Insert, InsertArticle
<1>2. article \in Seq(Row)
  BY DEF TypeOK, DbTypeOK
<1>3. Usable /\ Usable'
  BY DEF Insert, InsertArticle, Usable, HasTable
<1>4. title' = title
  BY DEF Insert, inMemory, title
<1>5. title \notin StoredTitles
  BY DEF Insert, Inv, NotStoredYet
<1>6. /\ Len(article) \in Nat
      /\ DOMAIN article = 1 .. Len(article)
  BY <1>2, LenProperties
<1>7. /\ DOMAIN article' = 1 .. Len(article) + 1
      /\ Len(article') = Len(article) + 1
      /\ \A u \in DOMAIN article : article'[u] = article[u]
      /\ article'[Len(article) + 1].title = title
  BY <1>1, <1>2, <1>6
<1>8. StoredTitles \subseteq StoredTitles'
  BY <1>6, <1>7 DEF StoredTitles
<1>9. dbFaults' = 0 => dbFaults = 0
  BY DEF Insert, InsertArticle, GetNewspaperUid, DbFault, NoDbFault, TypeOK, DbTypeOK
<1> QED BY <1>3, <1>4, <1>5, <1>6, <1>7, <1>8, <1>9

\* Insert: the row of a title no row had becomes the last one, to be announced.
LEMMA InsertInv ==
  ASSUME TypeOK, Inv, FaultsKept, Insert
  PROVE  Inv'
<1> DEFINE n == Len(article)
<1> USE InsertRow
<1>1. /\ pc = "insert" /\ pc' = "select"
      /\ UNCHANGED <<items, m, m_items, notified, crashes>>
  BY DEF Insert, inMemory, environment
<1>2. UniqueTitles'
  <2> SUFFICES ASSUME NEW u \in 1 .. n + 1, NEW v \in 1 .. n + 1,
                      article'[u].title = article'[v].title
               PROVE  u = v
    BY DEF UniqueTitles
  <2>1. \A w \in 1 .. n : article'[w] = article[w] /\ article[w].title # title
    BY DEF StoredTitles
  <2>2. CASE u \in 1 .. n /\ v \in 1 .. n
    BY <2>1, <2>2 DEF Inv, UniqueTitles
  <2>3. CASE u = n + 1 \/ v = n + 1
    BY <2>1, <2>3
  <2> QED BY <2>2, <2>3
<1>3. NotificationsInOrder'
  <2>1. \A i \in DOMAIN notified : ValidUid(notified[i]) =>
          notified[i].uid \in DOMAIN article
    BY DEF Inv, NotificationsInOrder
  <2> QED BY <1>1, <2>1 DEF Inv, NotificationsInOrder, ValidUid
<1>4. NotStoredYet' /\ MemoryStartsEmpty'
  BY <1>1 DEF NotStoredYet, MemoryStartsEmpty
<1>5. JustStored'
  <2>1. \A i \in DOMAIN notified : ValidUid(notified[i]) => notified[i].uid < n + 1
    BY DEF Inv, NotificationsInOrder
  <2>2. article' # <<>>
    BY DEF n
  <2> QED BY <1>1, <2>1, <2>2 DEF JustStored, ValidUid
<1>6. ScannedAreStored'
  BY <1>1 DEF Inv, ScannedAreStored
<1>7. CacheSound'
  BY <1>1 DEF Inv, CacheSound
<1>8. LostForFaults'
  <2>1. Announced' = Announced
    BY <1>1 DEF Announced
  <2>2. Pending' = {n + 1} /\ Pending = {}
    BY <1>1 DEF Pending
  <2>3. Lost' \subseteq Lost
    BY <2>1, <2>2 DEF Lost
  <2> QED BY <2>3, NoneLost
<1> QED BY <1>2, <1>3, <1>4, <1>5, <1>6, <1>7, <1>8 DEF Inv

\* A call of new_article appends one notification.
LEMMA NewNotification ==
  ASSUME TypeOK, NEW uid, NewArticle(uid)
  PROVE  /\ Len(notified) \in Nat
         /\ DOMAIN notified = 1 .. Len(notified)
         /\ DOMAIN notified' = 1 .. Len(notified) + 1
         /\ \A i \in DOMAIN notified : notified'[i] = notified[i]
         /\ notified'[Len(notified) + 1] = [uid |-> uid, title |-> title]
         /\ Announced' = Announced \cup {uid}
<1>1. notified \in Seq([uid : Nat \cup {NoUid}, title : Titles])
  BY DEF TypeOK
<1>2. Len(notified) \in Nat /\ DOMAIN notified = 1 .. Len(notified)
  BY <1>1, LenProperties
<1>3. /\ DOMAIN notified' = 1 .. Len(notified) + 1
      /\ \A i \in DOMAIN notified : notified'[i] = notified[i]
      /\ notified'[Len(notified) + 1] = [uid |-> uid, title |-> title]
  BY <1>1, <1>2 DEF NewArticle
<1> DEFINE k == Len(notified) + 1
<1>4. Announced' = Announced \cup {uid}
  <2>1. k \in DOMAIN notified' /\ notified'[k].uid = uid
    BY <1>2, <1>3
  <2>2. DOMAIN notified' = DOMAIN notified \cup {k}
    BY <1>2, <1>3
  <2>3. \A i \in DOMAIN notified : notified'[i].uid = notified[i].uid
    BY <1>3
  <2>4. Announced' = {notified'[i].uid : i \in DOMAIN notified'}
    BY DEF Announced
  <2> HIDE DEF k
  <2> QED BY <2>1, <2>2, <2>3, <2>4 DEF Announced
<1> QED BY <1>2, <1>3, <1>4

\* An announcement without a uid changes nothing that is said of valid ones.
LEMMA NoUidAnnounced ==
  ASSUME TypeOK, Inv, NewArticle(NoUid), UNCHANGED article
  PROVE  NotificationsInOrder'
<1> DEFINE n == Len(notified)
<1>0. /\ n \in Nat /\ DOMAIN notified = 1 .. n /\ DOMAIN notified' = 1 .. n + 1
      /\ \A i \in DOMAIN notified : notified'[i] = notified[i]
      /\ notified'[n + 1] = [uid |-> NoUid, title |-> title]
  BY NewNotification
<1> HIDE DEF n
<1>1. \A i \in DOMAIN notified' :
        ValidUid(notified'[i]) => i \in DOMAIN notified /\ notified'[i] = notified[i]
  <2>1. notified'[n + 1].uid = NoUid
    BY <1>0
  <2> QED BY <1>0, <2>1 DEF ValidUid
<1> QED BY <1>1 DEF Inv, NotificationsInOrder, ValidUid

\* After the insertion the row of the title is the last row.
LEMMA FirstRowIsLast ==
  ASSUME TypeOK, Inv, pc = "select", NEW uid \in DOMAIN article, ReadUid(title, uid)
  PROVE  uid = Len(article) /\ article[uid].title = title
<1>1. article \in Seq(Row) /\ article # <<>>
  BY DEF TypeOK, DbTypeOK, Inv, JustStored
<1>2. Len(article) \in DOMAIN article
  BY <1>1, EmptySeq, LenProperties
<1>3. article[uid].title = title
  BY DEF ReadUid, UidsOf
<1> QED BY <1>2, <1>3 DEF Inv, JustStored, UniqueTitles

\* The announcement after an insertion, or the loss of its uid.
LEMMA SelectUidInv ==
  ASSUME TypeOK, Inv, FaultsKept, SelectUid
  PROVE  Inv'
<1>1. /\ pc = "select" /\ m \in DOMAIN items
      /\ UNCHANGED <<handle, tables, article, feed, items, m_items, crashes>>
  BY DEF SelectUid, TypeOK, environment
<1>2. /\ NextItem
      /\ dbFaults' = 0 => dbFaults = 0
      /\ title \in StoredTitles
  <2>1. NextItem
    BY DEF SelectUid, NewArticle
  <2>2. dbFaults' = 0 => dbFaults = 0
    BY DEF SelectUid, ReadUid, ReadUidFails, DbFault, NoDbFault, TypeOK, DbTypeOK
  <2>3. title \in StoredTitles
    <3>1. article \in Seq(Row) /\ article # <<>>
      BY <1>1 DEF TypeOK, DbTypeOK, Inv, JustStored
    <3>2. Len(article) \in DOMAIN article
      BY <3>1, EmptySeq, LenProperties
    <3> QED BY <1>1, <3>2 DEF Inv, JustStored, StoredTitles
  <2> QED BY <2>1, <2>2, <2>3
<1>3. NotStoredYet' /\ JustStored' /\ MemoryStartsEmpty' /\ ScannedAreStored'
  BY <1>1, <1>2, NextItemInv
<1>4. CacheSound'
  BY <1>1, <1>2, CacheKept
<1>5. UniqueTitles'
  BY <1>1 DEF Inv, UniqueTitles
<1>6. NotificationsInOrder' /\ LostForFaults'
  <2>1. CASE ReadUidFails /\ NewArticle(NoUid)
    <3>1. dbFaults < dbFaults' \/ crashes < crashes'
      BY <1>1, <2>1 DEF ReadUidFails, DbFault, Inv, JustStored, TypeOK, DbTypeOK, FaultsKept
    <3>2. Announced \subseteq Announced'
      BY <2>1, NewNotification
    <3>3. Lost' \subseteq Lost \cup {Len(article)}
      BY <1>1, <3>2 DEF Lost, Pending
    <3> QED BY <1>1, <2>1, <3>1, <3>3, NoUidAnnounced, OneLost
  <2>2. ASSUME NEW uid \in DOMAIN article, ReadUid(title, uid), NewArticle(uid)
        PROVE  NotificationsInOrder' /\ LostForFaults'
    <3> DEFINE n == Len(notified)
    <3>0. /\ n \in Nat /\ DOMAIN notified = 1 .. n /\ DOMAIN notified' = 1 .. n + 1
          /\ \A i \in DOMAIN notified : notified'[i] = notified[i]
          /\ notified'[n + 1] = [uid |-> uid, title |-> title]
      BY <2>2, NewNotification
    <3> HIDE DEF n
    <3>1. uid = Len(article) /\ article[uid].title = title
      BY <1>1, <2>2, FirstRowIsLast
    <3>2. \A i \in DOMAIN notified : ValidUid(notified[i]) => notified[i].uid < uid
      BY <1>1, <3>1 DEF Inv, JustStored
    <3>3. \A i \in DOMAIN notified' : ValidUid(notified'[i]) =>
            /\ notified'[i].uid \in DOMAIN article
            /\ article[notified'[i].uid].title = notified'[i].title
      <4> SUFFICES ASSUME NEW i \in 1 .. n + 1, ValidUid(notified'[i])
                   PROVE  /\ notified'[i].uid \in DOMAIN article
                          /\ article[notified'[i].uid].title = notified'[i].title
        BY <3>0
      <4>1. CASE i \in 1 .. n
        BY <3>0, <4>1 DEF Inv, NotificationsInOrder
      <4>2. CASE i = n + 1
        BY <3>0, <3>1, <4>2
      <4> QED BY <3>0, <4>1, <4>2
    <3>4. \A i, j \in DOMAIN notified' :
            i < j /\ ValidUid(notified'[i]) /\ ValidUid(notified'[j])
              => notified'[i].uid < notified'[j].uid
      <4> SUFFICES ASSUME NEW i \in DOMAIN notified', NEW j \in DOMAIN notified', i < j,
                          ValidUid(notified'[i]), ValidUid(notified'[j])
                   PROVE  notified'[i].uid < notified'[j].uid
        OBVIOUS
      <4>1. i \in DOMAIN notified /\ notified'[i] = notified[i]
        BY <3>0
      <4>2. CASE j \in 1 .. n
        BY <3>0, <4>1, <4>2 DEF Inv, NotificationsInOrder
      <4>3. CASE j = n + 1
        BY <3>0, <3>2, <4>1, <4>3
      <4> QED BY <3>0, <4>2, <4>3
    <3>5. NotificationsInOrder'
      BY <1>1, <3>3, <3>4 DEF NotificationsInOrder, ValidUid
    <3>6. LostForFaults'
      <4>1. Announced' = Announced \cup {Len(article)}
        BY <2>2, <3>1, NewNotification
      <4>2. Lost' \subseteq Lost
        BY <1>1, <4>1 DEF Lost, Pending
      <4> QED BY <4>2, NoneLost
    <3> QED BY <3>5, <3>6
  <2> QED BY <2>1, <2>2 DEF SelectUid
<1> QED BY <1>3, <1>4, <1>5, <1>6 DEF Inv

\* A rejected insertion.
LEMMA InsertFailsInv ==
  ASSUME TypeOK, Inv, FaultsKept, InsertFails
  PROVE  Inv'
<1>1. /\ pc = "insert" /\ m \in DOMAIN items /\ NextItem
      /\ UNCHANGED <<handle, tables, article, feed, items, m_items, crashes>>
      /\ NewArticle(NoUid)
  BY DEF InsertFails, InsertArticleFails, NewArticle, TypeOK, environment
<1>2. (dbFaults' = 0 => dbFaults = 0) /\ (Usable => dbFaults' # 0)
  BY DEF InsertFails, InsertArticleFails, DbFault, NoDbFault, TypeOK, DbTypeOK
<1>3. NotStoredYet' /\ JustStored' /\ MemoryStartsEmpty' /\ ScannedAreStored'
  BY <1>1, <1>2, NextItemInv
<1>4. CacheSound'
  BY <1>1, <1>2, CacheKept
<1>5. UniqueTitles'
  BY <1>1 DEF Inv, UniqueTitles
<1>6. NotificationsInOrder'
  BY <1>1, NoUidAnnounced
<1>7. LostForFaults'
  <2>1. Announced \subseteq Announced' /\ Pending' = {} /\ Pending = {}
    BY <1>1, NewNotification DEF NewArticle, NextItem, Pending
  <2>2. Lost' \subseteq Lost
    BY <1>1, <2>1 DEF Lost
  <2> QED BY <2>2, NoneLost
<1> QED BY <1>3, <1>4, <1>5, <1>6, <1>7 DEF Inv

\* Every step of the program keeps the invariant.
LEMMA NextInv == TypeOK /\ Inv /\ [Next]_vars => Inv'
<1> SUFFICES ASSUME TypeOK, Inv, [Next]_vars PROVE Inv'
  OBVIOUS
<1> FaultsKept
  BY FaultsAreKept
<1>1. CASE Start
  BY <1>1, InitPhaseInv DEF Start, dbVars, environment
<1>2. CASE OpenDatabase
  BY <1>2, InitPhaseInv DEF OpenDatabase, Open, OpenFails, DbFault, NoDbFault,
     environment, TypeOK, DbTypeOK
<1>3. CASE CreateNewspaperTable
  BY <1>3, InitPhaseInv DEF CreateNewspaperTable, CreateTable, DbFault, NoDbFault,
     environment, TypeOK, DbTypeOK
<1>4. CASE CreateArticleTable
  BY <1>4, InitPhaseInv DEF CreateArticleTable, CreateTable, DbFault, NoDbFault,
     environment, TypeOK, DbTypeOK
<1>5. CASE InitNewspapers
  BY <1>5, InitPhaseInv DEF InitNewspapers, environment
<1>6. CASE Leech
  <2>1. /\ pc = "leech" /\ pc' = "scan" /\ m' = 1
        /\ UNCHANGED <<article, notified, m_items, handle, tables, dbFaults, crashes>>
    BY <1>6 DEF Leech, dbVars
  <2>2. UniqueTitles' /\ NotificationsInOrder' /\ LostForFaults' /\ CacheSound'
    BY <2>1, TableAndAnnouncementsKept, AnnouncedKept, CacheKept
  <2>3. NotStoredYet' /\ JustStored' /\ MemoryStartsEmpty'
    BY <2>1 DEF NotStoredYet, JustStored, MemoryStartsEmpty
  <2>4. ScannedAreStored'
    <3>1. \A i \in DOMAIN items' : ~(i < m')
      <4>1. items' \in Seq([title : Titles, link : Links])
        BY <1>6, NextTypeOK DEF TypeOK, Next, Process, VisitFeed
      <4> QED BY <2>1, <4>1, LenProperties
    <3> QED BY <3>1 DEF ScannedAreStored
  <2> QED BY <2>2, <2>3, <2>4 DEF Inv
<1>7. CASE LeechThrows
  <2>1. pc # "select"
    BY <1>7 DEF LeechThrows
  <2> QED BY <1>7, <2>1, ProcessGoneInv DEF LeechThrows
<1>8. CASE ScanKnown
  <2>1. /\ pc = "scan" /\ m \in DOMAIN items /\ title \in m_items[media] /\ NextItem
        /\ UNCHANGED <<article, notified, items, m_items, handle, tables, dbFaults, crashes>>
    BY <1>8 DEF ScanKnown, Scanning, dbVars, environment
  <2>2. dbFaults = 0 /\ Usable => title \in StoredTitles
    <3>1. media \in Media
      BY Assumed DEF media, TypeOK, ConstantAssumptions
    <3> QED BY <2>1, <3>1 DEF Inv, CacheSound
  <2>3. NotStoredYet' /\ JustStored' /\ MemoryStartsEmpty' /\ ScannedAreStored'
    BY <2>1, <2>2, NextItemInv
  <2>4. UniqueTitles' /\ NotificationsInOrder' /\ LostForFaults' /\ CacheSound'
    BY <2>1, TableAndAnnouncementsKept, AnnouncedKept, CacheKept
  <2> QED BY <2>3, <2>4 DEF Inv
<1>9. CASE ScanStored
  <2>1. /\ pc = "scan" /\ m \in DOMAIN items /\ NextItem
        /\ UNCHANGED <<article, notified, items, m_items, handle, tables, crashes>>
    BY <1>9 DEF ScanStored, Scanning, environment
  <2>2. /\ dbFaults' = 0 => dbFaults = 0
        /\ dbFaults' = 0 /\ Usable => title \in StoredTitles
    BY <1>9 DEF ScanStored, Exists, ExistFails, DbFault, NoDbFault, TypeOK, DbTypeOK
  <2>3. NotStoredYet' /\ JustStored' /\ MemoryStartsEmpty' /\ ScannedAreStored'
    BY <2>1, <2>2, NextItemInv
  <2>4. UniqueTitles' /\ NotificationsInOrder' /\ LostForFaults' /\ CacheSound'
    BY <2>1, <2>2, TableAndAnnouncementsKept, AnnouncedKept, CacheKept
  <2> QED BY <2>3, <2>4 DEF Inv
<1>10. CASE ScanNew
  <2>1. /\ pc = "scan" /\ pc' = "retrieve" /\ title \notin StoredTitles
        /\ UNCHANGED <<dbVars, inMemory, notified, crashes>>
        /\ Usable
    BY <1>10 DEF ScanNew, Scanning, ExistsNot, environment
  <2>2. UniqueTitles' /\ NotificationsInOrder' /\ LostForFaults' /\ CacheSound'
    BY <2>1, TableAndAnnouncementsKept, AnnouncedKept, CacheKept DEF dbVars, inMemory
  <2>3. NotStoredYet'
    BY <2>1 DEF NotStoredYet, StoredTitles, Usable, HasTable, title, dbVars, inMemory
  <2>4. ScannedAreStored'
    BY <2>1 DEF Inv, ScannedAreStored, Usable, HasTable, StoredTitles, dbVars, inMemory
  <2> QED BY <2>1, <2>2, <2>3, <2>4 DEF Inv, JustStored, MemoryStartsEmpty
<1>11. CASE Retrieve
  <2>1. /\ pc = "retrieve" /\ pc' = "insert"
        /\ UNCHANGED <<dbVars, feed, items, m, m_items, notified, crashes>>
    BY <1>11 DEF Retrieve
  <2>2. UniqueTitles' /\ NotificationsInOrder' /\ LostForFaults' /\ CacheSound'
    BY <2>1, TableAndAnnouncementsKept, AnnouncedKept, CacheKept DEF dbVars
  <2>3. NotStoredYet'
    BY <2>1 DEF Inv, NotStoredYet, StoredTitles, Usable, HasTable, title, dbVars
  <2>4. ScannedAreStored'
    BY <2>1 DEF Inv, ScannedAreStored, Usable, HasTable, StoredTitles, dbVars
  <2> QED BY <2>1, <2>2, <2>3, <2>4 DEF Inv, JustStored, MemoryStartsEmpty
<1>12. CASE RetrieveThrows
  <2>1. pc # "select"
    BY <1>12 DEF RetrieveThrows
  <2> QED BY <1>12, <2>1, ProcessGoneInv DEF RetrieveThrows
<1>13. CASE Insert
  BY <1>13, InsertInv
<1>14. CASE InsertFails
  BY <1>14, InsertFailsInv
<1>15. CASE SelectUid
  BY <1>15, SelectUidInv
<1>16. CASE Refresh
  <2>1. /\ pc = "scan" /\ m \notin DOMAIN items /\ pc' \in {"leech", "sleep"}
        /\ items' = <<>> /\ m' = 1
        /\ m_items' = [m_items EXCEPT ![media] = {items[i].title : i \in DOMAIN items}]
        /\ UNCHANGED <<dbVars, notified, crashes>>
    BY <1>16 DEF Refresh, environment
  <2>2. UniqueTitles' /\ NotificationsInOrder' /\ LostForFaults'
    BY <2>1, TableAndAnnouncementsKept, AnnouncedKept DEF dbVars
  <2>3. NotStoredYet' /\ JustStored' /\ MemoryStartsEmpty' /\ ScannedAreStored'
    BY <2>1 DEF NotStoredYet, JustStored, MemoryStartsEmpty, ScannedAreStored
  <2>4. CacheSound'
    <3> SUFFICES ASSUME dbFaults = 0, Usable, NEW name \in Media
                 PROVE  m_items'[name] \subseteq StoredTitles
      BY <2>1 DEF CacheSound, Usable, HasTable, StoredTitles, dbVars
    <3>1. CASE name # media
      BY <2>1, <3>1 DEF Inv, CacheSound, TypeOK
    <3>2. CASE name = media
      <4>1. \A i \in DOMAIN items : i < m
        <5>1. items \in Seq([title : Titles, link : Links]) /\ m \in 1 .. Len(items) + 1
          BY DEF TypeOK
        <5>2. Len(items) \in Nat /\ DOMAIN items = 1 .. Len(items)
          BY <5>1, LenProperties
        <5> QED BY <2>1, <5>1, <5>2
      <4>2. {items[i].title : i \in DOMAIN items} \subseteq StoredTitles
        BY <2>1, <4>1 DEF Inv, ScannedAreStored
      <4> QED BY <2>1, <3>2, <4>2 DEF TypeOK
    <3> QED BY <3>1, <3>2
  <2> QED BY <2>2, <2>3, <2>4 DEF Inv
<1>17. CASE Cycle
  <2>1. /\ pc = "sleep" /\ pc' = "leech"
        /\ UNCHANGED <<dbVars, inMemory, notified, crashes>>
    BY <1>17 DEF Cycle, environment
  <2>2. UniqueTitles' /\ NotificationsInOrder' /\ LostForFaults' /\ CacheSound'
    BY <2>1, TableAndAnnouncementsKept, AnnouncedKept, CacheKept DEF dbVars, inMemory
  <2>3. MemoryStartsEmpty'
    BY <2>1 DEF Inv, MemoryStartsEmpty, inMemory
  <2> QED BY <2>1, <2>2, <2>3 DEF Inv, NotStoredYet, JustStored, ScannedAreStored
<1>18. CASE Crash
  <2>1. crashes' = crashes + 1
    BY <1>18 DEF Crash
  <2> QED BY <1>18, <2>1, ProcessGoneInv DEF Crash
<1>19. CASE UNCHANGED <<dbVars, procVars, notified, crashes>>
  <2>1. UniqueTitles' /\ NotificationsInOrder' /\ LostForFaults' /\ CacheSound'
    BY <1>19, TableAndAnnouncementsKept, AnnouncedKept, CacheKept DEF dbVars, procVars
  <2>2. NotStoredYet' /\ MemoryStartsEmpty'
    BY <1>19 DEF Inv, NotStoredYet, MemoryStartsEmpty, NothingInMemory, StoredTitles, title,
       Usable, HasTable, dbVars, procVars
  <2>3. JustStored'
    BY <1>19 DEF Inv, JustStored, ValidUid, Usable, HasTable, title, dbVars, procVars
  <2>4. ScannedAreStored'
    BY <1>19 DEF Inv, ScannedAreStored, Usable, HasTable, StoredTitles, dbVars, procVars
  <2> QED BY <2>1, <2>2, <2>3, <2>4 DEF Inv
<1> QED
  BY <1>1, <1>2, <1>3, <1>4, <1>5, <1>6, <1>7, <1>8, <1>9, <1>10, <1>11, <1>12, <1>13,
     <1>14, <1>15, <1>16, <1>17, <1>18, <1>19
     DEF Next, Process, InitDatabase, VisitFeed, ScanItem, StoreItem, Publish, vars

\* The invariant, for every instance of the program.
THEOREM Invariance == Spec => []Inv
  BY InitTypeOK, NextTypeOK, InitInv, NextInv, PTL DEF Spec

\* No article is stored twice.
THEOREM TitlesAreUnique == Spec => []UniqueTitles
<1>1. Inv => UniqueTitles
  BY DEF Inv
<1> QED BY <1>1, Invariance, PTL

\* Valid uids are announced at most once, in order, each with its own title.
THEOREM AnnouncementsAreOrdered == Spec => []NotificationsInOrder
<1>1. Inv => NotificationsInOrder
  BY DEF Inv
<1> QED BY <1>1, Invariance, PTL

\* m_items hides no article that is not stored, unless a statement was rejected.
THEOREM CacheIsSound == Spec => []CacheSound
<1>1. Inv => CacheSound
  BY DEF Inv
<1> QED BY <1>1, Invariance, PTL

\* An announcement without uid is made when a statement that could be executed is
\* rejected: exist() found a table that can be used, and it stays so up to the
\* insert() and the SELECT behind it.
LEMMA NoUidStep ==
  TypeOK /\ Inv /\ [Next]_vars =>
    \/ UNCHANGED notified
    \/ NewArticle(NoUid) /\ dbFaults' = dbFaults + 1
    \/ \E uid \in DOMAIN article : NewArticle(uid)
<1> SUFFICES ASSUME TypeOK, Inv, [Next]_vars
             PROVE  \/ UNCHANGED notified
                    \/ NewArticle(NoUid) /\ dbFaults' = dbFaults + 1
                    \/ \E uid \in DOMAIN article : NewArticle(uid)
  OBVIOUS
<1>1. CASE InsertFails
  <2>1. Usable
    BY <1>1 DEF InsertFails, Inv, NotStoredYet
  <2> QED BY <1>1, <2>1 DEF InsertFails, InsertArticleFails, DbFault
<1>2. CASE SelectUid
  <2>1. Usable
    BY <1>2 DEF SelectUid, Inv, JustStored
  <2> QED BY <1>2, <2>1 DEF SelectUid, ReadUidFails, DbFault
<1>3. CASE ~InsertFails /\ ~SelectUid
  BY <1>3 DEF Next, Start, Process, InitDatabase, VisitFeed, ScanItem, StoreItem, Crash, Publish,
              OpenDatabase, CreateNewspaperTable, CreateArticleTable, InitNewspapers, Leech,
              LeechThrows, Refresh, Cycle, ScanKnown, ScanStored, ScanNew, Retrieve,
              RetrieveThrows, Insert, vars
<1> QED BY <1>1, <1>2, <1>3

LEMMA NamelessAreFinite ==
  TypeOK => IsFiniteSet(Nameless) /\ Cardinality(Nameless) \in Nat
<1> SUFFICES ASSUME TypeOK PROVE IsFiniteSet(Nameless) /\ Cardinality(Nameless) \in Nat
  OBVIOUS
<1>1. DOMAIN notified = 1 .. Len(notified) /\ Len(notified) \in Int /\ 1 \in Int
  BY LenProperties DEF TypeOK
<1>2. IsFiniteSet(DOMAIN notified)
  BY <1>1, FS_Interval
<1>3. Nameless \in SUBSET DOMAIN notified
  BY DEF Nameless
<1>4. IsFiniteSet(Nameless)
  BY <1>2, <1>3, FS_Subset
<1> QED BY <1>4, FS_CardinalityType

\* One more announcement without uid, along with one more rejected statement.
LEMMA NamelessStep ==
  TypeOK /\ Inv /\ NamelessForFaults /\ [Next]_vars => NamelessForFaults'
<1> SUFFICES ASSUME TypeOK, Inv, NamelessForFaults, [Next]_vars PROVE NamelessForFaults'
  OBVIOUS
<1>1. IsFiniteSet(Nameless) /\ Cardinality(Nameless) \in Nat
  BY NamelessAreFinite
<1>2. dbFaults \in Int /\ dbFaults' \in Int /\ dbFaults <= dbFaults'
  BY Assumed, FaultsAreKept DEF FaultsKept, ConstantAssumptions, TypeOK, DbTypeOK
<1>3. CASE Nameless' = Nameless
  BY <1>1, <1>2, <1>3 DEF NamelessForFaults
<1>4. CASE UNCHANGED notified
  BY <1>3, <1>4 DEF Nameless
<1>5. ASSUME NEW uid \in DOMAIN article, NewArticle(uid) PROVE NamelessForFaults'
  <2>1. uid # NoUid
    BY LenProperties DEF TypeOK, DbTypeOK, NoUid
  <2>2. Nameless' = Nameless
    <3> DEFINE n == Len(notified)
    <3>1. /\ n \in Nat /\ DOMAIN notified = 1 .. n /\ DOMAIN notified' = 1 .. n + 1
          /\ \A i \in DOMAIN notified : notified'[i] = notified[i]
          /\ notified'[n + 1] = [uid |-> uid, title |-> title]
      BY <1>5, NewNotification
    <3> HIDE DEF n
    <3> QED BY <2>1, <3>1 DEF Nameless
  <2> QED BY <1>3, <2>2
<1>6. CASE NewArticle(NoUid) /\ dbFaults' = dbFaults + 1
  <2> DEFINE k == Len(notified) + 1
  <2>1. Nameless' = Nameless \cup {k}
    <3> DEFINE n == Len(notified)
    <3>1. /\ n \in Nat /\ DOMAIN notified = 1 .. n /\ DOMAIN notified' = 1 .. n + 1
          /\ \A i \in DOMAIN notified : notified'[i] = notified[i]
          /\ notified'[n + 1] = [uid |-> NoUid, title |-> title]
      BY <1>6, NewNotification
    <3>2. Nameless' = Nameless \cup {n + 1}
      <4> HIDE DEF n
      <4> QED BY <3>1 DEF Nameless
    <3> QED BY <3>2
  <2> HIDE DEF k
  <2>2. Cardinality(Nameless') <= Cardinality(Nameless) + 1 /\ Cardinality(Nameless') \in Nat
    <3>1. /\ IsFiniteSet(Nameless \cup {k})
          /\ Cardinality(Nameless \cup {k}) =
               IF k \in Nameless THEN Cardinality(Nameless) ELSE Cardinality(Nameless) + 1
      BY <1>1, FS_AddElement
    <3>2. Cardinality(Nameless \cup {k}) \in Nat
      BY <3>1, FS_CardinalityType
    <3> QED BY <1>1, <2>1, <3>1, <3>2
  <2> QED BY <1>1, <1>2, <1>6, <2>2 DEF NamelessForFaults
<1> QED BY <1>4, <1>5, <1>6, NoUidStep

LEMMA NamelessInit == Init => NamelessForFaults
<1> SUFFICES ASSUME Init PROVE NamelessForFaults
  OBVIOUS
<1>1. Nameless = {} /\ dbFaults = 0
  BY DEF Init, DbInit, Nameless
<1> QED BY <1>1, FS_EmptySet DEF NamelessForFaults

\* Each row that was not announced cost a rejected statement or a kill, and each
\* announcement without uid a rejected statement.
THEOREM LossesHaveFaults == Spec => []EachLossHasAFault
<1>1. Inv /\ NamelessForFaults => EachLossHasAFault
  BY DEF Inv, EachLossHasAFault
<1> QED
  BY <1>1, TypeCorrect, Invariance, NamelessInit, NamelessStep, PTL DEF Spec

-----------------------------------------------------------------------------
(* The database and the announcements implement ArticleArchive *)

\* Nothing is recorded and nothing announced at first.
LEMMA InitArchive == Init => Archive!Init
<1> SUFFICES ASSUME Init PROVE Archive!Init
  OBVIOUS
<1>1. article = <<>> /\ notified = <<>>
  BY DEF Init, DbInit
<1>2. Recorded = <<>>
  BY <1>1 DEF Recorded
<1>3. Announced = {}
  BY <1>1 DEF Announced
<1> QED BY <1>2, <1>3 DEF Archive!Init

\* An inserted row is recorded under the next uid.
LEMMA InsertRecords ==
  ASSUME TypeOK, Inv, Insert
  PROVE  Archive!Record
<1> DEFINE n == Len(article)
           record == [title |-> title, content |-> content]
<1>1. /\ n \in Nat /\ DOMAIN article = 1 .. n /\ DOMAIN article' = 1 .. n + 1
      /\ \A u \in DOMAIN article : article'[u] = article[u]
      /\ title \notin StoredTitles
  BY InsertRow
<1>2. article'[n + 1].title = title /\ article'[n + 1].content = content
  <2>1. PICK uid \in Media \cup {NoNewspaper, QueryFailed} :
          article' = Append(article, [title |-> title, content |-> content,
                                     newspaperuid |-> uid])
    BY DEF Insert, InsertArticle
  <2>2. article \in Seq(Row)
    BY DEF TypeOK, DbTypeOK
  <2> QED BY <2>1, <2>2, <1>1
<1>3. title \in Titles /\ content \in Contents
  <2>1. items \in Seq([title : Titles, link : Links]) /\ m \in DOMAIN items
    BY DEF Insert, TypeOK
  <2>2. items[m] \in [title : Titles, link : Links]
    BY <2>1, LenProperties, ElementOfSeq
  <2> QED BY <2>2 DEF title, TypeOK
<1>4. Recorded \in Seq([title : Titles, content : Contents])
  <2>1. \A u \in 1 .. n : article[u] \in Row
    BY <1>1, ElementOfSeq DEF TypeOK, DbTypeOK
  <2>2. Recorded \in [1 .. n -> [title : Titles, content : Contents]]
    BY <1>1, <2>1 DEF Recorded, Row
  <2>3. n \in Nat
    BY <1>1
  <2> DEFINE T == [title : Titles, content : Contents]
  <2>4. Seq(T) = UNION {[1 .. k -> T] : k \in Nat}
    BY SeqDef, Zenon
  <2> HIDE DEF n, T
  <2>5. Recorded \in Seq(T)
    BY <2>2, <2>3, <2>4 DEF T
  <2> QED BY <2>5 DEF T
<1>5. Recorded' = Append(Recorded, record)
  <2>1. Len(Recorded) = n
    BY <1>1, <1>4, LenProperties DEF Recorded
  <2>2. Recorded' = [u \in 1 .. n + 1 |->
                       [title |-> article'[u].title, content |-> article'[u].content]]
    BY <1>1 DEF Recorded
  <2>3. Append(Recorded, record) = [u \in 1 .. n + 1 |->
                       IF u = n + 1 THEN record ELSE Recorded[u]]
    BY <1>4, <2>1
  <2>4. ASSUME NEW u \in 1 .. n + 1
        PROVE  [title |-> article'[u].title, content |-> article'[u].content]
                 = IF u = n + 1 THEN record ELSE Recorded[u]
    BY <1>1, <1>2 DEF Recorded
  <2> QED BY <2>2, <2>3, <2>4
<1>6. \A uid \in DOMAIN Recorded : Recorded[uid].title # title
  BY <1>1 DEF Recorded, StoredTitles
<1>7. UNCHANGED (Announced \ {NoUid})
  BY DEF Insert, Announced
<1> QED BY <1>3, <1>5, <1>6, <1>7 DEF Archive!Record

\* The announcement of a uid announces a recorded article after all earlier ones.
LEMMA SelectAnnounces ==
  ASSUME TypeOK, Inv, pc = "select", UNCHANGED article,
         NEW uid \in DOMAIN article, ReadUid(title, uid), NewArticle(uid)
  PROVE  Archive!Announce
<1>1. uid = Len(article)
  BY FirstRowIsLast
<1>2. uid \in Nat /\ uid # NoUid
  BY LenProperties DEF TypeOK, DbTypeOK, NoUid
<1>3. Announced' = Announced \cup {uid}
  BY NewNotification
<1>4. \A v \in Announced \ {NoUid} : v < uid
  BY <1>1 DEF Inv, JustStored, Announced, ValidUid
<1>5. UNCHANGED Recorded /\ uid \in DOMAIN Recorded
  BY DEF Recorded
<1>6. (Announced \ {NoUid})' = (Announced \ {NoUid}) \cup {uid}
  BY <1>2, <1>3
<1> QED BY <1>4, <1>5, <1>6 DEF Archive!Announce

\* Every step of the program records, announces or leaves the archive alone.
LEMMA NextArchive ==
  TypeOK /\ Inv /\ [Next]_vars => [Archive!Next]_(Archive!vars)
<1> SUFFICES ASSUME TypeOK, Inv, [Next]_vars
             PROVE  Archive!Next \/ UNCHANGED Archive!vars
  OBVIOUS
<1>1. CASE UNCHANGED <<article, notified>>
  BY <1>1 DEF Archive!vars, Recorded, Announced
<1>2. CASE Insert
  BY <1>2, InsertRecords DEF Archive!Next
<1>3. ASSUME UNCHANGED article, NewArticle(NoUid)
      PROVE  UNCHANGED Archive!vars
  <2>1. Announced' = Announced \cup {NoUid}
    BY <1>3, NewNotification
  <2> QED BY <1>3, <2>1 DEF Archive!vars, Recorded
<1>4. CASE InsertFails
  BY <1>3, <1>4 DEF InsertFails, InsertArticleFails
<1>5. CASE SelectUid
  BY <1>3, <1>5, SelectAnnounces DEF SelectUid, Archive!Next
<1>6. Next => Insert \/ InsertFails \/ SelectUid \/ UNCHANGED <<article, notified>>
  BY DEF Next, Start, Process, InitDatabase, OpenDatabase, CreateNewspaperTable,
     CreateArticleTable, InitNewspapers, VisitFeed, Leech, LeechThrows, Refresh, Cycle,
     ScanItem, ScanKnown, ScanStored, ScanNew, StoreItem, Retrieve, RetrieveThrows, Crash,
     Publish, ProcessGone, dbVars
<1> QED BY <1>1, <1>2, <1>4, <1>5, <1>6 DEF vars, dbVars

\* The program implements the abstract archive.
THEOREM Refinement == Spec => ImplementsArchive
  BY InitArchive, NextArchive, TypeCorrect, Invariance, PTL
     DEF Spec, ImplementsArchive, Archive!Spec

-----------------------------------------------------------------------------
(* Tables are created with the file or never *)

\* What a process that is not creating the file does to the tables: nothing.
LEMMA TablesKept ==
  ASSUME NEW T, [Next]_vars,
         dbFile, pc \notin {"createNewspaper", "createArticle"}, tables = T
  PROVE  dbFile' /\ pc' \notin {"createNewspaper", "createArticle"} /\ tables' = T
<1>1. CASE OpenDatabase
  BY <1>1 DEF OpenDatabase, Open, OpenFails
<1>2. CASE UNCHANGED vars
  BY <1>2 DEF vars, dbVars, procVars
<1>3. CASE Start \/ InitNewspapers \/ Leech \/ ScanKnown \/ ScanStored \/ ScanNew \/ Retrieve
  BY <1>3 DEF Start, InitNewspapers, Leech, ScanKnown, ScanStored, ScanNew, Retrieve, NextItem,
     dbVars
<1>4. CASE LeechThrows \/ RetrieveThrows \/ Crash
  BY <1>4 DEF LeechThrows, RetrieveThrows, Crash, ProcessGone
<1>5. CASE Insert \/ InsertFails \/ SelectUid \/ Refresh \/ Cycle \/ Publish
  BY <1>5 DEF Insert, InsertFails, SelectUid, NewArticle, NextItem, Refresh, Cycle, Publish,
     dbVars, procVars
<1> QED
  BY <1>1, <1>2, <1>3, <1>4, <1>5
     DEF Next, Process, InitDatabase, VisitFeed, ScanItem, StoreItem,
     CreateNewspaperTable, CreateArticleTable

\* An interrupted creation of the database is final.
THEOREM InterruptedInit == Spec => InterruptedInitIsFinal
<1> SUFFICES ASSUME NEW T \in SUBSET {"newspaper", "article"}
             PROVE  Spec => [](pc = "down" /\ dbFile /\ tables = T => [](tables = T))
  BY DEF InterruptedInitIsFinal
<1> DEFINE Kept == dbFile /\ pc \notin {"createNewspaper", "createArticle"} /\ tables = T
<1>1. pc = "down" /\ dbFile /\ tables = T => Kept
  OBVIOUS
<1>2. Kept /\ [Next]_vars => Kept'
  BY TablesKept
<1>3. Kept => tables = T
  OBVIOUS
<1> HIDE DEF Kept
<1> QED BY <1>1, <1>2, <1>3, PTL DEF Spec

-----------------------------------------------------------------------------
(* Nothing beyond a bad feed is stored *)

\* What arrives of an edition of a feed carries titles of that feed, or what a
\* cut leaves of them.
LEMMA DocumentsAreCarried ==
  ASSUME NEW f \in Feeds, NEW edition \in Editions[f],
         NEW document \in {edition} \cup Truncations(edition, ShortTitles),
         WellFormed(document), NEW i \in DOMAIN document
  PROVE  document[i].title \in Carried(f)
<1> USE Assumed
<1> DEFINE carried == (UNION {TitlesOf(e) : e \in Editions[f]}) \cap Titles
<1>1. edition \in Seq(Item) /\ Len(edition) \in Nat /\ DOMAIN edition = 1 .. Len(edition)
  <2>1. edition \in Seq(Item)
    BY DEF ConstantAssumptions
  <2> QED BY <2>1, LenProperties
<1>2. Carried(f) = carried \cup UNION {ShortTitles[t] : t \in carried}
  BY DEF Carried
<1>3. ASSUME NEW k \in DOMAIN edition, edition[k].title # NoTitle
      PROVE  edition[k].title \in carried
  <2>1. edition[k] \in Item
    BY <1>1
  <2>2. edition[k].title \in Titles
    BY <1>3, <2>1 DEF Item
  <2>3. edition[k].title \in TitlesOf(edition)
    BY DEF TitlesOf
  <2> QED BY <2>2, <2>3
<1>4. document[i].title # NoTitle
  BY DEF WellFormed
<1>5. CASE document = edition
  BY <1>2, <1>3, <1>4, <1>5
<1>6. CASE document \in {SubSeq(edition, 1, n) : n \in 0 .. Len(edition) - 1}
  <2>1. PICK n \in 0 .. Len(edition) - 1 : document = SubSeq(edition, 1, n)
    BY <1>6
  <2>2. i \in 1 .. n /\ document[i] = edition[i]
    <3>1. \A k \in 1 .. n : edition[k] \in Item
      BY <1>1
    <3>2. 1 \in Int /\ n \in Int /\ n >= 0
      BY <1>1
    <3>3. /\ SubSeq(edition, 1, n) \in Seq(Item)
          /\ Len(SubSeq(edition, 1, n)) = IF 1 <= n THEN n - 1 + 1 ELSE 0
          /\ \A k \in 1 .. n - 1 + 1 : SubSeq(edition, 1, n)[k] = edition[1 + k - 1]
      BY <3>1, <3>2, SubSeqProperties
    <3>4. document \in Seq(Item) /\ Len(document) = n
      BY <2>1, <3>2, <3>3
    <3>5. i \in 1 .. n
      BY <3>4, LenProperties
    <3>6. n - 1 + 1 = n /\ 1 + i - 1 = i
      BY <3>2, <3>5
    <3> QED BY <2>1, <3>3, <3>5, <3>6
  <2>3. i \in DOMAIN edition
    BY <1>1, <2>2
  <2> QED BY <1>2, <1>3, <1>4, <2>2, <2>3
<1>7. ASSUME NEW n \in DOMAIN edition, NEW item \in CutItem(edition[n], ShortTitles),
             document = Append(SubSeq(edition, 1, n - 1), item)
      PROVE  document[i].title \in Carried(f)
  <2>1. n \in 1 .. Len(edition) /\ edition[n] \in Item
    BY <1>1
  <2>2. item \in Item
    BY <2>1, CutItemsAreItems
  <2>3. /\ SubSeq(edition, 1, n - 1) \in Seq(Item)
        /\ Len(SubSeq(edition, 1, n - 1)) = n - 1
        /\ \A k \in 1 .. n - 1 : SubSeq(edition, 1, n - 1)[k] = edition[k]
    <3>1. \A k \in 1 .. n - 1 : edition[k] \in Item
      BY <1>1, <2>1
    <3>2. 1 \in Int /\ n - 1 \in Int
      BY <2>1
    <3> QED BY <3>1, <3>2, <1>1, <2>1, SubSeqProperties
  <2>4. /\ i \in 1 .. n
        /\ i < n => document[i] = edition[i]
        /\ i = n => document[i] = item
    BY <1>7, <2>1, <2>2, <2>3
  <2>5. CASE i < n
    BY <1>1, <1>2, <1>3, <1>4, <2>1, <2>4, <2>5
  <2>6. CASE i = n
    <3>1. item.title # NoTitle
      BY <1>4, <2>4, <2>6
    <3>2. \/ item.title = edition[n].title
          \/ item.title \in UNION {ShortTitles[t] : t \in {edition[n].title} \cap DOMAIN ShortTitles}
      BY <2>1, <3>1 DEF CutItem, Item
    <3>3. CASE item.title = edition[n].title
      BY <1>2, <1>3, <2>4, <2>6, <3>1, <3>3
    <3>4. CASE item.title \in UNION {ShortTitles[t] : t \in {edition[n].title} \cap DOMAIN ShortTitles}
      <4>1. edition[n].title \in DOMAIN ShortTitles /\ item.title \in ShortTitles[edition[n].title]
        BY <3>4
      <4>2. edition[n].title # NoTitle
        BY <4>1 DEF ConstantAssumptions
      <4>3. edition[n].title \in carried
        BY <1>3, <4>2
      <4> QED BY <1>2, <2>4, <2>6, <4>1, <4>3
    <3> QED BY <3>2, <3>3, <3>4
  <2> QED BY <2>1, <2>4, <2>5, <2>6
<1> QED BY <1>5, <1>6, <1>7 DEF Truncations

\* Nothing is stored at first and the loops stand at the first feed.
LEMMA InitCarried == Init => OnlyCarried
<1> SUFFICES ASSUME Init PROVE OnlyCarried
  OBVIOUS
<1>1. StoredTitles = {}
  BY DEF Init, DbInit, StoredTitles
<1>2. badFeeds \subseteq Feeds /\ feed = 1
  BY Assumed DEF Init, NothingInMemory, ConstantAssumptions
<1>3. \A b \in badFeeds : feed <= b
  BY <1>2, Assumed DEF Feeds, ConstantAssumptions
<1> QED BY <1>1, <1>3 DEF Init, OnlyCarried, BeyondBadFeedNothingStored

\* A step that stores no row and leaves the loops where they are, or back at
\* the start.
LEMMA CarriedKept ==
  ASSUME TypeOK, OnlyCarried, UNCHANGED <<article, badFeeds, published>>,
         feed' \in {1, feed},
         pc' \in {"scan", "retrieve", "insert", "select"} =>
           UNCHANGED <<feed, items>> /\ pc \in {"scan", "retrieve", "insert", "select"}
  PROVE  OnlyCarried'
<1>1. \A b \in badFeeds : feed' <= b
  BY Assumed DEF OnlyCarried, TypeOK, Feeds, ConstantAssumptions
<1>2. BeyondBadFeedNothingStored'
  BY DEF OnlyCarried, BeyondBadFeedNothingStored, StoredTitles, Reachable
<1>3. pc' \in {"scan", "retrieve", "insert", "select"} =>
        /\ feed' \in Reachable'
        /\ \A i \in DOMAIN items' : items'[i].title \in Carried(feed')
  BY DEF OnlyCarried, Reachable
<1> QED BY <1>1, <1>2, <1>3 DEF OnlyCarried

\* Every step keeps the loops in front of the bad feeds.
LEMMA NextCarried == TypeOK /\ Inv /\ OnlyCarried /\ [Next]_vars => OnlyCarried'
<1> USE Assumed
<1> SUFFICES ASSUME TypeOK, Inv, OnlyCarried, [Next]_vars PROVE OnlyCarried'
  OBVIOUS
<1>1. CASE Start \/ OpenDatabase \/ CreateNewspaperTable \/ CreateArticleTable \/ InitNewspapers
  BY <1>1, CarriedKept DEF Start, OpenDatabase, CreateNewspaperTable, CreateArticleTable,
     InitNewspapers, dbVars, inMemory, environment
<1>2. CASE LeechThrows \/ RetrieveThrows \/ Crash
  BY <1>2, CarriedKept DEF LeechThrows, RetrieveThrows, Crash, ProcessGone
<1>3. CASE ScanKnown \/ ScanStored \/ ScanNew \/ Retrieve
  BY <1>3, CarriedKept DEF ScanKnown, ScanStored, ScanNew, Scanning, Retrieve, NextItem,
     dbVars, inMemory, environment
<1>4. CASE InsertFails \/ SelectUid \/ Cycle
  BY <1>4, CarriedKept DEF InsertFails, InsertArticleFails, SelectUid, NewArticle, NextItem, Cycle,
     dbVars, inMemory, environment
<1>5. CASE UNCHANGED vars
  BY <1>5, CarriedKept DEF vars, dbVars, procVars
<1>6. CASE Leech
  <2>1. PICK document \in Documents : WellFormed(document) /\ items' = document
    BY <1>6 DEF Leech
  <2>2. feed \in Feeds /\ published[feed] \in Editions[feed]
    BY DEF TypeOK, OnlyCarried
  <2>3. \A i \in DOMAIN items' : items'[i].title \in Carried(feed)
    BY <2>1, <2>2, DocumentsAreCarried DEF Documents
  <2>4. UNCHANGED <<feed, badFeeds, published, article>> /\ feed \notin badFeeds
    BY <1>6 DEF Leech, dbVars
  <2>5. feed \in Reachable
    BY <2>4 DEF OnlyCarried, Reachable, TypeOK, Feeds
  <2> QED BY <2>3, <2>4, <2>5 DEF OnlyCarried, BeyondBadFeedNothingStored, StoredTitles, Reachable
<1>7. CASE Insert
  <2>1. /\ pc = "insert" /\ pc' = "select" /\ UNCHANGED <<feed, items, badFeeds, published>>
        /\ feed \in Reachable /\ \A i \in DOMAIN items : items[i].title \in Carried(feed)
    BY <1>7 DEF Insert, inMemory, environment, OnlyCarried
  <2>2. title \in Carried(feed)
    BY <2>1 DEF TypeOK, title
  <2>3. StoredTitles' \subseteq StoredTitles \cup {title}
    BY <1>7, InsertRow DEF StoredTitles
  <2> QED BY <2>1, <2>2, <2>3 DEF OnlyCarried, BeyondBadFeedNothingStored, Reachable
<1>8. CASE Refresh
  <2>1. /\ pc = "scan" /\ pc' \in {"leech", "sleep"} /\ feed \in Reachable
        /\ UNCHANGED <<badFeeds, published, article>>
        /\ feed' \in {1, feed + 1}
    BY <1>8 DEF Refresh, environment, dbVars, OnlyCarried
  <2>2. \A b \in badFeeds : feed' <= b
    BY <2>1 DEF Reachable, TypeOK, Feeds, ConstantAssumptions
  <2> QED BY <2>1, <2>2 DEF OnlyCarried, BeyondBadFeedNothingStored, StoredTitles, Reachable
<1>9. CASE Publish
  <2>1. PICK f \in Feeds : \E edition \in Editions[f] :
          published' = [published EXCEPT ![f] = edition]
    BY <1>9 DEF Publish
  <2>2. \A g \in Feeds : published'[g] \in Editions[g]
    BY <2>1 DEF OnlyCarried, TypeOK
  <2>3. UNCHANGED <<pc, feed, items, badFeeds, article>>
    BY <1>9 DEF Publish, dbVars, procVars
  <2> QED BY <2>2, <2>3 DEF OnlyCarried, BeyondBadFeedNothingStored, StoredTitles, Reachable
<1> QED
  BY <1>1, <1>2, <1>3, <1>4, <1>5, <1>6, <1>7, <1>8, <1>9
     DEF Next, Process, InitDatabase, VisitFeed, ScanItem, StoreItem

\* Nothing that only feeds after a bad one carry is ever stored.
THEOREM BadFeedsEndTheRun == Spec => []BeyondBadFeedNothingStored
<1>1. OnlyCarried => BeyondBadFeedNothingStored
  BY DEF OnlyCarried
<1> QED BY <1>1, InitTypeOK, NextTypeOK, InitInv, NextInv, InitCarried, NextCarried, PTL DEF Spec
=============================================================================
