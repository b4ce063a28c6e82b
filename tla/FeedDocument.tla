---------------------------- MODULE FeedDocument ----------------------------
(***************************************************************************)
(* A feed between the socket and get_feeds: operator>> of TinyXML collects  *)
(* the text of the root element, Parse builds what it can of the tree, and  *)
(* xml_feed_visitor walks it.  Nobody looks at the error Parse recorded: a   *)
(* document that was cut, or that misses a tag, is visited as far as it     *)
(* was read.                                                               *)
(*                                                                         *)
(* A document is a sequence of start tags, texts and end tags; one feed     *)
(* document after another arrives, whole, cut anywhere or with one symbol    *)
(* missing.  Attributes, comments, CDATA and entities are left out.         *)
(***************************************************************************)
EXTENDS FeedItems, SequencesExt

CONSTANTS
  Texts,       \* what stands between tags
  Editions,    \* feeds: sequences of items, which are sequences of fields
  ShortTexts   \* the texts a cut can shorten a text to

Field == [tag : {"title", "link", "other"}, text : Texts]
Partial == "partial"     \* the name of a start tag that was cut
NoText == "no text"      \* GetText: NULL
Tags == {"rss", "channel", "item", "title", "link", "other", Partial}

StartTag(tag) == [is |-> "start", of |-> tag]
Text(text) == [is |-> "text", of |-> text]
EndTag(tag) == [is |-> "end", of |-> tag]

\* The document of an edition, and where its items start and end.
OfField(f) == <<StartTag(f.tag), Text(f.text), EndTag(f.tag)>>
OfItem(item) ==
  <<StartTag("item")>> \o FlattenSeq([i \in DOMAIN item |-> OfField(item[i])]) \o <<EndTag("item")>>
OfItems(edition) == FlattenSeq([i \in DOMAIN edition |-> OfItem(edition[i])])
Document(edition) ==
  <<StartTag("rss"), StartTag("channel")>> \o OfItems(edition) \o <<EndTag("channel"), EndTag("rss")>>
StartsAt(edition, i) == 3 + Len(OfItems(SubSeq(edition, 1, i - 1)))
EndsAt(edition, i) == StartsAt(edition, i + 1) - 1

\* What is left of the symbol a cut falls in: a start tag keeps nothing, a part
\* of its name, or all of it, without the ">"; a text keeps its beginning; an end
\* tag is not recognised.
Fragments(symbol) ==
  CASE symbol.is = "start" -> {<<>>, <<StartTag(Partial)>>, <<StartTag(symbol.of)>>}
    [] symbol.is = "text"  -> {<<>>} \cup {<<Text(t)>> : t \in ShortTexts[symbol.of]}
    [] symbol.is = "end"   -> {<<>>}

\* What can arrive of an edition; at is the first symbol that is not read as it
\* was written.  A cut in symbol n leaves n - 1 symbols and a fragment.  A start
\* tag whose name is whole makes the element it was written for.
Undamaged(edition) ==
  LET document == Document(edition)
  IN [edition |-> edition, damage |-> "none", at |-> Len(document) + 1, symbols |-> document]
CutAt(edition, n) ==
  LET document == Document(edition)
  IN {[edition |-> edition, damage |-> "cut",
       at |-> IF fragment = <<document[n]>> THEN n + 1 ELSE n,
       symbols |-> SubSeq(document, 1, n - 1) \o fragment] : fragment \in Fragments(document[n])}
Cuts(edition) == UNION {CutAt(edition, n) : n \in DOMAIN Document(edition)}
DropAt(edition, n) ==
  [edition |-> edition, damage |-> "drop", at |-> n, symbols |-> RemoveAt(Document(edition), n)]
Drops(edition) == {DropAt(edition, n) : n \in DOMAIN Document(edition)}
Arrivals == UNION {{Undamaged(edition)} \cup Cuts(edition) \cup Drops(edition) : edition \in Editions}

ASSUME EditionsAssumption == Editions \subseteq Seq(Seq(Field))
ASSUME ShortTextsAssumption == ShortTexts \in [Texts -> SUBSET Texts]
\* No text is one of the markers of FeedItems.tla.  What is left of a link is
\* no address or that of another page.
ASSUME MarkersAssumption == Texts \cap {NoText, NoTitle, "none"} = {}
ASSUME LinksAssumption ==
  \A edition \in Editions : \A i \in DOMAIN edition : \A j \in DOMAIN edition[i] :
    edition[i][j].tag = "link" => ShortTexts[edition[i][j].text] \subseteq {"bad", "cut"}

VARIABLES
  arrival,     \* what the HTTP client returned
  stage,       \* what feed_leacher and get_feeds do with it, or how that ended
  collected,   \* the text StreamIn collected
  p,           \* the position of Parse in it
  nodes,       \* the elements of the tree, in document order
  open,        \* the elements whose end tag Parse has not seen
  visited,     \* how many elements Accept has visited
  feed_items   \* xml_feed_visitor::m_feed_items

parseVars == <<collected, p, nodes, open>>
visitVars == <<visited, feed_items>>
vars == <<arrival, stage, parseVars, visitVars>>

Ended == {"done", "thrown", "crashed"}
Node == [tag : Tags, parent : Nat, text : Texts \cup {NoText}]

TypeOK ==
  /\ arrival \in Arrivals
  /\ stage \in {"stream", "parse", "visit"} \cup Ended
  /\ \A i \in DOMAIN collected : collected[i].of \in Tags \cup Texts
  /\ p \in 1 .. Len(collected) + 1
  /\ nodes \in Seq(Node)
  /\ \A i \in DOMAIN nodes : nodes[i].parent < i
  /\ open \in Seq(DOMAIN nodes)
  /\ visited \in 0 .. Len(nodes)
  /\ feed_items \in Seq([title : Texts, link : Texts])

NothingRead ==
  /\ stage = "stream"
  /\ collected = <<>> /\ p = 1 /\ nodes = <<>> /\ open = <<>>
  /\ visited = 0 /\ feed_items = <<>>

Init == arrival \in Arrivals /\ NothingRead

-----------------------------------------------------------------------------
(* operator>>: StreamIn, then Parse *)

\* How many elements are open after the first n symbols, whatever their names.
Depth(symbols, n) ==
  LET Count(is) == Cardinality({i \in 1 .. n : symbols[i].is = is})
  IN Count("start") - Count("end")

\* TiXmlDocument::StreamIn: the text up to the end of the first element, by
\* nesting; all of it when that end is missing.
Collected(symbols) ==
  LET ends == {n \in DOMAIN symbols : Depth(symbols, n) <= 0}
  IN IF ends = {} THEN symbols ELSE SubSeq(symbols, 1, Min(ends))

StreamIn ==
  /\ stage = "stream"
  /\ collected' = Collected(arrival.symbols)
  /\ stage' = "parse"
  /\ UNCHANGED <<arrival, p, nodes, open, visitVars>>

Reading(is) == stage = "parse" /\ p \in DOMAIN collected /\ collected[p].is = is
current == IF open = <<>> THEN 0 ELSE Last(open)
ChildrenOf(n) == {i \in DOMAIN nodes : nodes[i].parent = n}

\* (mutation) The element would get the position of the one before it.
ReadElementBefore ==
  /\ Reading("start")
  /\ nodes' = Append(nodes, [tag |-> collected[p].of, parent |-> current, text |-> NoText])
  /\ open' = Append(open, Len(nodes))
  /\ p' = p + 1
  /\ UNCHANGED <<arrival, stage, collected, visitVars>>

\* TiXmlElement::Parse up to the value.  The node is in the tree however the
\* rest of it is read.
ReadElement ==
  /\ Reading("start")
  /\ nodes' = Append(nodes, [tag |-> collected[p].of, parent |-> current, text |-> NoText])
  /\ open' = Append(open, Len(nodes) + 1)
  /\ p' = p + 1
  /\ UNCHANGED <<arrival, stage, collected, visitVars>>

\* ReadValue meets text.  GetText sees it only as the first child.
ReadText ==
  /\ Reading("text")
  /\ nodes' = IF open # <<>> /\ ChildrenOf(current) = {} /\ nodes[current].text = NoText
              THEN [nodes EXCEPT ![current].text = collected[p].of]
              ELSE nodes
  /\ p' = p + 1
  /\ UNCHANGED <<arrival, stage, collected, open, visitVars>>

\* (mutation) The name of the end tag would not be compared.
ReadAnyEndTag ==
  /\ Reading("end")
  /\ open # <<>>
  /\ open' = Front(open)
  /\ p' = p + 1
  /\ UNCHANGED <<arrival, stage, collected, nodes, visitVars>>

\* The end tag of the element.
ReadEndTag ==
  /\ Reading("end")
  /\ open # <<>> /\ collected[p].of = nodes[current].tag
  /\ open' = Front(open)
  /\ p' = p + 1
  /\ UNCHANGED <<arrival, stage, collected, nodes, visitVars>>

\* (mutation) An element with a wrong end tag would be thrown away.
WrongEndTagDropsElement ==
  /\ Reading("end")
  /\ open = <<>> \/ collected[p].of # nodes[current].tag
  /\ nodes' = IF open = <<>> THEN nodes ELSE SubSeq(nodes, 1, current - 1)
  /\ stage' = "visit"
  /\ UNCHANGED <<arrival, collected, p, open, visitVars>>

\* Another end tag: Parse returns 0 through all the elements that are open.
WrongEndTag ==
  /\ Reading("end")
  /\ open = <<>> \/ collected[p].of # nodes[current].tag
  /\ stage' = "visit"
  /\ UNCHANGED <<arrival, parseVars, visitVars>>

\* (mutation) A document that ends too early would be refused.
EndOfTextRefused ==
  /\ stage = "parse" /\ p \notin DOMAIN collected
  /\ stage' = IF open = <<>> THEN "visit" ELSE "thrown"
  /\ UNCHANGED <<arrival, parseVars, visitVars>>

EndOfText ==
  /\ stage = "parse" /\ p \notin DOMAIN collected
  /\ stage' = "visit"
  /\ UNCHANGED <<arrival, parseVars, visitVars>>

-----------------------------------------------------------------------------
(* Accept: xml_feed_visitor::VisitEnter for each element *)

\* FirstChild(name) and GetText: the first child of that name, if any, and its
\* text, which may be NULL.
Named(n, name) == {i \in ChildrenOf(n) : nodes[i].tag = name}
GetText(n, name) == nodes[Min(Named(n, name))].text

here == visited + 1
Visiting == stage = "visit" /\ here \in DOMAIN nodes
AtItem == Visiting /\ nodes[here].tag = "item"

VisitOther ==
  /\ Visiting /\ nodes[here].tag # "item"
  /\ visited' = here
  /\ UNCHANGED <<arrival, stage, parseVars, feed_items>>

Missing(name) == Named(here, name) = {}
Has(name) == ~Missing(name) /\ GetText(here, name) # NoText
Empty(name) == ~Missing(name) /\ GetText(here, name) = NoText
PushBack ==
  feed_items' = Append(feed_items, [title |-> GetText(here, "title"),
                                    link |-> GetText(here, "link")])

\* (mutation) The visitor would skip an item without link.
SkipItemWithoutLink ==
  /\ AtItem
  /\ Has("title")
  /\ \/ Has("link") /\ PushBack
     \/ Missing("link") /\ UNCHANGED feed_items
  /\ visited' = here
  /\ UNCHANGED <<arrival, stage, parseVars>>

VisitItem ==
  /\ AtItem
  /\ Has("title") /\ Has("link")
  /\ PushBack
  /\ visited' = here
  /\ UNCHANGED <<arrival, stage, parseVars>>

\* "malformed xml feed", which nothing catches; the title is looked for first.
VisitThrows ==
  /\ AtItem
  /\ Missing("title") \/ (Has("title") /\ Missing("link"))
  /\ stage' = "thrown"
  /\ UNCHANGED <<arrival, parseVars, visitVars>>

\* A std::string is assigned the NULL of GetText.
VisitCrashes ==
  /\ AtItem
  /\ Empty("title") \/ (Has("title") /\ Empty("link"))
  /\ stage' = "crashed"
  /\ UNCHANGED <<arrival, parseVars, visitVars>>

VisitEnds ==
  /\ stage = "visit" /\ here \notin DOMAIN nodes
  /\ stage' = "done"
  /\ UNCHANGED <<arrival, parseVars, visitVars>>

\* The next feed, or the same one by the next process.
NextDownload ==
  /\ stage \in Ended
  /\ arrival' \in Arrivals
  /\ stage' = "stream"
  /\ collected' = <<>> /\ p' = 1 /\ nodes' = <<>> /\ open' = <<>>
  /\ visited' = 0 /\ feed_items' = <<>>

Parse == ReadElement \/ ReadText \/ ReadEndTag \/ WrongEndTag \/ EndOfText
Visit == VisitOther \/ VisitItem \/ VisitThrows \/ VisitCrashes \/ VisitEnds
Next == StreamIn \/ Parse \/ Visit \/ NextDownload

Spec == Init /\ [][Next]_vars

-----------------------------------------------------------------------------
(* Properties *)

\* The items an edition is published with.
FirstText(item, name, otherwise) ==
  LET i == SelectInSeq(item, LAMBDA f : f.tag = name)
  IN IF i = 0 THEN otherwise ELSE item[i].text
Published(edition) ==
  [i \in DOMAIN edition |-> [title |-> FirstText(edition[i], "title", NoTitle),
                             link |-> FirstText(edition[i], "link", "none")]]
published == Published(arrival.edition)

\* A whole feed gives its items.  A feed that was cut gives one of the documents
\* FeedWatcher.tla takes into account; it ends the process only if one of these
\* has an item without title or link.
OutcomeIsATruncation ==
  LET documents == IF arrival.damage = "none" THEN {published}
                   ELSE {published} \cup Truncations(published, ShortTexts)
  IN arrival.damage # "drop" =>
       /\ stage = "done" => WellFormed(feed_items) /\ feed_items \in documents
       /\ stage \in {"thrown", "crashed"} => \E d \in documents : ~WellFormed(d)

\* The items that are complete before the damage are handed on, in order,
\* unless the visitor ends the process.
ItemsBeforeDamageSurvive ==
  stage = "done" =>
    \A i \in DOMAIN arrival.edition :
      EndsAt(arrival.edition, i) < arrival.at =>
        i \in DOMAIN feed_items /\ feed_items[i] = published[i]

\* A tag or a text that is missing costs the items behind it at most: no item
\* is made up, changed, or left out between two others.
MissingSymbolLosesATail ==
  arrival.damage = "drop" /\ stage = "done" => IsPrefix(feed_items, published)

\* A connection that closes between two items is not noticed: it never ends
\* the process.  The inside of an item begins behind the name of its start tag:
\* a connection that closes after "<item", before the ">", closes inside.
CutBetweenItemsIsHarmless ==
  /\ arrival.damage = "cut"
  /\ \A i \in DOMAIN arrival.edition :
       arrival.at \notin StartsAt(arrival.edition, i) + 1 .. EndsAt(arrival.edition, i)
  /\ WellFormed(published)
  => stage \notin {"thrown", "crashed"}
=============================================================================
