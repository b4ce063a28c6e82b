----------------------------- MODULE FeedItems -----------------------------
(***************************************************************************)
(* The items of an RSS feed as xml_feed_visitor hands them to get_feeds,    *)
(* and what of them arrives when the download of the feed is cut.          *)
(* FeedWatcher.tla is built on these outcomes; that they are the ones the    *)
(* XML parser and the visitor produce is what FeedDocument.tla shows.       *)
(***************************************************************************)
EXTENDS Integers, Sequences

\* The link of an item: of its article; no address at all; the tag is missing;
\* the address of another page (a link that was cut but still parses).
Links == {"good", "bad", "none", "cut"}
NoTitle == "no title"

\* The item a cut fell in: its link missing or shortened, or, when the link
\* stands before the title, the title missing or one of those it shortens to.
CutItem(item, shortTitles) ==
  {[item EXCEPT !.link = link] : link \in {"none", "bad", "cut"}} \cup
  {[item EXCEPT !.title = title] :
     title \in {NoTitle} \cup UNION {shortTitles[t] : t \in {item.title} \cap DOMAIN shortTitles}}

\* What arrives when a download is cut: the items before the cut, perhaps with
\* the item the cut fell in.
Truncations(edition, shortTitles) ==
  {SubSeq(edition, 1, n) : n \in 0 .. Len(edition) - 1} \cup
  UNION {{Append(SubSeq(edition, 1, n - 1), item) : item \in CutItem(edition[n], shortTitles)} :
           n \in DOMAIN edition}

\* xml_feed_visitor throws at the first item without title or link.
WellFormed(document) ==
  \A i \in DOMAIN document : document[i].title # NoTitle /\ document[i].link # "none"
=============================================================================
