--------------------------- MODULE MC_FeedDocument ---------------------------
(***************************************************************************)
(* An instance of FeedDocument for TLC.                                    *)
(***************************************************************************)
EXTENDS FeedDocument

F(tag, text) == [tag |-> tag, text |-> text]

\* Titles, of which "long" shortens to "lo"; the link of an article, which
\* shortens to another address or to none; another text.
MCTexts == {"long", "lo", "plain", "good", "cut", "bad", "other"}
MCShortTexts ==
  [t \in MCTexts |-> CASE t = "long" -> {"lo"} [] t = "good" -> {"cut", "bad"} [] OTHER -> {}]

TitleFirst(title) == <<F("title", title), F("link", "good")>>
LinkFirst(title) == <<F("link", "good"), F("other", "other"), F("title", title)>>

\* Up to three items, the fields in either order, with a repeated title, with a
\* field between and after them, and with an item that lacks its link.
MCEditions ==
  {<<>>,
   <<TitleFirst("long"), LinkFirst("long"), TitleFirst("plain")>>,
   <<LinkFirst("plain"), TitleFirst("plain") \o <<F("title", "long"), F("other", "other")>>>>,
   <<TitleFirst("plain"), <<F("title", "long")>>, TitleFirst("plain")>>}
=============================================================================
