-------------------------- MODULE MC_Configuration --------------------------
(***************************************************************************)
(* Up to two sections of up to two feeds, every name and address different, *)
(* so that a text that is read at the wrong place shows.                    *)
(***************************************************************************)
EXTENDS Configuration, TLC

NumberOf(i, j) == ToString(2 * (i - 1) + j)
MCTexts == {"m1", "m2"} \cup {kind \o ToString(k) : kind \in {"n", "a"}, k \in 1 .. 4}

FeedOf(i, j) ==
  [m_feed_name |-> <<"n" \o NumberOf(i, j), "a1">>, m_feed_address |-> <<"a" \o NumberOf(i, j)>>]
\* The configuration whose section i has counts[i] feeds.
Shaped(counts) ==
  [i \in DOMAIN counts |->
     [m_media_name |-> <<"m" \o ToString(i), "n1">>, m_feeds |-> [j \in 1 .. counts[i] |-> FeedOf(i, j)]]]
MCWritten == {Shaped(counts) : counts \in {<<>>, <<0>>, <<2>>, <<1, 2>>, <<2, 1>>, <<0, 1>>, <<1, 0>>}}

Line(item, value) == [item |-> item, value |-> value]
\* A plain settings file, one with the item twice and the right file last, one
\* with another file last, and one without the item.
MCSettings ==
  {<<Line("feeds", FeedsFile), Line("watch_cycle", "00:30:00")>>,
   <<Line("feeds", "old"), SkippedLine, Line("feeds", FeedsFile)>>,
   <<Line("feeds", FeedsFile), Line("feeds", "old")>>,
   <<Line("feed", FeedsFile)>>}
=============================================================================
