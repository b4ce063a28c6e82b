--------------------------- MODULE MC_FeedWatcher ---------------------------
(***************************************************************************)
(* Instances of FeedWatcher for TLC.                                       *)
(***************************************************************************)
EXTENDS FeedWatcher

CONSTANTS n1, n2, a, b, c

I(t, l) == [title |-> t, link |-> l]

\* Two newspapers, the first with two feeds that share title a; a feed grows,
\* drops an item, lists a title twice, once carries an unusable link and once
\* an item without title.  Title c is in the last feed only.
SharedMedia == <<n1, n1, n2>>
SharedEditions ==
  <<{<<I(a, "good")>>, <<I(b, "good"), I(a, "good")>>},
    {<<I(a, "good"), I(a, "good")>>},
    {<<I(c, "good")>>, <<I(b, "bad"), I(NoTitle, "good")>>}>>
\* Every address parses, or the one of the second feed does not.
SecondMayBeBad == {{}, {2}}

\* Liveness: two feeds of one newspaper, which may share title a, and one that is
\* alone in its newspaper.
TwinMedia == <<n1, n1, n2>>
TwinEditions ==
  <<{<<I(a, "good")>>, <<I(a, "good"), I(b, "good")>>},
    {<<I(c, "good")>>, <<I(a, "good")>>},
    {<<I(b, "good")>>}>>

\* A cut of b leaves a.
BShortensToA == [t \in Titles |-> IF t = b THEN {a} ELSE {}]

=============================================================================
