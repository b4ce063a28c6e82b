--------------------------- MODULE Configuration ---------------------------
(***************************************************************************)
(* runcom_parser (runcom_parser.cpp): what a start of newswatch makes of    *)
(* the settings file and of the feeds file it names.  The semantic actions  *)
(* of the feeds grammar run while the rest of the file is still unread, so  *)
(* a file that is damaged leaves a part of a configuration behind; main     *)
(* ignores the results and watches what there is.                          *)
(*                                                                         *)
(* A file is a sequence of symbols without the white space the skipper      *)
(* skips.  Between quotes every symbol but a quote is text.                *)
(***************************************************************************)
EXTENDS Integers, SequencesExt

CONSTANTS
  Texts,      \* names and addresses, as they are written
  Written,    \* the configurations the user may have written
  Settings,   \* the settings files: sequences of lines [item, value] and SkippedLine
  FeedsFile,  \* the name under which the feeds file lies on the disk
  NoFile,     \* m_feed_filename = ""
  SkippedLine \* a comment, or a line without = or without quotes

Keywords == {"section", "quote", "=", "end"}
ASSUME TextsAssumption == Texts \cap Keywords = {}
ASSUME FileNames == NoFile # FeedsFile

\* What a user writes: every section and every feed has a name, every feed an
\* address.
Word == Seq(Texts) \ {<<>>}
WrittenFeed == [m_feed_name : Word, m_feed_address : Word]
ASSUME WrittenAssumption ==
  Written \subseteq Seq([m_media_name : Word, m_feeds : Seq(WrittenFeed)])
ASSUME SettingsAssumption == \A s \in Settings : s \in Seq(Range(s))

Feed == [m_feed_name : Seq(Texts \cup Keywords), m_feed_address : Seq(Texts \cup Keywords)]
Media == [m_media_name : Seq(Texts \cup Keywords), m_feeds : Seq(Feed)]

VARIABLES
  written,  \* the configuration the feeds file is meant to have
  damage,   \* and what became of the file
  settings, \* the settings file
  lines,    \* and what is still to be read of it
  m_feed_filename,
  m_medias,
  rest,     \* of the feeds file, still to be parsed
  pc,
  logged    \* "nothing", "could not open file" or "parse error"

files == <<written, damage, settings>>
vars == <<files, lines, m_feed_filename, m_medias, rest, pc, logged>>

-----------------------------------------------------------------------------
\* How the file is written (feeds.txt); "end" stands for "end section".
Quoted(text) == <<"quote">> \o text \o <<"quote">>
WriteFeed(f) == Quoted(f.m_feed_name) \o <<"=">> \o Quoted(f.m_feed_address)
WriteMedia(m) ==
  <<"section">> \o Quoted(m.m_media_name)
    \o FlattenSeq([j \in DOMAIN m.m_feeds |-> WriteFeed(m.m_feeds[j])]) \o <<"end">>
Write(medias) == FlattenSeq([i \in DOMAIN medias |-> WriteMedia(medias[i])])

\* An editor, a full disk or a slip of the hand: the file ends before position
\* `at` (also for the byte -1, where getline stops, and for the byte 0, where
\* c_str does), the symbol there is missing, or a quote is in front of it.
Damages(file) ==
  [kind : {"none"}, at : {Len(file) + 1}] \cup [kind : {"cut", "drop"}, at : DOMAIN file]
    \cup [kind : {"quote"}, at : 1 .. Len(file) + 1]
Damaged(file, d) ==
  CASE d.kind = "none"  -> file
    [] d.kind = "cut"   -> SubSeq(file, 1, d.at - 1)
    [] d.kind = "drop"  -> RemoveAt(file, d.at)
    [] d.kind = "quote" -> InsertAt(file, d.at, "quote")

IsFeedsLine(line) == line # SkippedLine /\ line.item = "feeds"
FeedsLines(s) == {n \in DOMAIN s : IsFeedsLine(s[n])}

TypeOK ==
  /\ written \in Written /\ damage \in Damages(Write(written)) /\ settings \in Settings
  /\ IsSuffix(lines, settings)
  /\ m_feed_filename \in {NoFile} \cup {settings[n].value : n \in FeedsLines(settings)}
  /\ m_medias \in Seq(Media)
  /\ rest \in Seq(Texts \cup Keywords)
  /\ pc \in {"parse", "section", "feeds", "address", "failed", "watch"}
  /\ logged \in {"nothing", "could not open file", "parse error"}

\* A start of the process, with whatever files are there; a settings file that
\* cannot be opened counts as an empty one.
Init ==
  /\ written \in Written /\ damage \in Damages(Write(written))
  /\ settings \in Settings /\ lines = settings
  /\ m_feed_filename = NoFile
  /\ m_medias = <<>> /\ rest = <<>>
  /\ pc = "parse" /\ logged = "nothing"

-----------------------------------------------------------------------------
\* parse: the last line of an item counts, an unknown item is only kept.
ReadLineOfAnyItem ==
  /\ pc = "parse" /\ lines # <<>>
  /\ lines' = Tail(lines)
  /\ m_feed_filename' = IF Head(lines) = SkippedLine THEN m_feed_filename ELSE Head(lines).value
  /\ UNCHANGED <<files, m_medias, rest, pc, logged>>

ReadLine ==
  /\ pc = "parse" /\ lines # <<>>
  /\ lines' = Tail(lines)
  /\ m_feed_filename' = IF IsFeedsLine(Head(lines)) THEN Head(lines).value ELSE m_feed_filename
  /\ UNCHANGED <<files, m_medias, rest, pc, logged>>

\* parse_feeds opens the file; when it cannot, main goes on without feeds.
ReadFeedsFile ==
  /\ pc = "parse" /\ lines = <<>> /\ m_feed_filename = FeedsFile
  /\ pc' = "section" /\ rest' = Damaged(Write(written), damage)
  /\ UNCHANGED <<files, lines, m_feed_filename, m_medias, logged>>

CouldNotOpen ==
  /\ pc = "parse" /\ lines = <<>> /\ m_feed_filename # FeedsFile
  /\ pc' = "watch" /\ logged' = "could not open file"
  /\ UNCHANGED <<files, lines, m_feed_filename, m_medias, rest>>

-----------------------------------------------------------------------------
\* The grammar.  *~ch_p('"') reads up to the next quote or the end of the file
\* and its action runs at once, whatever follows.
From(s, i) == SubSeq(s, i, Len(s))
UpToQuote(s) ==
  LET q == SelectInSeq(s, LAMBDA symbol : symbol = "quote")
  IN IF q = 0 THEN s ELSE SubSeq(s, 1, q - 1)

Expect(symbols, tail, next) ==
  IF IsPrefix(symbols, tail)
  THEN pc' = next /\ rest' = From(tail, Len(symbols) + 1)
  ELSE pc' = "failed" /\ UNCHANGED rest

BeginSection ==
  /\ pc = "section" /\ IsPrefix(<<"section", "quote">>, rest)
  /\ LET section == UpToQuote(From(rest, 3))
     IN /\ m_medias' = Append(m_medias, [m_media_name |-> section, m_feeds |-> <<>>])
        /\ Expect(<<"quote">>, From(rest, 3 + Len(section)), "feeds")
  /\ UNCHANGED <<files, lines, m_feed_filename, logged>>

\* The feed is in the configuration from here on, with the address "".
SetCurrentRssName ==
  /\ pc = "feeds" /\ IsPrefix(<<"quote">>, rest)
  /\ LET feed_name == UpToQuote(Tail(rest))
         feed == [m_feed_name |-> feed_name, m_feed_address |-> <<>>]
     IN /\ m_medias' = [m_medias EXCEPT ![Len(m_medias)].m_feeds = Append(@, feed)]
        /\ Expect(<<"quote", "=", "quote">>, From(rest, 2 + Len(feed_name)), "address")
  /\ UNCHANGED <<files, lines, m_feed_filename, logged>>

AddRssToFirstFeed ==
  /\ pc = "address"
  /\ LET address == UpToQuote(rest)
     IN /\ m_medias' = [m_medias EXCEPT ![Len(m_medias)].m_feeds[1].m_feed_address = address]
        /\ Expect(<<"quote">>, From(rest, 1 + Len(address)), "feeds")
  /\ UNCHANGED <<files, lines, m_feed_filename, logged>>

AddRssToSection ==
  /\ pc = "address"
  /\ LET address == UpToQuote(rest)
         media == Last(m_medias)
     IN /\ m_medias' = [m_medias EXCEPT
             ![Len(m_medias)].m_feeds[Len(media.m_feeds)].m_feed_address = address]
        /\ Expect(<<"quote">>, From(rest, 1 + Len(address)), "feeds")
  /\ UNCHANGED <<files, lines, m_feed_filename, logged>>

EndSection ==
  /\ pc = "feeds" /\ IsPrefix(<<"end">>, rest)
  /\ pc' = "section" /\ rest' = Tail(rest)
  /\ UNCHANGED <<files, lines, m_feed_filename, m_medias, logged>>

\* The grammar is left with a part of the file unread: not `full`.
NotFull ==
  \/ pc = "failed"
  \/ pc = "section" /\ rest # <<>> /\ ~IsPrefix(<<"section", "quote">>, rest)
  \/ pc = "feeds" /\ ~IsPrefix(<<"quote">>, rest) /\ ~IsPrefix(<<"end">>, rest)

RejectClears ==
  /\ NotFull
  /\ pc' = "watch" /\ logged' = "parse error" /\ m_medias' = <<>>
  /\ UNCHANGED <<files, lines, m_feed_filename, rest>>

RejectIfNotHit ==
  /\ NotFull
  /\ pc' = "watch"
  /\ UNCHANGED <<files, lines, m_feed_filename, m_medias, rest, logged>>

Reject ==
  /\ NotFull
  /\ pc' = "watch" /\ logged' = "parse error"
  /\ UNCHANGED <<files, lines, m_feed_filename, m_medias, rest>>

Accept ==
  /\ pc = "section" /\ rest = <<>>
  /\ pc' = "watch"
  /\ UNCHANGED <<files, lines, m_feed_filename, m_medias, rest, logged>>

\* The process is started again, perhaps with other files.
Restart ==
  /\ pc = "watch"
  /\ written' \in Written /\ damage' \in Damages(Write(written'))
  /\ settings' \in Settings /\ lines' = settings'
  /\ m_feed_filename' = NoFile
  /\ m_medias' = <<>> /\ rest' = <<>>
  /\ pc' = "parse" /\ logged' = "nothing"

Next ==
  \/ ReadLine \/ ReadFeedsFile \/ CouldNotOpen
  \/ BeginSection \/ SetCurrentRssName \/ AddRssToSection \/ EndSection
  \/ Reject \/ Accept \/ Restart

Spec == Init /\ [][Next]_vars

-----------------------------------------------------------------------------
AllFeeds(medias) == FlattenSeq([i \in DOMAIN medias |-> medias[i].m_feeds])
FeedsFileIsNamed ==
  LET s == FeedsLines(settings) IN s # {} /\ settings[Max(s)].value = FeedsFile

\* The part of the file up to the end of feed j of section i, without its "end".
UpToFeed(i, j) ==
  Front(Write(Append(SubSeq(written, 1, i - 1),
                     [written[i] EXCEPT !.m_feeds = SubSeq(@, 1, j)])))

\* Whatever the parser meets in the feeds file that the last feeds line of the
\* settings names, the feeds that stand before the damage are watched under
\* their names, addresses and sections, and an undamaged file is read exactly
\* and without complaint.
IntactFeedsAreConfigured ==
  pc = "watch" /\ FeedsFileIsNamed =>
    /\ \A i \in DOMAIN written : \A j \in DOMAIN written[i].m_feeds :
          Len(UpToFeed(i, j)) < damage.at =>
            /\ i \in DOMAIN m_medias
            /\ m_medias[i].m_media_name = written[i].m_media_name
            /\ j \in DOMAIN m_medias[i].m_feeds
            /\ m_medias[i].m_feeds[j] = written[i].m_feeds[j]
    /\ damage.kind = "none" => m_medias = written /\ logged = "nothing"

\* A file that is rejected leaves at most one feed that the user did not write,
\* the last one: a feed whose address is missing or wrong, on which get_feeds
\* throws (BadFeeds of FeedWatcher), hides no feed that was read.
OnlyTheLastIsBroken ==
  pc = "watch" /\ logged = "parse error" =>
    LET feeds == AllFeeds(m_medias)
    IN feeds # <<>> => IsPrefix(Front(feeds), AllFeeds(written))

\* A file that is accepted has lost at most whole sections at its end, by a cut
\* between two of them, or a single text, by which no feed disappears.
NoSilentLoss ==
  pc = "watch" /\ logged = "nothing" =>
    \/ damage.kind \in {"none", "cut"} /\ IsPrefix(m_medias, written)
    \/ /\ damage.kind = "drop" /\ Write(written)[damage.at] \in Texts
       /\ Len(m_medias) = Len(written)
       /\ \A i \in DOMAIN written : Len(m_medias[i].m_feeds) = Len(written[i].m_feeds)
=============================================================================
