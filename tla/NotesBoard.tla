----------------------------- MODULE NotesBoard -----------------------------
(***************************************************************************)
(* What the notes' views show (packages/notes-core: tags.ts, mode.ts,        *)
(* entryFiltering.ts, stickyGroups.ts), as functions of one                   *)
(* entry and the filters, which the user changes one at a time.               *)
(*                                                                            *)
(* A section is what the parsers find in it: its tags, the first valid date   *)
(* token, and whether there is prose besides.  A search is for a word, which  *)
(* occurs in all prose, or for a phrase that spans sections.  Days are        *)
(* numbers, weeks start at multiples of seven; 0 stands for no date.  A       *)
(* selected date is the set of its days: one, or those of a month.            *)
(***************************************************************************)
EXTENDS Integers, Sequences, FiniteSets

CONSTANTS
  EntryTexts,  \* the texts considered: sequences of sections
  TagFilters,  \* the values of selectedTags
  DayFilters,  \* the values of selectedDate, AnyDate among them
  DoneDays,    \* the days an entry may be done, NoDay among them
  EntryDay,    \* the entry's own date
  Today

NoDay == 0
AnyDate == {}
NoQuery == ""
Queries == {NoQuery, "word", "phrase"}
Untagged == "__untagged__"

\* What the parsers make of a section.
Sections == [tags : SUBSET Seq(STRING), date : Nat, prose : BOOLEAN]

ASSUME BoardAssumption ==
  /\ EntryTexts \subseteq Seq(Sections)
  /\ {} \in TagFilters
  /\ AnyDate \in DayFilters /\ DayFilters \subseteq SUBSET Nat
  /\ NoDay \in DoneDays /\ DoneDays \cup {EntryDay, Today} \subseteq Nat

VARIABLES
  text, doneAt, archived,                \* of the entry
  selectedTags, selectedDate, searching  \* the filters

entryVars == <<text, doneAt, archived>>
filterVars == <<selectedTags, selectedDate, searching>>
boardVars == <<entryVars, filterVars>>

-----------------------------------------------------------------------------
(* tags.ts                                                                  *)

isTagOnlySection(section) == ~section.prose
HasGlobalTag(sections) == sections # <<>> /\ isTagOnlySection(sections[Len(sections)])
getEntryLevelTags(sections) == IF HasGlobalTag(sections) THEN sections[Len(sections)].tags ELSE {}
getEntryLevelDate(sections) == IF HasGlobalTag(sections) THEN sections[Len(sections)].date ELSE NoDay
resolveSectionDates(section) == {EntryDay} \cup ({section.date} \ {NoDay})

-----------------------------------------------------------------------------
(* entryFiltering.ts                                                        *)

\* A tag is a sequence of one or two names: the root and its child.
tagMatchesSelected(tag, selected) ==
  Len(selected) <= Len(tag) /\ SubSeq(tag, 1, Len(selected)) = selected

AnyTagMatches(tags, selection) ==
  \E st \in selection \ {<<Untagged>>} : \E t \in tags : tagMatchesSelected(t, st)

tagsMatchSelection(tags, selection) ==
  \/ selection = {} \/ AnyTagMatches(tags, selection)
  \/ <<Untagged>> \in selection /\ tags = {}

dateMatchesSelection(section, days) ==
  days = AnyDate \/ days \cap resolveSectionDates(section) # {}

matchesQuery(section, query) == query = NoQuery \/ (query = "word" /\ section.prose)

\* 'upcoming' wants an explicit date, of the section or of the entry.
sectionDateForTab(section, entryLevelDate) ==
  IF entryLevelDate # NoDay THEN entryLevelDate ELSE section.date
matchesDateTab(day, tab) == tab = "all" \/ day # NoDay

\* The trailing tag-only section, when the selection accepts its tags, speaks for
\* every section; otherwise it is left out and each other tag-only section speaks
\* for the run of sections it closes, a section after the last of them for itself.
GlobalTagMatches(sections, selection) ==
  HasGlobalTag(sections) /\ (selection = {} \/ AnyTagMatches(getEntryLevelTags(sections), selection))

RemainingLength(sections) == IF HasGlobalTag(sections) THEN Len(sections) - 1 ELSE Len(sections)

\* The positions of the group, or of the leftover section, that i belongs to.
groupSectionsByTag(sections, i) ==
  LET closers == {j \in 1..RemainingLength(sections) : isTagOnlySection(sections[j])}
      before == {j \in closers : j < i}
      after == {j \in closers : j >= i}
  IN IF after = {} THEN {i}
     ELSE {j \in 1..RemainingLength(sections) :
             (\A b \in before : b < j) /\ (\A a \in after : j <= a)}

\* The tags a group is selected by: the ones of its last section.
GroupTags(sections, group) == sections[CHOOSE i \in group : \A j \in group : i >= j].tags

GroupSelectedUnlessDated(group, selection, day) ==
  day = AnyDate => tagsMatchSelection(GroupTags(text, group), selection)
GroupSelected(group, selection, day) == tagsMatchSelection(GroupTags(text, group), selection)

\* What filterParagraphsInEntry() in mode 'tag' and filterParagraphsForTab() share:
\* the positions shown.  A group passes the tests of its closing section's tags,
\* and one of its sections each other test.
Shown(selection, day, tab, query) ==
  {i \in 1..Len(text) :
     LET Some(Test(_)) == \E j \in groupSectionsByTag(text, i) : Test(text[j]) IN
     IF GlobalTagMatches(text, selection)
     THEN /\ dateMatchesSelection(text[i], day)
          /\ matchesDateTab(sectionDateForTab(text[i], getEntryLevelDate(text)), tab)
          /\ matchesQuery(text[i], query)
     ELSE /\ i <= RemainingLength(text)
          /\ GroupSelected(groupSectionsByTag(text, i), selection, day)
          /\ Some(LAMBDA s : dateMatchesSelection(s, day))
          /\ Some(LAMBDA s : matchesDateTab(s.date, tab))
          /\ Some(LAMBDA s : matchesQuery(s, query))}

filterParagraphsInEntry(mode, selection, day, query) ==
  CASE mode = "all" -> 1..Len(text)
    [] mode = "tag" -> Shown(selection, day, "all", NoQuery)
    [] mode = "search" -> {i \in 1..Len(text) : matchesQuery(text[i], query)}

\* A done entry is shown in 'upcoming' whether it has a date or not.
filterParagraphsForTab(tab, selection, day, query) ==
  IF tab = "upcoming" /\ doneAt # NoDay
  THEN {i \in filterParagraphsInEntry("tag", selection, day, NoQuery) : matchesQuery(text[i], query)}
  ELSE Shown(selection, day, tab, query)

\* Whether filterEntries() lists the entry: a section of its own matches, or in a
\* search the text as a whole.
filterEntries(mode, selection, day, query) ==
  CASE mode = "all" -> TRUE
    [] mode = "tag" -> \E i \in 1..Len(text) :
         tagsMatchSelection(text[i].tags, selection) /\ dateMatchesSelection(text[i], day)
    [] mode = "search" ->
         (query = "phrase" /\ Len(text) > 1) \/ \E i \in 1..Len(text) : matchesQuery(text[i], query)

\* Whether filterEntriesForTab() does: not for its sections alone, but for a date.
filterEntriesForTab(tab, selection, day, query) ==
  LET sections == filterParagraphsForTab(tab, selection, day, query)
      dates == {sectionDateForTab(text[i], getEntryLevelDate(text)) : i \in sections} \ {NoDay}
  IN
  /\ tab = "upcoming" => ~archived
  /\ sections # {}
  /\ dates # {} \/ (tab = "upcoming" /\ doneAt # NoDay)

\* mode.ts
deriveMode ==
  IF searching # NoQuery THEN "search"
  ELSE IF selectedTags # {} \/ selectedDate # AnyDate THEN "tag" ELSE "all"

-----------------------------------------------------------------------------
(* stickyGroups.ts                                                          *)

\* The rows of one entry, done ones under the day they were done.
bucketRowsByFirstDate(sections) ==
  {[section |-> i, done |-> doneAt # NoDay,
    day |-> IF doneAt # NoDay THEN doneAt ELSE text[i].date] : i \in sections}

bucketRows(sections) ==
  {[section |-> i, done |-> doneAt # NoDay,
    day |-> IF doneAt # NoDay THEN doneAt
            ELSE sectionDateForTab(text[i], getEntryLevelDate(text))] : i \in sections}

mondayFor(day) == day - (day % 7)

\* groupTodoBoard(): seven days each way are fanned out, today among the upcoming;
\* the rest is stacked by week.
groupTodoBoard(sections, showCompleted, showPastDue) ==
  LET rows == {row \in bucketRows(sections) : row.day # NoDay}
      open == {row \in rows : ~row.done}
      Weeks(stacked) == {[start |-> mondayFor(row.day), row |-> row] : row \in stacked}
      past == {row \in open : showPastDue /\ row.day < Today}
  IN [upcomingFanned |-> {row \in open : row.day \in Today..Today + 6},
      upcomingMonths |-> Weeks({row \in open : row.day >= Today + 7}),
      pastDueFanned |-> {row \in past : row.day >= Today - 7},
      pastDueMonths |-> Weeks({row \in past : row.day < Today - 7}),
      completed |-> Weeks({row \in rows : showCompleted /\ row.done})]

-----------------------------------------------------------------------------
(* The user                                                                 *)

BoardInit ==
  /\ text \in EntryTexts
  /\ doneAt = NoDay /\ archived = FALSE
  /\ selectedTags = {} /\ selectedDate = AnyDate /\ searching = NoQuery

SetDone(day) == doneAt' = day /\ UNCHANGED <<text, archived, filterVars>>
SetArchived(value) == archived' = value /\ UNCHANGED <<text, doneAt, filterVars>>
SelectTags(tags) == selectedTags' = tags /\ UNCHANGED <<entryVars, selectedDate, searching>>
SelectDate(days) == selectedDate' = days /\ UNCHANGED <<entryVars, selectedTags, searching>>
Search(query) == searching' = query /\ UNCHANGED <<entryVars, selectedTags, selectedDate>>

BoardNext ==
  \/ \E day \in DoneDays : SetDone(day)
  \/ \E value \in BOOLEAN : SetArchived(value)
  \/ \E tags \in TagFilters : SelectTags(tags)
  \/ \E days \in DayFilters : SelectDate(days)
  \/ \E query \in Queries : Search(query)

BoardSpec == BoardInit /\ [][BoardNext]_boardVars

-----------------------------------------------------------------------------

BoardTypeOK ==
  /\ doneAt \in DoneDays /\ archived \in BOOLEAN
  /\ selectedTags \in TagFilters /\ selectedDate \in DayFilters /\ searching \in Queries

\* A filter more never reveals a section, in either tab and in the list: not a
\* date, a query, or the step from all dates to the upcoming ones.
FiltersNarrow ==
  /\ \A tab \in {"all", "upcoming"} :
       /\ filterParagraphsForTab(tab, selectedTags, selectedDate, searching)
            \subseteq filterParagraphsForTab(tab, selectedTags, AnyDate, NoQuery)
       /\ filterParagraphsForTab("upcoming", selectedTags, selectedDate, searching)
            \subseteq filterParagraphsForTab("all", selectedTags, selectedDate, searching)
  /\ filterParagraphsInEntry("tag", selectedTags, selectedDate, NoQuery)
       \subseteq filterParagraphsInEntry("tag", selectedTags, AnyDate, NoQuery)

\* What is listed is shown.  The list of the 'upcoming' tab and the board, computed
\* apart, hold the same entries; with both parts shown no dated row is on the board
\* twice or missing.  An entry of which the views show a section is in their list.
OnBoard(board) ==
  {row.section : row \in board.upcomingFanned \cup board.pastDueFanned}
    \cup {item.row.section : item \in board.upcomingMonths \cup board.pastDueMonths \cup board.completed}
BoardSize(board) ==
  Cardinality(board.upcomingFanned) + Cardinality(board.pastDueFanned)
    + Cardinality(board.upcomingMonths) + Cardinality(board.pastDueMonths) + Cardinality(board.completed)
ListedIsShown ==
  LET shown == filterParagraphsForTab("upcoming", selectedTags, selectedDate, searching)
      board == groupTodoBoard(shown, TRUE, TRUE)
  IN /\ ~archived =>
          (filterEntriesForTab("upcoming", selectedTags, selectedDate, searching) <=> OnBoard(board) # {})
     /\ BoardSize(board) = Cardinality(OnBoard(board))
     /\ selectedDate = AnyDate /\ filterParagraphsInEntry(deriveMode, selectedTags, AnyDate, searching) # {}
          => filterEntries(deriveMode, selectedTags, AnyDate, searching)
=============================================================================
