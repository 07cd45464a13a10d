---------------------------- MODULE MCComponents ----------------------------
(***************************************************************************)
(* Components that share no state with one another, explored side by side   *)
(* in one run: a behaviour is one of the component named by `part', while   *)
(* the variables of the others keep their initial values.                   *)
(***************************************************************************)
EXTENDS Migrations, MergedStatus, ProjectRegistry, ProjectFolders, StatusObservable,
        LeaderElection, NotesMerge, NotesBoard

VARIABLE part

vars == <<part, mergedVars, regVars, migVars, folderVars, statusVars, electionVars,
          notesVars, boardVars>>

-----------------------------------------------------------------------------
(* Values of constants                                                      *)

\* One name in two spellings, another, and a blank one.
TwoSpellings == {<<"a", "a">>, <<"a", "A">>, <<"b", "b">>, <<"", " ">>}
WhiteSpace == <<"", " ">>

\* Sections with the tags #a/x, #b or none, with today's date or none; and
\* single dated ones at the boundaries of the board's two weeks.
Section ==
  {s \in [tags : {{}, {<<"a", "x">>}, {<<"b">>}}, date : {0, Today}, prose : BOOLEAN] :
     s.prose \/ s.tags # {} \/ s.date # 0}
EdgeDates == {12, 13, 19, 21, 26, 27, 28}
ThreeSections ==
  UNION {[1..n -> Section] : n \in 0..3}
    \cup {<<[tags |-> {}, date |-> d, prose |-> TRUE]>> : d \in EdgeDates}
DaysAndMonth == {{}, {18}, {20}, 20..49}
OneTagOrNone == {{}, {<<"a">>}, {<<"__untagged__">>}}

-----------------------------------------------------------------------------
Parts == {"merged", "registry", "migrations", "folders", "status", "election", "notes", "board"}

MCInit ==
  /\ part \in Parts
  /\ MergedInit /\ RegInit /\ MigInit /\ FolderInit /\ StatusInit /\ ElectionInit
  /\ NotesInit /\ BoardInit
  /\ part # "board" => text = <<>>

Rests(p, v) == IF part = p THEN TRUE ELSE UNCHANGED v

\* Nothing is claimed of the folders after a race, which ends the exploration.
MCNext ==
  /\ UNCHANGED part
  /\ \/ part = "merged" /\ MergedNext
     \/ part = "registry" /\ RegNext
     \/ part = "migrations" /\ MigNext
     \/ part = "folders" /\ ~raced /\ FolderNext
     \/ part = "status" /\ StatusNext
     \/ part = "election" /\ ElectionNext
     \/ part = "notes" /\ NotesNext
     \/ part = "board" /\ BoardNext
  /\ Rests("merged", mergedVars) /\ Rests("registry", regVars) /\ Rests("migrations", migVars)
  /\ Rests("folders", folderVars) /\ Rests("status", statusVars)
  /\ Rests("election", electionVars)
  /\ Rests("notes", notesVars) /\ Rests("board", boardVars)

MCSpec == MCInit /\ [][MCNext]_vars
=============================================================================
