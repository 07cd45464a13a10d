---------------------------- MODULE DocumentNames ----------------------------
(***************************************************************************)
(* The documents of DocumentSync by name: how one name comes to have two   *)
(* files.  The module adds a history of the creates to DocumentSync and    *)
(* changes no step of it.                                                  *)
(***************************************************************************)
EXTENDS DocumentSync

VARIABLES
    \* history
    created,      \* the files the create a device awaits has made so far
    origin        \* how each file was made, see Remember

namesVars == <<vars, created, origin>>

NamesInit ==
    /\ DocInit
    /\ created = [d \in Devices |-> {}]
    /\ origin = [f \in Files |-> [by |-> CHOOSE d \in Devices : TRUE,
                                 earlier |-> {}, racing |-> {}]]

Minted(f) == status[f] = "absent" /\ status'[f] = "live"

\* The devices about to create the file under the same name.
Racing(d) == {j \in Devices : pc[j] = "create" /\ name[j] = name[d]}

\* Which device made the file, what the earlier attempts of the same create had
\* made, and who else was about to.
Remember(d) ==
    /\ origin' = [f \in Files |->
                    IF Minted(f)
                    THEN [by |-> d, earlier |-> created[d], racing |-> Racing(d)]
                    ELSE origin[f]]
    /\ created' = [created EXCEPT ![d] =
                      IF pc'[d] = "create" THEN @ \cup {f \in Files : Minted(f)} ELSE {}]

NamesNext ==
    \/ \E d \in Devices : DocStep(d) /\ Remember(d)
    \/ \E f \in Files : Trash(f) /\ UNCHANGED <<created, origin>>

NamesSpec == NamesInit /\ [][NamesNext]_namesVars

-----------------------------------------------------------------------------
(* Properties *)

\* Two attempts of one create.
Repeated(f, g) == f \in origin[g].earlier \/ g \in origin[f].earlier

\* Creates of two devices that had both looked and found nothing.
Raced(f, g) ==
    /\ origin[f].by # origin[g].by
    /\ origin[f].by \in origin[g].racing \/ origin[g].by \in origin[f].racing

\* Two live files of one name come about in two ways only: http.ts sent one
\* create again whose first attempt Drive had applied, or two devices had both
\* looked the name up and found nothing before either created it.  Whatever
\* ids and answers the devices lose, whatever is renamed or deleted in Drive, a
\* later sync, or a sync of another device that looks after the create, makes
\* no second file (resolveFileId() of documents.ts, write() of files.ts).
TwinsOnlyByRaceOrRepeat ==
    \A f, g \in Files :
        f # g /\ Live(f) /\ Live(g) /\ named[f] = named[g]
        => Repeated(f, g) \/ Raced(f, g)
=============================================================================
