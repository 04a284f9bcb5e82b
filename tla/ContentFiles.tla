----------------------------- MODULE ContentFiles -----------------------------
(* xo import and xo export (xo/src/content_io.rs, and scan_for_import of projection.rs):  *)
(* Markdown files become notes of the replica, and notes become files of a new directory. *)
(*                                                                                        *)
(* Both work on a snapshot of the replica taken when they start, while the connection     *)
(* goes on merging.  A file name is its title and the suffixes put to it.                 *)
EXTENDS Naturals, Sequences, SequencesExt, FiniteSets

CONSTANTS
    NoteNumbers,  \* identities of notes, positive numbers: the order they were created in
    Directories,  \* import sources: sequences of files with an identity (0: none) or unreadable
    TitleOf,      \* title of each note, a sequence: "a-1" is <<"a", 1>>
    FilesBudget   \* bounds: imports, exports, merges, faults (a set of scenarios)

ASSUME FilesAssumption ==
    /\ NoteNumbers \subseteq Nat \ {0} /\ IsFiniteSet(NoteNumbers)
    /\ Directories \subseteq Seq([id : NoteNumbers \cup {0}, readable : BOOLEAN])
    /\ \A i \in NoteNumbers :
          /\ Len(TitleOf[i]) \in Nat
          /\ TitleOf[i] = [k \in 1 .. Len(TitleOf[i]) |-> TitleOf[i][k]]

VARIABLES
    notes,     \* who wrote the newest version of each note: "none", "other" or "import"
    import,    \* the import: stage, source, notes existing at the start, notes to save
    export,    \* the export: stage, notes of the snapshot, files planned
    written,   \* files of the export's destination
    filesLeft  \* remaining budget

filesVars == <<notes, import, export, written, filesLeft>>

NoImport == [at |-> "off", source |-> <<>>, existing |-> {}, todo |-> <<>>, saved |-> {}]
NoExport == [at |-> "off", snapshot |-> {}, files |-> <<>>]
NotesThere == {i \in NoteNumbers : notes[i] # "none"}

-----------------------------------------------------------------------------
(* Import *)

\* The snapshot is taken; a source that is no directory or overlaps the projection is not
\* started with.
StartImport(source) ==
    /\ import.at # "saving" /\ import.at # "checking" /\ filesLeft.imports > 0
    /\ import' = [NoImport EXCEPT !.at = "checking", !.source = source, !.existing = NotesThere]
    /\ filesLeft' = [filesLeft EXCEPT !.imports = @ - 1]
    /\ UNCHANGED <<notes, export, written>>

\* scan_for_import: a file without an identity gets a new one.
Identified(source, new) ==
    [k \in 1 .. Len(source) |-> IF source[k].id = 0 THEN new[k] ELSE source[k].id]

\* An identity for each file that has none, unlike any other.
NewIdentities(source) ==
    LET lacking == {k \in 1 .. Len(source) : source[k].id = 0}
        used == NotesThere \cup {source[k].id : k \in 1 .. Len(source)}
    IN  {new \in [lacking -> NoteNumbers \ used] :
            \A j, k \in lacking : new[j] = new[k] => j = k}

\* Files that cannot be read, an identity used twice, or one of an existing note.
Conflicts(source, existing) ==
    \/ \E k \in 1 .. Len(source) : ~source[k].readable \/ source[k].id \in existing
    \/ \E j, k \in 1 .. Len(source) : j # k /\ source[j].id # 0 /\ source[j].id = source[k].id

\* prepare_import: every file is checked before any is saved.
CheckImport ==
    /\ import.at = "checking"
    /\ \/ /\ ~Conflicts(import.source, import.existing)
          /\ \E new \in NewIdentities(import.source) :
                import' = [import EXCEPT !.at = "saving", !.todo = Identified(import.source, new)]
       \/ /\ Conflicts(import.source, import.existing)
          /\ import' = [import EXCEPT !.at = "refused"]
    /\ UNCHANGED <<notes, export, written, filesLeft>>

\* Each file is checked when its turn comes.
SaveNext_Checking ==
    LET i == Head(import.todo)
    IN  IF i \in NotesThere
        THEN /\ import' = [import EXCEPT !.at = "refused"]
             /\ UNCHANGED notes
        ELSE /\ notes' = [notes EXCEPT ![i] = "import"]
             /\ import' = [import EXCEPT !.todo = Tail(@), !.saved = @ \cup {i}]

\* A save, whatever was merged since the snapshot.
SaveNext ==
    LET i == Head(import.todo)
    IN  /\ notes' = [notes EXCEPT ![i] = "import"]
        /\ import' = [import EXCEPT !.todo = Tail(@), !.saved = @ \cup {i}]

ImportStep ==
    /\ import.at = "saving"
    /\ \/ /\ import.todo # <<>>
          /\ SaveNext
          /\ UNCHANGED filesLeft
       \/ /\ import.todo # <<>> /\ filesLeft.faults > 0
          /\ import' = [import EXCEPT !.at = "failed"]
          /\ filesLeft' = [filesLeft EXCEPT !.faults = @ - 1]
          /\ UNCHANGED notes
       \/ /\ import.todo = <<>>
          /\ import' = [import EXCEPT !.at = "done"]
          /\ UNCHANGED <<notes, filesLeft>>
    /\ UNCHANGED <<export, written>>

\* A note of another client is merged or deleted.
OtherChanges(i, who) ==
    /\ filesLeft.merges > 0 /\ notes[i] # who
    /\ notes' = [notes EXCEPT ![i] = who]
    /\ filesLeft' = [filesLeft EXCEPT !.merges = @ - 1]
    /\ UNCHANGED <<import, export, written>>

-----------------------------------------------------------------------------
(* Export *)

FileName(title, suffix) == IF suffix = 0 THEN title ELSE Append(title, suffix)

\* The suffix is the number of notes with the same title before.
AllocatePath_Counted(title, files) ==
    FileName(title, Len(SelectSeq(files, LAMBDA file : file.title = title)))

\* allocate_export_path: the first name of the title that is free.
AllocatePath(title, files) ==
    LET names == {files[k].name : k \in 1 .. Len(files)}
        free == {s \in 0 .. Len(files) : FileName(title, s) \notin names}
    IN  FileName(title, CHOOSE s \in free : \A t \in free : s <= t)

\* export_notes plans the files of all notes before it writes one.
Planned(snapshot) ==
    LET n == Cardinality(snapshot)
        order == CHOOSE list \in [1 .. n -> snapshot] : \A j, k \in 1 .. n : j < k => list[j] < list[k]
        files[k \in 0 .. n] ==
            IF k = 0 THEN <<>>
            ELSE Append(files[k - 1],
                        [note |-> order[k], title |-> TitleOf[order[k]],
                         name |-> AllocatePath(TitleOf[order[k]], files[k - 1])])
    IN  files[n]

\* ensure_empty_destination.
StartExport ==
    /\ export.at # "writing" /\ filesLeft.exports > 0
    /\ IF written = {}
       THEN export' = [at |-> "writing", snapshot |-> NotesThere, files |-> Planned(NotesThere)]
       ELSE export' = [NoExport EXCEPT !.at = "refused"]
    /\ filesLeft' = [filesLeft EXCEPT !.exports = @ - 1]
    /\ UNCHANGED <<notes, import, written>>

\* A file is written beside and moved: it replaces one of its name.
ExportStep ==
    /\ export.at = "writing"
    /\ \/ /\ export.files # <<>>
          /\ LET file == Head(export.files)
             IN  written' = {f \in written : f.name # file.name} \cup {file}
          /\ export' = [export EXCEPT !.files = Tail(@)]
          /\ UNCHANGED filesLeft
       \/ /\ export.files # <<>> /\ filesLeft.faults > 0
          /\ export' = [export EXCEPT !.at = "failed"]
          /\ filesLeft' = [filesLeft EXCEPT !.faults = @ - 1]
          /\ UNCHANGED written
       \/ /\ export.files = <<>>
          /\ export' = [export EXCEPT !.at = "done"]
          /\ UNCHANGED <<written, filesLeft>>
    /\ UNCHANGED <<notes, import>>

-----------------------------------------------------------------------------

FilesInit ==
    /\ \E there \in SUBSET NoteNumbers :
          notes = [i \in NoteNumbers |-> IF i \in there THEN "other" ELSE "none"]
    /\ import = NoImport /\ export = NoExport /\ written = {}
    /\ filesLeft \in FilesBudget

FilesNext ==
    \/ (\E source \in Directories : StartImport(source)) \/ CheckImport \/ ImportStep
    \/ \E i \in NoteNumbers, who \in {"none", "other"} : OtherChanges(i, who)
    \/ StartExport \/ ExportStep

FilesSpec == FilesInit /\ [][FilesNext]_filesVars

-----------------------------------------------------------------------------
(* Properties *)

FilesTypeOK ==
    /\ notes \in [NoteNumbers -> {"none", "other", "import"}]
    /\ import.at \in {"off", "checking", "saving", "done", "failed", "refused"}
    /\ import.existing \subseteq NoteNumbers /\ import.saved \subseteq NoteNumbers
    /\ ToSet(import.todo) \subseteq NoteNumbers
    /\ export.at \in {"off", "writing", "done", "failed", "refused"}
    /\ \A file \in written : file.note \in NoteNumbers

\* An import that is refused has saved nothing, whatever was merged while it ran; one that is
\* done has saved every file (content_io.rs:56-68, 79-122).
ImportWhole ==
    /\ import.at = "refused" => import.saved = {}
    /\ import.at = "done" => Cardinality(import.saved) = Len(import.source)

\* An export that is done has exactly one file for each note there was, also when the title
\* of one is another's with a suffix (content_io.rs:124-190, 264-281).
ExportComplete ==
    export.at = "done" => /\ {file.note : file \in written} = export.snapshot
                          /\ Cardinality(written) = Cardinality(export.snapshot)
=============================================================================
