------------------------------ MODULE Projection ------------------------------
(* The projection of the visible records of a native session into files                *)
(* (xo-core/src/projection.rs, started by WorkspaceSession::snapshot).                  *)
(*                                                                                      *)
(* A pass takes the records as they are when it starts, removes the files of records   *)
(* that moved or went, writes the files that differ, and replaces the manifest at the  *)
(* end.  Between any two steps the person edits files, records change, a step fails or *)
(* the process stops.  A content stands for its hash.                                   *)
EXTENDS Naturals, FiniteSets, FiniteSetsExt, Functions

CONSTANTS
    Ids,            \* the identities of records, numbers: a pass takes them in their order
    Paths,          \* the paths records can have
    Renderings,     \* the contents records can have
    Mine,           \* a content the person typed
    Deleted,        \* DELETED_HASH
    NoFile,         \* no file, entry, record or expectation
    ProjectionBudget \* how many record changes, edits and faults (a set of scenarios)

ASSUME ProjectionAssumption ==
    /\ Ids \subseteq Nat
    /\ Mine \notin Renderings
    /\ Deleted \notin Renderings \cup {Mine}
    /\ NoFile \notin Renderings \cup {Mine, Deleted}

VARIABLES
    shown,      \* the visible records: their path and content
    disk,       \* the files of the projection
    manifest,   \* .xo/projection.json, .xo/assets.json, .xo/configs.json: what was written
    expected,   \* .xo/expected-writes.json: contents a watcher has to ignore
    pass,       \* the pass of reconcile_files that runs
    allowed     \* the remaining budget and whether a file was edited or a pass interrupted

projectionVars == <<shown, disk, manifest, expected, pass, allowed>>

File == [path : Paths, text : Renderings]
FileOrNone == File \cup {[path |-> NoFile, text |-> NoFile]}
Absent == [path |-> NoFile, text |-> NoFile]

\* No pass runs.
NoPass == [at |-> "idle", want |-> [i \in Ids |-> Absent], mem |-> [i \in Ids |-> Absent],
           todo |-> {}, id |-> 0, seen |-> NoFile]

-----------------------------------------------------------------------------
(* Starting a pass *)

\* ExpectedWrites::record, record_deletion and remove: the file is replaced as a whole.
Expect(path, content) == expected' = [expected EXCEPT ![path] = content]

\* unique_desired: of two records that resolve to one path only the first is wanted.
UniqueDesired(records) ==
    [i \in Ids |->
        IF \E j \in Ids : j < i /\ records[j] # Absent /\ records[j].path = records[i].path
        THEN Absent ELSE records[i]]

\* remove_obsolete: the entries whose record went or has another path.
Obsolete(want, mem) == {i \in Ids : mem[i] # Absent /\ want[i].path # mem[i].path}

\* WorkspaceSession::snapshot starts reconcile, reconcile_assets or
\* reconcile_projection_configs, which load their manifest.
StartPass ==
    /\ pass.at = "idle"
    /\ LET want == UniqueDesired(shown)
       IN  pass' = [NoPass EXCEPT !.at = "obsolete", !.want = want, !.mem = manifest,
                                  !.todo = Obsolete(want, manifest)]
    /\ UNCHANGED <<shown, disk, manifest, expected, allowed>>

-----------------------------------------------------------------------------
(* remove_obsolete *)

Entry(i) == pass.mem[i]

\* The next obsolete entry: its file is gone, unchanged, or an edit that is kept.
CheckObsolete ==
    /\ pass.at = "obsolete" /\ pass.todo # {}
    /\ LET i == Min(pass.todo)
           path == Entry(i).path
           rest == [pass EXCEPT !.todo = @ \ {i}]
       IN  \/ /\ disk[path] = NoFile
              /\ pass' = [rest EXCEPT !.mem[i] = Absent]
              /\ UNCHANGED expected
           \/ /\ disk[path] = Entry(i).text
              /\ Expect(path, Deleted)
              /\ pass' = [rest EXCEPT !.at = "remove", !.id = i, !.seen = disk[path]]
           \/ /\ disk[path] \notin {NoFile, Entry(i).text}
              /\ pass' = rest
              /\ UNCHANGED expected
    /\ UNCHANGED <<shown, disk, manifest, allowed>>

\* The file is removed.  If it cannot be, the expectation is withdrawn and the pass ends.
RemoveFile ==
    /\ pass.at = "remove"
    /\ LET path == Entry(pass.id).path
       IN  \/ /\ disk[path] # NoFile
              /\ disk' = [disk EXCEPT ![path] = NoFile]
              /\ pass' = [pass EXCEPT !.at = "obsolete", !.mem[pass.id] = Absent,
                                      !.seen = NoFile]
              /\ UNCHANGED <<expected, allowed>>
           \/ /\ disk[path] = NoFile \/ allowed.faults > 0
              /\ Expect(path, NoFile)
              /\ pass' = NoPass
              /\ allowed' = [allowed EXCEPT
                    !.faults = IF disk[path] = NoFile THEN @ ELSE @ - 1, !.disturbed = TRUE]
              /\ UNCHANGED disk
    /\ UNCHANGED <<shown, manifest>>

\* All obsolete entries were visited: the wanted files follow.
StartWriting ==
    /\ pass.at = "obsolete" /\ pass.todo = {}
    /\ pass' = [pass EXCEPT !.at = "desired",
                            !.todo = {i \in Ids : pass.want[i] # Absent}]
    /\ UNCHANGED <<shown, disk, manifest, expected, allowed>>

-----------------------------------------------------------------------------
(* materialize_desired *)

\* A file at the path of any entry with the recorded content is taken for its own.
SafeToWrite_AnyContent(i, actual) ==
    actual = NoFile \/ Entry(i).path = pass.want[i].path

\* safe_to_write: the file is absent, already as wanted, or as this record left it.
SafeToWrite(i, actual) ==
    \/ actual \in {NoFile, pass.want[i].text}
    \/ /\ Entry(i).path = pass.want[i].path
       /\ actual = Entry(i).text

\* The next wanted file: kept because the person edited it, already there, or to be written.
CheckDesired ==
    /\ pass.at = "desired" /\ pass.todo # {}
    /\ LET i == Min(pass.todo)
           file == pass.want[i]
           actual == disk[file.path]
           rest == [pass EXCEPT !.todo = @ \ {i}]
       IN  \/ /\ ~SafeToWrite(i, actual)
              /\ pass' = rest
              /\ UNCHANGED expected
           \/ /\ SafeToWrite(i, actual) /\ actual = file.text
              /\ pass' = [rest EXCEPT !.mem[i] = file]
              /\ UNCHANGED expected
           \/ /\ SafeToWrite(i, actual) /\ actual # file.text
              /\ Expect(file.path, file.text)
              /\ pass' = [rest EXCEPT !.at = "write", !.id = i, !.seen = actual]
    /\ UNCHANGED <<shown, disk, manifest, allowed>>

\* write_content replaces the file atomically.  If it cannot, the expectation is withdrawn,
\* unless already the directory could not be made, and the pass ends before its manifest is
\* saved.
WriteFile ==
    /\ pass.at = "write"
    /\ LET file == pass.want[pass.id]
       IN  \/ /\ disk' = [disk EXCEPT ![file.path] = file.text]
              /\ pass' = [pass EXCEPT !.at = "desired", !.mem[pass.id] = file,
                                      !.seen = NoFile]
              /\ UNCHANGED <<expected, allowed>>
           \/ /\ allowed.faults > 0
              /\ Expect(file.path, NoFile) \/ UNCHANGED expected
              /\ pass' = NoPass
              /\ allowed' = [allowed EXCEPT !.faults = @ - 1, !.disturbed = TRUE]
              /\ UNCHANGED disk
    /\ UNCHANGED <<shown, manifest>>

\* The pass leaves the manifest as it was.
PersistManifest_Unsaved ==
    /\ pass.at = "desired" /\ pass.todo = {}
    /\ pass' = NoPass
    /\ UNCHANGED <<shown, disk, manifest, expected, allowed>>

\* persist_manifest replaces the manifest atomically, or fails.
PersistManifest ==
    /\ pass.at = "desired" /\ pass.todo = {}
    /\ \/ /\ manifest' = pass.mem
          /\ UNCHANGED allowed
       \/ /\ allowed.faults > 0
          /\ allowed' = [allowed EXCEPT !.faults = @ - 1, !.disturbed = TRUE]
          /\ UNCHANGED manifest
    /\ pass' = NoPass
    /\ UNCHANGED <<shown, disk, expected>>

-----------------------------------------------------------------------------
(* The environment *)

\* A save, a deletion or a merge changes a record or its path (a note's path follows its
\* title, an asset's is its own).
RecordChanges(i, file) ==
    /\ allowed.changes > 0 /\ file # shown[i]
    /\ shown' = [shown EXCEPT ![i] = file]
    /\ allowed' = [allowed EXCEPT !.changes = @ - 1]
    /\ UNCHANGED <<disk, manifest, expected, pass>>

\* The person writes or removes a file with another program.
PersonEdits(path, text) ==
    /\ allowed.edits > 0 /\ text # disk[path]
    /\ disk' = [disk EXCEPT ![path] = text]
    /\ allowed' = [allowed EXCEPT !.edits = @ - 1, !.disturbed = TRUE]
    /\ UNCHANGED <<shown, manifest, expected, pass>>

\* The process stops during a pass and is started again.
ProjectionCrash ==
    /\ pass.at # "idle" /\ allowed.faults > 0
    /\ pass' = NoPass
    /\ allowed' = [allowed EXCEPT !.faults = @ - 1, !.disturbed = TRUE]
    /\ UNCHANGED <<shown, disk, manifest, expected>>

ProjectionInit ==
    /\ shown = [i \in Ids |-> Absent]
    /\ disk = [p \in Paths |-> NoFile]
    /\ manifest = [i \in Ids |-> Absent]
    /\ expected = [p \in Paths |-> NoFile]
    /\ pass = NoPass
    /\ allowed \in ProjectionBudget

PassStep == \/ StartPass \/ CheckObsolete \/ RemoveFile \/ StartWriting
            \/ CheckDesired \/ WriteFile \/ PersistManifest

ProjectionNext ==
    \/ PassStep
    \/ \E i \in Ids, file \in FileOrNone : RecordChanges(i, file)
    \/ \E path \in Paths, text \in {Mine, NoFile} : PersonEdits(path, text)
    \/ ProjectionCrash

\* The terminal application takes a snapshot at every tick (main.rs), so passes go on.
ProjectionFairness == WF_projectionVars(PassStep)

ProjectionSpec == ProjectionInit /\ [][ProjectionNext]_projectionVars
ProjectionFairSpec == ProjectionSpec /\ ProjectionFairness

-----------------------------------------------------------------------------
(* Properties *)

Contents == Renderings \cup {Mine, NoFile}

ProjectionTypeOK ==
    /\ shown \in [Ids -> FileOrNone]
    /\ disk \in [Paths -> Contents]
    /\ manifest \in [Ids -> FileOrNone]
    /\ expected \in [Paths -> Renderings \cup {Deleted, NoFile}]
    /\ pass \in [at : {"idle", "obsolete", "remove", "desired", "write"},
                 want : [Ids -> FileOrNone], mem : [Ids -> FileOrNone],
                 todo : SUBSET Ids, id : Ids \cup {0}, seen : Contents]

\* A pass destroys what the person typed only when it was typed after the pass had read the
\* file, between the check and the replacement: "without overwriting local edits"
\* (projection.rs:185) holds but for that window.
EditsRespected ==
    [][\A p \in Paths : (disk[p] = Mine /\ disk'[p] # Mine /\ pass' # pass)
                            => pass.seen # Mine]_projectionVars

\* Every wanted file is there with its content, and no other file is left behind.
Projected ==
    LET want == UniqueDesired(shown)
    IN  \A p \in Paths :
            LET of == {i \in Ids : want[i].path = p}
            IN  disk[p] = IF of = {} THEN NoFile ELSE want[Min(of)].text

\* Unless the person edits files or a pass is interrupted, the files come to show exactly
\* the visible records, through moves, swaps and collisions of paths.
EventuallyProjected == [](~allowed.disturbed) => <>[]Projected
=============================================================================
