-------------------------- MODULE ContextDocuments --------------------------
(***************************************************************************)
(* Product-context documents (context_documents.rs).  Files are inspected  *)
(* when they are attached, and read again when goals are generated.  Each  *)
(* time a file's size is taken in one step and its bytes in a later one;   *)
(* other programs may edit, replace or delete the file at any moment.      *)
(*                                                                         *)
(* The bytes of a file are their size, whether the format can be read, and *)
(* its parts: a number (of a page or slide) and a count of characters.     *)
(***************************************************************************)
EXTENDS Naturals, Sequences, FiniteSets, SequencesExt, Sums

CONSTANTS
    MaxFiles,       \* MAX_CONTEXT_FILES
    MaxFile,        \* MAX_FILE_BYTES
    MaxTotal,       \* MAX_TOTAL_FILE_BYTES
    MaxChars,       \* MAX_EXTRACTED_CHARS
    MinChars,       \* characters that make a text usable
    MaxEdits        \* bound: changes by other programs

ASSUME ContextAssumption == {MaxFiles, MaxFile, MaxTotal, MaxChars, MinChars, MaxEdits} \subseteq Nat

VARIABLES
    format,     \* the format of the file "deck": "pdf", "pptx" or "docx"
    disk,       \* what each path holds: bytes, nothing or a link
    reading,    \* "idle", "inspect", "attached", "extract", "extracted", "refused"
    paths,      \* paths still to be inspected
    size,       \* the size taken of the file in hand, 0 before it is taken
    bytes,      \* total_bytes
    chars,      \* total_chars
    references, \* the attached files
    next_ref,   \* the reference in hand when goals are generated
    sections,   \* text extracted: <<reference, number, characters>>
    edits,      \* how many times files were changed
    touched     \* attached files that were changed since their size was taken

contextVars == <<format, disk, reading, paths, size, bytes, chars, references, next_ref, sections, edits, touched>>

-----------------------------------------------------------------------------
Bytes(n, readable, parts) == [size |-> n, readable |-> readable, parts |-> parts, link |-> FALSE]
Part(number, n) == [number |-> number, chars |-> n]
Contents == {
    Bytes(1, TRUE, <<Part(1, 2)>>), Bytes(1, TRUE, <<Part(1, 3)>>),
    Bytes(2, TRUE, <<Part(2, 2), Part(1, 1), Part(3, 0)>>), Bytes(2, TRUE, <<Part(1, 1)>>),
    Bytes(1, FALSE, <<Part(1, 2)>>), Bytes(3, TRUE, <<Part(1, 2)>>) }

\* Nothing is there, and a link to a readable file.
Gone == Bytes(0, FALSE, <<>>)
Link == [size |-> 1, readable |-> TRUE, parts |-> <<Part(1, 2)>>, link |-> TRUE]

Extension(path) == CASE path = "deck" -> format [] path = "photo" -> "png" [] OTHER -> "md"
IsFile(path) == disk[path].size > 0 /\ ~disk[path].link
\* fs::read follows a link that was put in place after the file was looked at.
read(path) == Bytes(disk[path].size, disk[path].readable, disk[path].parts)
\* "./note" is another spelling of the file "note".
canonicalize(path) == IF path = "./note" THEN "note" ELSE path

(* extract_pdf, extract_docx, extract_pptx and the plain formats.           *)
Increasing(units) == \A i, j \in DOMAIN units : i < j => units[i].number < units[j].number
Sorted(parts) == CHOOSE s \in [DOMAIN parts -> ToSet(parts)] : ToSet(s) = ToSet(parts) /\ Increasing(s)
UnitChars(units) == [i \in DOMAIN units |-> units[i].chars]
Units(type, content) ==
    CASE type = "pptx" -> Sorted(content.parts)
      [] type = "pdf" -> Sorted(content.parts)
      [] type = "docx" -> LET parts == content.parts
                              some == FlattenSeq([i \in DOMAIN parts |-> IF parts[i].chars > 0 THEN <<parts[i]>> ELSE <<>>])
                          IN  [i \in DOMAIN some |-> Part(i, some[i].chars)]
      [] OTHER -> <<Part(1, Total(UnitChars(content.parts)))>>
Letters(units) == Total(UnitChars(units))
extract_bytes(type, content) ==
    LET units == Units(type, content)
        fails == \/ ~content.readable \/ Letters(units) < MinChars
                 \/ type \in {"pdf", "pptx"} /\ Letters(units) > MaxChars
    IN  [ok |-> ~fails, units |-> units]

Refuse == reading' = "refused" /\ size' = 0

-----------------------------------------------------------------------------
(* inspect_paths.                                                           *)
Offers == {<<"deck">>, <<"note">>, <<"photo">>, <<"deck", "note">>, <<"note", "./note">>, <<"deck", "note", "photo">>}

InspectPaths ==
    /\ reading = "idle"
    /\ \E ps \in Offers :
          IF Len(ps) > MaxFiles THEN Refuse /\ UNCHANGED paths
          ELSE reading' = "inspect" /\ paths' = ps /\ size' = 0
    /\ UNCHANGED <<format, disk, bytes, chars, references, next_ref, sections, edits, touched>>

(* The file is looked at: a link, a repeated or an oversized file ends the  *)
(* request, as does a file that makes the total too large.                  *)
InspectSize ==
    /\ reading = "inspect" /\ paths # <<>> /\ size = 0
    /\ LET path == Head(paths)
           file == canonicalize(path)
       IN  IF ~IsFile(file) \/ \E i \in DOMAIN references : references[i].path = file
           THEN Refuse /\ UNCHANGED <<bytes, touched>>
           ELSE IF disk[file].size > MaxFile \/ bytes + disk[file].size > MaxTotal \/ Extension(file) = "png"
           THEN Refuse /\ UNCHANGED <<bytes, touched>>
           ELSE /\ size' = disk[file].size /\ bytes' = bytes + disk[file].size
                /\ touched' = touched \ {file} /\ UNCHANGED reading
    /\ UNCHANGED <<format, disk, paths, chars, references, next_ref, sections, edits>>

InspectBytes ==
    /\ reading = "inspect" /\ paths # <<>> /\ size # 0
    /\ LET file == canonicalize(Head(paths))
       IN  IF read(file) = Gone THEN Refuse /\ UNCHANGED <<paths, chars, references>>
           ELSE LET found == extract_bytes(Extension(file), read(file))
                IN  IF ~found.ok \/ chars + Letters(found.units) > MaxChars
                    THEN Refuse /\ UNCHANGED <<paths, chars, references>>
                    ELSE /\ chars' = chars + Letters(found.units) /\ paths' = Tail(paths) /\ size' = 0
                         /\ references' = Append(references,
                                [path |-> file, type |-> Extension(file), size |-> size, hash |-> read(file), units |-> Len(found.units)])
                         /\ UNCHANGED reading
    /\ UNCHANGED <<format, disk, bytes, next_ref, sections, edits, touched>>

(* The references are saved with the workspace.                             *)
Attach ==
    /\ reading = "inspect" /\ paths = <<>>
    /\ reading' = "attached"
    /\ UNCHANGED <<format, disk, paths, size, bytes, chars, references, next_ref, sections, edits, touched>>

-----------------------------------------------------------------------------
(* extract_references.                                                      *)

\* Mutant: the totals of the inspection are added to.
ExtractOntoTotals ==
    /\ reading = "attached"
    /\ reading' = "extract" /\ next_ref' = 1
    /\ UNCHANGED <<format, disk, paths, size, bytes, chars, references, sections, edits, touched>>

ExtractReferences ==
    /\ reading = "attached"
    /\ reading' = "extract" /\ bytes' = 0 /\ chars' = 0 /\ next_ref' = 1
    /\ UNCHANGED <<format, disk, paths, size, references, sections, edits, touched>>

ExtractSize ==
    /\ reading = "extract" /\ next_ref <= Len(references) /\ size = 0
    /\ LET r == references[next_ref]
       IN  IF ~IsFile(r.path) THEN Refuse /\ UNCHANGED bytes
           ELSE IF disk[r.path].size > MaxFile \/ bytes + disk[r.path].size > MaxTotal THEN Refuse /\ UNCHANGED bytes
           ELSE size' = disk[r.path].size /\ bytes' = bytes + disk[r.path].size /\ UNCHANGED reading
    /\ UNCHANGED <<format, disk, paths, chars, references, next_ref, sections, edits, touched>>

\* The size taken before and the hash of the bytes read are both compared.
Unchanged(r) == size = r.size /\ read(r.path) = r.hash

SectionsOf(k, units) == [i \in DOMAIN units |-> <<k, units[i].number, units[i].chars>>]

ExtractBytes ==
    /\ reading = "extract" /\ next_ref <= Len(references) /\ size # 0
    /\ LET r == references[next_ref]
       IN  IF read(r.path) = Gone THEN Refuse /\ UNCHANGED <<chars, next_ref, sections>>
           ELSE LET found == extract_bytes(r.type, read(r.path))
                IN  IF ~Unchanged(r) \/ ~found.ok \/ Len(found.units) # r.units \/ chars + Letters(found.units) > MaxChars
                    THEN Refuse /\ UNCHANGED <<chars, next_ref, sections>>
                    ELSE /\ chars' = chars + Letters(found.units) /\ next_ref' = next_ref + 1 /\ size' = 0
                         /\ sections' = sections \o SectionsOf(next_ref, found.units)
                         /\ UNCHANGED reading
    /\ UNCHANGED <<format, disk, paths, bytes, references, edits, touched>>

Extracted ==
    /\ reading = "extract" /\ next_ref > Len(references)
    /\ reading' = "extracted"
    /\ UNCHANGED <<format, disk, paths, size, bytes, chars, references, next_ref, sections, edits, touched>>

(* Another program changes a file, replaces it by a link or deletes it.     *)
EditFile ==
    /\ edits < MaxEdits /\ edits' = edits + 1 /\ reading \notin {"extracted", "refused"}
    /\ \E f \in {"deck", "note"}, to \in Contents \cup {Gone, Link} :
          disk' = [disk EXCEPT ![f] = to] /\ touched' = touched \cup {f}
    /\ UNCHANGED <<format, reading, paths, size, bytes, chars, references, next_ref, sections>>

-----------------------------------------------------------------------------
ContextInit ==
    /\ format \in {"pdf", "pptx", "docx"} /\ reading = "idle"
    /\ \E deck, note \in Contents :
          disk = [f \in {"deck", "note", "photo"} |-> IF f = "deck" THEN deck ELSE IF f = "note" THEN note ELSE Bytes(1, TRUE, <<Part(1, 2)>>)]
    /\ paths = <<>> /\ size = 0 /\ bytes = 0 /\ chars = 0 /\ references = <<>> /\ next_ref = 0
    /\ sections = <<>> /\ edits = 0 /\ touched = {}

ContextNext ==
    \/ InspectPaths \/ InspectSize \/ InspectBytes \/ Attach
    \/ ExtractReferences \/ ExtractSize \/ ExtractBytes \/ Extracted \/ EditFile

-----------------------------------------------------------------------------
(* Text that reaches a goal prompt is the text of the files as they were    *)
(* inspected, all of it and in the order of its pages, whatever was written *)
(* between the look at a file and its read, at either time.  The characters *)
(* are within their limit, and so are the sizes that are reported for the   *)
(* files.  (The bytes that are read need not be: three well-timed edits can *)
(* show a small file to each look and a large one to each read.)            *)
TextAsAttached ==
    reading \in {"extract", "extracted"} =>
        /\ sections = FlattenSeq([k \in 1 .. next_ref - 1 |-> SectionsOf(k, Units(references[k].type, references[k].hash))])
        /\ \A i, j \in DOMAIN sections : i < j => sections[i][1] < sections[j][1] \/ sections[i][2] < sections[j][2]
        /\ \A k \in 1 .. next_ref - 1 : references[k].size <= MaxFile
        /\ Total([k \in 1 .. next_ref - 1 |-> references[k].size]) <= MaxTotal
        /\ Total([i \in DOMAIN sections |-> sections[i][3]]) <= MaxChars

(* "changed after it was attached" is only said of files that were: files   *)
(* nobody touched since their size was taken can always be read again.      *)
NoFalseAlarm ==
    reading = "refused" /\ next_ref > 0 => \E k \in DOMAIN references : references[k].path \in touched

(* Context is used exactly as it was attached, or it is asked for again.    *)
ContextSound == TextAsAttached /\ NoFalseAlarm
=============================================================================
