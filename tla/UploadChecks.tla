----------------------------- MODULE UploadChecks -----------------------------
(***************************************************************************)
(* What an upload must pass (uploads/validators: the magic bytes, and for  *)
(* a ZIP the walk over its entries, archives within it included), and      *)
(* which parser the ingestion worker then takes for it.  Two programs      *)
(* decide what is a ZIP: ValidationPipeline by isZipUpload, the worker by  *)
(* the registry's is_zip.                                                  *)
(*                                                                         *)
(* One extension and one content stand for each family: text, office       *)
(* documents, which are ZIP files themselves, images, and archives.  Sizes *)
(* are in units.  The entries of an archive are the world's.               *)
(***************************************************************************)
EXTENDS Naturals, Sequences

CONSTANTS
    MaxNesting,     \* MAX_NESTING_DEPTH
    MaxEntries,     \* MAX_ENTRY_COUNT
    MaxTotal,       \* MAX_TOTAL_UNCOMPRESSED_BYTES
    MaxRatio,       \* MAX_ENTRY_COMPRESSION_RATIO
    MaxWalk         \* bound: entries of an upload, of all its archives

VARIABLES
    upload,     \* the file, and where its check has come
    archives,   \* the archives open, the outermost first
    walked      \* ghost: entries met, the most archives open, and the faults met

checkVars == <<upload, archives, walked>>

Types    == {"md", "docx", "png", "zip"}
Declared == {"text", "docx", "image", "zip", "octet-stream"}
Contents == {"text", "script", "docx", "image", "zip", "unknown"}

MimesOf == [md |-> {"text"}, docx |-> {"docx", "zip"}, png |-> {"image"}, zip |-> {"zip"}]

\* An entry of an archive: its flaw "size" is a content larger than MaxTotal
\* whatever its header says; "read", that it cannot be read.
Entries == {e \in [flaw : {"none", "path", "symlink", "size", "read"},
                    type : Types \cup {"directory", "exe"}, content : Contents,
                    packed : 0..1, size : 0..MaxTotal] :
                (e.flaw = "size" => e.type = "zip") /\ (e.flaw = "read" => e.type # "directory")}

CheckInit ==
    /\ upload \in [type : Types \cup {"exe"}, declared : Declared, content : Contents, verdict : {"none"}]
    /\ archives = <<>>
    /\ walked = [entries |-> 0, deepest |-> 0, faults |-> {}]

\* validateUploadMagicBytes; an entry of an archive has no declared type.
MagicBytes(type, declared, content) ==
    /\ type \in Types
    /\ declared \in {"octet-stream", "none"} \/ declared \in MimesOf[type]
    /\ IF type = "md" THEN content = "text" ELSE content \in MimesOf[type]

\* isZipUpload: an office document is not a ZIP, whatever was detected.
IsZipUpload(type, declared, content) ==
    \/ type = "zip"
    \/ type # "docx" /\ "zip" \in {declared, content}

NewArchive == [count |-> 0, total |-> 0]
Becomes(verdict) == upload' = [upload EXCEPT !.verdict = verdict]

ValidateMime ==
    /\ upload.verdict = "none"
    /\ LET type == upload.type
           declared == upload.declared
           content == upload.content
       IN  IF ~MagicBytes(type, declared, content)
           THEN Becomes("refused") /\ UNCHANGED <<archives, walked>>
           ELSE IF ~IsZipUpload(type, declared, content)
           THEN Becomes("accepted") /\ UNCHANGED <<archives, walked>>
           ELSE /\ Becomes("walking") /\ archives' = <<NewArchive>>
                /\ walked' = [walked EXCEPT !.deepest = 1]

Depth == Len(archives) - 1
Top == archives[Len(archives)]

\* validateBuffer is called with the depth of the archive within.
TooDeep == Depth + 1 > MaxNesting

\* What the entry's headers tell, and the counts, which are the archive's own.
HeaderFaults(e) ==
    ({e.flaw} \cap {"path", "symlink"})
    \cup (IF Top.count + 1 > MaxEntries THEN {"count"} ELSE {})
    \cup (IF Top.total + e.size > MaxTotal THEN {"total"} ELSE {})
    \cup (IF e.size > MaxRatio * e.packed THEN {"ratio"} ELSE {})

\* What reading it tells: its first bytes, or for an archive all of them.
ReadFaults(e) ==
    ({e.flaw} \cap {"size", "read"})
    \cup (IF e.type = "directory" \/ MagicBytes(e.type, "none", e.content) THEN {} ELSE {"type"})

\* processEntry
Faults(e) == HeaderFaults(e) \cup ReadFaults(e)

Refuses(e) == Faults(e) # {}

Counted(e) == [archives EXCEPT ![Len(archives)] = [count |-> @.count + 1, total |-> @.total + e.size]]

WalkEntry(e) ==
    /\ upload.verdict = "walking"
    /\ walked.entries < MaxWalk
    /\ IF Refuses(e) \/ (e.type = "zip" /\ TooDeep)
       THEN Becomes("refused") /\ UNCHANGED archives
       ELSE /\ archives' = IF e.type = "zip" THEN Append(Counted(e), NewArchive) ELSE Counted(e)
            /\ UNCHANGED upload
    /\ walked' = [entries |-> walked.entries + 1, faults |-> walked.faults \cup Faults(e),
                  deepest |-> IF Len(archives') > walked.deepest THEN Len(archives') ELSE walked.deepest]

\* The entry that held the archive has passed, and the walk goes on after it.
ArchiveEnds ==
    /\ upload.verdict = "walking"
    /\ IF Depth = 0 THEN Becomes("accepted") /\ UNCHANGED archives
       ELSE archives' = SubSeq(archives, 1, Depth) /\ UNCHANGED upload
    /\ UNCHANGED walked

CheckNext == ValidateMime \/ (\E e \in Entries : WalkEntry(e)) \/ ArchiveEnds

CheckSpec == CheckInit /\ [][CheckNext]_checkVars

-----------------------------------------------------------------------------
(* The worker, told the declared type and the name.                        *)

\* mutant: the name is not looked at
ByDeclared(declared, type) == declared = "zip"

\* is_zip: the declared type or the name.
IsZip(declared, type) == declared = "zip" \/ type = "zip"

\* parser_for: the first that fits the declared type or the name.
ParserFor(declared, type) ==
    IF "docx" \in {declared, type} THEN "docx"
    ELSE IF declared = "image" \/ type = "png" THEN "png"
    ELSE IF declared \in {"text", "octet-stream"} \/ type = "md" THEN "md"
    ELSE "none"

TakenBy(u) == IF IsZip(u.declared, u.type) THEN "zip" ELSE ParserFor(u.declared, u.type)

-----------------------------------------------------------------------------
(* Properties                                                              *)

\* An archive is accepted when all of it was walked and nothing in it, at any
\* depth, was at fault: what is refused within refuses the whole.
AcceptedIsSound ==
    upload.verdict = "accepted" => walked.faults = {} /\ walked.deepest <= MaxNesting + 1

\* What the API accepts for a type the worker parses as that type, though
\* both decide by themselves and neither tells the other; but an office
\* document declared as ZIP, which the API lets pass unwalked, the worker
\* takes apart.
AcceptedReachesItsParser ==
    upload.verdict = "accepted" /\ <<upload.type, upload.declared>> # <<"docx", "zip">> =>
        TakenBy(upload) = upload.type
=============================================================================
