------------------------------ MODULE Derivation ------------------------------
(***************************************************************************)
(* `convert --format raw-segmented` and `copy` of commands/derive.rs, with *)
(* segment_image of imaging/segmented.rs and copy_stream: one command      *)
(* makes derived files from a source file of the case.                     *)
(*                                                                         *)
(* The source is read twice, block by block: once by verify_source, for    *)
(* the digest that is held against the manifest, and once to be written    *)
(* out.  Anybody may write to it at any time: a working copy is there to   *)
(* be modified, and originals are protected by nothing but convention.     *)
(* A file is the sequence of its units, a digest is the sequence that was  *)
(* hashed, and a unit is whatever divides both the blocks and a segment.   *)
(***************************************************************************)
EXTENDS Naturals, Sequences

CONSTANTS
    Units,        \* what a unit of a file may hold
    SegmentSize,  \* --segment-size
    MaxSegments,  \* MAX_SEGMENTS
    BlockSize,    \* READ_BUFFER_SIZE and COPY_BUFFER_SIZE
    Cases,        \* case identifiers
    MaxSize,      \* bound: units of the source
    MaxChanges,   \* bound: times it is written to
    None          \* no record, no case, no manifest

ASSUME SizeAssumption ==
    /\ SegmentSize \in Nat \ {0} /\ MaxSegments \in Nat \ {0} /\ BlockSize \in Nat \ {0}
    /\ MaxSize \in Nat /\ MaxChanges \in Nat

VARIABLES
    pc,       \* where the command is
    kind,     \* "convert" or "copy"
    source,   \* what the source file holds now
    record,   \* ResolvedSource::record: the content some manifest records
    hashed,   \* verify_source: what it hashed
    size,     \* source_size
    stream,   \* what the second reading hashed (source_hasher)
    chunk,    \* the part of the block that is not written yet
    index,    \* number of the segment being written
    filled,   \* segment_bytes
    total,    \* total_bytes
    files,    \* the derived files written: [data, published]
    taken,    \* numbers whose name was taken before the command began
    caseArg,  \* --case-id
    dirCase,  \* the case of the manifests in the directory
    cancel,   \* the CancellationToken
    result,   \* how the command ended
    manifest, \* the manifest it wrote
    changes   \* how often the source was written to

input == <<kind, record, taken, caseArg, dirCase>>
position == <<index, filled, total, files>>
vars == <<pc, input, source, hashed, size, stream, chunk, position, cancel, result, manifest, changes>>

Sizes == 0 .. MaxSize
Contents == UNION {[1 .. n -> Units] : n \in Sizes}
Results == {"none", "ok", "cancelled", "integrity", "destination", "usage", "io"}
Phases == {"verify", "inspect", "open", "read", "write", "close", "compare", "case", "manifest",
           "done"}

Init ==
    /\ pc = "verify"
    /\ kind \in {"convert", "copy"}
    /\ source \in Contents
    /\ record \in {None, source}
    /\ caseArg \in Cases \cup {None} /\ dirCase \in Cases \cup {None}
    /\ record # None => dirCase # None
    /\ hashed = <<>> /\ size = 0 /\ stream = <<>> /\ chunk = <<>>
    /\ index = 1 /\ filled = 0 /\ total = 0 /\ files = <<>>
    /\ \E n \in 0 .. MaxSegments : taken = {n} \ {0}
    /\ cancel = FALSE /\ result = "none" /\ manifest = None /\ changes = 0

Goto(p) == pc' = p /\ UNCHANGED result
Fail(r) == pc' = "done" /\ result' = r

(* What one read gives: a part of the next block, as the file is then.     *)
Reads(from) ==
    {SubSeq(source, from + 1, from + n) :
       n \in {k \in 1 .. BlockSize : from + k <= Len(source)}}

-----------------------------------------------------------------------------
(* verify_source: hash_file, then the comparison with the record.          *)
HashBlock ==
    /\ pc = "verify" /\ ~cancel
    /\ \E b \in Reads(Len(hashed)) : hashed' = hashed \o b
    /\ UNCHANGED <<pc, input, source, size, stream, chunk, position, cancel, result, manifest,
                   changes>>

HashEnd ==
    /\ pc = "verify" /\ ~cancel /\ Len(source) <= Len(hashed)
    /\ IF record \in {None, hashed} THEN Goto("inspect") ELSE Fail("integrity")
    /\ UNCHANGED <<input, source, hashed, size, stream, chunk, position, cancel, manifest, changes>>

(* planned_segment_count: div_ceil, and one segment for an empty source.   *)
Planned(n) == IF n = 0 THEN 1 ELSE (n + SegmentSize - 1) \div SegmentSize

Inspect ==
    /\ pc = "inspect"
    /\ size' = Len(source)
    /\ IF kind = "convert" /\ Planned(Len(source)) > MaxSegments
         THEN Fail("usage")
         ELSE Goto("open")
    /\ UNCHANGED <<input, source, hashed, stream, chunk, position, cancel, manifest, changes>>

(* create_artifact for the segment, or for the copy.                       *)
Open ==
    /\ pc = "open" /\ index \notin taken
    /\ files' = Append(files, [data |-> <<>>, published |-> FALSE])
    /\ Goto(IF chunk = <<>> THEN "read" ELSE "write")
    /\ UNCHANGED <<input, source, hashed, size, stream, chunk, index, filled, total, cancel,
                   manifest, changes>>

Occupied ==
    /\ pc = "open" /\ index \in taken
    /\ Fail("destination")
    /\ UNCHANGED <<input, source, hashed, size, stream, chunk, position, cancel, manifest, changes>>

ReadBlock ==
    /\ pc = "read" /\ ~cancel
    /\ \E b \in Reads(Len(stream)) : stream' = stream \o b /\ chunk' = b
    /\ Goto("write")
    /\ UNCHANGED <<input, source, hashed, size, position, cancel, manifest, changes>>

EndOfSource ==
    /\ pc = "read" /\ ~cancel /\ Len(source) <= Len(stream)
    /\ Goto("close")
    /\ UNCHANGED <<input, source, hashed, size, stream, chunk, position, cancel, manifest, changes>>

Publish == files' = [files EXCEPT ![index].published = TRUE]

(* Mutant: what there is when the token is seen is published.              *)
CancelledAndPublished ==
    /\ pc \in {"verify", "read"} /\ cancel
    /\ IF pc = "read" THEN Publish ELSE UNCHANGED files
    /\ Fail("cancelled")
    /\ UNCHANGED <<input, source, hashed, size, stream, chunk, index, filled, total, cancel,
                   manifest, changes>>

(* cancel.check() before every block: the writer is dropped, and its file  *)
(* keeps the name .partial.                                                *)
Cancelled ==
    /\ pc \in {"verify", "read"} /\ cancel
    /\ Fail("cancelled")
    /\ UNCHANGED <<input, source, hashed, size, stream, chunk, position, cancel, manifest, changes>>

Full == kind = "convert" /\ filled = SegmentSize

(* The part of the chunk that the segment still takes.                     *)
Take ==
    IF kind = "convert" /\ SegmentSize - filled < Len(chunk)
      THEN SegmentSize - filled
      ELSE Len(chunk)

(* Mutant: a full segment is closed at once, not when more data comes.     *)
WriteAndTurn ==
    /\ pc = "write" /\ chunk # <<>> /\ ~Full
    /\ files' = [files EXCEPT ![index].data = @ \o SubSeq(chunk, 1, Take),
                              ![index].published = filled + Take = SegmentSize]
    /\ chunk' = SubSeq(chunk, Take + 1, Len(chunk))
    /\ total' = total + Take
    /\ IF kind = "convert" /\ filled + Take = SegmentSize /\ index < MaxSegments
         THEN index' = index + 1 /\ filled' = 0 /\ Goto("open")
         ELSE UNCHANGED index /\ filled' = filled + Take
              /\ Goto(IF Take = Len(chunk) THEN "read" ELSE "write")
    /\ UNCHANGED <<input, source, hashed, size, stream, cancel, manifest, changes>>

Write ==
    /\ pc = "write" /\ chunk # <<>> /\ ~Full
    /\ files' = [files EXCEPT ![index].data = @ \o SubSeq(chunk, 1, Take)]
    /\ chunk' = SubSeq(chunk, Take + 1, Len(chunk))
    /\ filled' = filled + Take
    /\ total' = total + Take
    /\ Goto(IF Take = Len(chunk) THEN "read" ELSE "write")
    /\ UNCHANGED <<input, source, hashed, size, stream, index, cancel, manifest, changes>>

(* Mutant: one number too many.                                            *)
NextSegmentOneMore ==
    /\ pc = "write" /\ chunk # <<>> /\ Full
    /\ Publish
    /\ index' = index + 1
    /\ filled' = 0
    /\ IF index > MaxSegments THEN Fail("usage") ELSE Goto("open")
    /\ UNCHANGED <<input, source, hashed, size, stream, chunk, total, cancel, manifest, changes>>

(* Data is left when the segment is full: publish it, begin the next one.  *)
NextSegment ==
    /\ pc = "write" /\ chunk # <<>> /\ Full /\ index < MaxSegments
    /\ Publish
    /\ index' = index + 1
    /\ filled' = 0
    /\ Goto("open")
    /\ UNCHANGED <<input, source, hashed, size, stream, chunk, total, cancel, manifest, changes>>

TooManySegments ==
    /\ pc = "write" /\ chunk # <<>> /\ Full /\ index = MaxSegments
    /\ Publish
    /\ Fail("usage")
    /\ UNCHANGED <<input, source, hashed, size, stream, chunk, index, filled, total, cancel,
                   manifest, changes>>

Close ==
    /\ pc = "close"
    /\ Publish
    /\ Goto("compare")
    /\ UNCHANGED <<input, source, hashed, size, stream, chunk, index, filled, total, cancel,
                   manifest, changes>>

(* Mutant: the lengths are compared, the digests are not.                  *)
SameSize == total = Len(hashed)

(* convert compares the size it was told, then the digests of the two      *)
(* readings; copy compares the digests.                                    *)
SameAsVerified == (kind = "convert" => total = size) /\ stream = hashed

Compare ==
    /\ pc = "compare"
    /\ IF SameAsVerified THEN Goto("case") ELSE Fail("integrity")
    /\ UNCHANGED <<input, source, hashed, size, stream, chunk, position, cancel, manifest, changes>>

(* derived_case_record, which may find no case to inherit, and the case    *)
(* that goes into the manifest.                                            *)
NoCase ==
    /\ pc = "case" /\ caseArg = None /\ dirCase = None
    /\ Fail("usage")
    /\ UNCHANGED <<input, source, hashed, size, stream, chunk, position, cancel, manifest, changes>>

(* What --case-id or --evidence-id gives is no identifier.                 *)
IdentifierRefused ==
    /\ pc = "case"
    /\ Fail("usage")
    /\ UNCHANGED <<input, source, hashed, size, stream, chunk, position, cancel, manifest, changes>>

CaseFound ==
    /\ pc = "case" /\ ~(caseArg = None /\ dirCase = None)
    /\ Goto("manifest")
    /\ UNCHANGED <<input, source, hashed, size, stream, chunk, position, cancel, manifest, changes>>

DerivedCase == IF caseArg # None THEN caseArg ELSE dirCase

(* The manifest is in place before its hash list, which may then fail.     *)
WriteManifest ==
    /\ pc = "manifest"
    /\ manifest' = [case |-> DerivedCase,
                    artifacts |-> [i \in DOMAIN files |-> files[i].data]]
    /\ \E r \in {"ok", "io"} : Fail(r)
    /\ UNCHANGED <<input, source, hashed, size, stream, chunk, position, cancel, changes>>

(* A call of the file system fails, or there is not enough room.           *)
IoFails ==
    /\ pc # "done"
    /\ Fail("io")
    /\ UNCHANGED <<input, source, hashed, size, stream, chunk, position, cancel, manifest, changes>>

Verify == HashBlock \/ HashEnd
Segment == Inspect \/ Open \/ Occupied \/ ReadBlock \/ EndOfSource \/ Write \/ NextSegment
           \/ TooManySegments \/ Close
Conclude == Compare \/ NoCase \/ IdentifierRefused \/ CaseFound \/ WriteManifest
Step == Verify \/ Segment \/ Conclude \/ Cancelled

-----------------------------------------------------------------------------
(* Ctrl-C, and somebody who writes to the source.                          *)
SetToken ==
    /\ ~cancel /\ pc # "done"
    /\ cancel' = TRUE
    /\ UNCHANGED <<pc, input, source, hashed, size, stream, chunk, position, result, manifest,
                   changes>>

Touch ==
    /\ changes < MaxChanges /\ pc # "done"
    /\ \/ \E i \in DOMAIN source, u \in Units : source' = [source EXCEPT ![i] = u]
       \/ \E u \in Units : Len(source) < MaxSize /\ source' = Append(source, u)
       \/ \E n \in 0 .. Len(source) : source' = SubSeq(source, 1, n)
    /\ changes' = changes + 1
    /\ UNCHANGED <<pc, input, hashed, size, stream, chunk, position, cancel, result, manifest>>

Next == Step \/ IoFails \/ SetToken \/ Touch

Spec == Init /\ [][Next]_vars

-----------------------------------------------------------------------------
(* Types.  A segment number never leaves the three digits of its name, not *)
(* even when the source grows after its size was taken.                    *)
Manifest == [case : Cases, artifacts : Seq(Seq(Units))]

TypeOK ==
    /\ pc \in Phases /\ result \in Results
    /\ kind \in {"convert", "copy"}
    /\ source \in Seq(Units) /\ hashed \in Seq(Units)
    /\ stream \in Seq(Units) /\ chunk \in Seq(Units)
    /\ record \in Seq(Units) \cup {None}
    /\ size \in Nat /\ filled \in Nat /\ total \in Nat /\ changes \in 0 .. MaxChanges
    /\ index \in 1 .. MaxSegments
    /\ files \in Seq([data : Seq(Units), published : BOOLEAN])
    /\ taken \subseteq 1 .. MaxSegments
    /\ caseArg \in Cases \cup {None} /\ dirCase \in Cases \cup {None}
    /\ cancel \in BOOLEAN
    /\ manifest \in Manifest \cup {None}

(* IMAGE_FORMATS.md:68: the concatenation of the segments is byte-identical*)
(* to the source.  A manifest is written only when the files it lists, laid*)
(* end to end, are what was hashed before the conversion began, and that   *)
(* is what an earlier manifest records of the source, however the source   *)
(* was changed during, between and after the two readings.                 *)
Faithful ==
    manifest # None =>
        LET set == manifest.artifacts
        IN  /\ \A i \in DOMAIN set : \A k \in 1 .. Len(set[i]) :
                  set[i][k] = hashed[(i - 1) * SegmentSize + k]
            /\ (Len(set) - 1) * SegmentSize + Len(set[Len(set)]) = Len(hashed)
            /\ record \in {None, hashed}

(* The set has the number of segments that was planned (the assertion at   *)
(* segmented.rs:150 asks for no more), each is full but the last, and the  *)
(* last is empty only when the source is.                                  *)
AsPlanned ==
    manifest # None /\ kind = "convert" =>
        LET set == manifest.artifacts
        IN  /\ Len(set) = Planned(size)
            /\ \A i \in 1 .. Len(set) - 1 : Len(set[i]) = SegmentSize
            /\ set[Len(set)] = <<>> => size = 0

(* A segment cut short never has its final name: while the source is read, *)
(* and in what an interrupted command leaves behind, every published file  *)
(* is a full segment.                                                      *)
ShortIsPartial ==
    pc \in {"open", "read", "write", "close"} \/ result = "cancelled" =>
        \A i \in DOMAIN files :
            files[i].published => kind = "convert" /\ Len(files[i].data) = SegmentSize
====
