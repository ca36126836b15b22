----------------------------- MODULE CaseDirectory -----------------------------
(***************************************************************************)
(* What commands that read and write one case directory share: the files   *)
(* under original/, derived/ and working/, and the manifests.  Manifests   *)
(* are numbered in the order of their file names, which is the order in    *)
(* which load_manifests returns them.  A file is what it holds, and two    *)
(* contents are equal exactly when their sizes and digests are.            *)
(***************************************************************************)
EXTENDS Naturals, Sequences

CONSTANTS
    Paths,     \* case-relative paths of evidence files
    ClassOrder,\* class directories: original, derived, working
    ClassOf,   \* the one each path is in
    Slots,     \* bound: numbers of manifests
    Contents,  \* what a regular file may hold
    None,      \* no file, no manifest
    Link       \* a symbolic link in place of a file

ASSUME DirectoryAssumption ==
    /\ ClassOrder \in Seq(STRING)
    /\ ClassOf \in [Paths -> {ClassOrder[i] : i \in DOMAIN ClassOrder}]
    /\ Slots \in Nat
    /\ None \notin Contents /\ Link \notin Contents /\ None # Link

VARIABLES
    files,     \* what is at each path
    manifests  \* the manifest of each number

Numbers == 1 .. Slots
Records == [path : Paths, content : Contents]   \* ArtifactRecord
Manifest == [valid : BOOLEAN, records : SUBSET Records]
ASSUME ManifestAssumption == None \notin Manifest

DirectoryTypeOK ==
    /\ files \in [Paths -> Contents \cup {None, Link}]
    /\ manifests \in [Numbers -> Manifest \cup {None}]

(* Manifest::validate accepts it.                                          *)
Readable(m) == manifests[m].valid

(* An entry is a record together with the manifest it stands in.           *)
Entries == [slot : Numbers, record : Records]
EntriesOf(m) == {[slot |-> m, record |-> r] : r \in manifests[m].records}

Put(p, c) == files' = [files EXCEPT ![p] = c]

(* store.write_manifest: the rename of a whole document into place.        *)
Enter(m, records) ==
    manifests' = [manifests EXCEPT ![m] = [valid |-> TRUE, records |-> records]]
=============================================================================
