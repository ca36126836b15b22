----------------------------- MODULE Verification -----------------------------
(***************************************************************************)
(* The commands that read a case: `verify` of a directory or of a single   *)
(* manifest (commands/evidence.rs, evidence/verify.rs), `report` with and  *)
(* without --verify (commands/report.rs), `manifest` of a directory or of  *)
(* one file.  One action is one system call another process can come in    *)
(* between: the loading of the manifests, the stat of a file and the       *)
(* hashing of it, the reading of a directory and the stat of an entry.     *)
(* Nothing is locked, so the case may change at any of these points.       *)
(*                                                                         *)
(* Listing the manifests and loading them is one step, as a manifest in    *)
(* place does not change; a directory is listed in one step, as its names  *)
(* fit in one buffer; and a file is hashed in one step: that it may change *)
(* meanwhile is the subject of module Derivation.  A call on the file      *)
(* system may also fail by itself: ReaderFault.  The CancellationToken     *)
(* may be set at any time and is only looked at where Cancelled says, so   *)
(* that there is no need to remember it.                                   *)
(***************************************************************************)
EXTENDS CaseDirectory

VARIABLES
    rpc,        \* where the command is
    kind,       \* which command it is
    loaded,     \* entries of the manifests that were loaded
    shown,      \* the entries it printed, or will list in its report
    todo,       \* entries that are still to be checked
    accounted,  \* paths of which some record was looked at
    current,    \* the entry whose file is being hashed
    outcome,    \* what was found of each path
    dirs,       \* how many class directories were read
    unread,     \* names of the directory being read, not inspected yet
    found,      \* scan_evidence_files: files seen
    exit        \* how the command ended

checks == <<todo, accounted, current, outcome>>
scan == <<dirs, unread, found>>
rvars == <<rpc, kind, loaded, shown, checks, scan, exit>>

(* "print" is `manifest` of a directory and `report` without --verify.     *)
Kinds == {"verify", "verify_one", "report_verify", "print", "print_one"}
Single == {"verify_one", "print_one"}            \* given the path of a manifest
Checking == {"verify", "verify_one", "report_verify"}
Outcomes == {"none", "MATCH", "MISMATCH", "MISSING", "EXTRA"}
ReadPhases == {"idle", "reload", "check", "hash", "scan", "done"}
ReadExits == {"none", "ok", "integrity", "invalid", "refused", "interrupted", "io"}

Nothing == [p \in Paths |-> "none"]

ReaderInit ==
    /\ rpc = "idle" /\ kind = "verify" /\ exit = "none"
    /\ loaded = {} /\ shown = {} /\ todo = {}
    /\ accounted = {} /\ current = None /\ outcome = Nothing
    /\ dirs = 0 /\ unread = {} /\ found = {}

Ends(e) == rpc' = "done" /\ exit' = e

(* An error ends the command, and nothing it found is said.                *)
GivesUp(e) ==
    /\ Ends(e)
    /\ loaded' = {} /\ shown' = {} /\ todo' = {}
    /\ accounted' = {} /\ current' = None /\ outcome' = Nothing
    /\ dirs' = 0 /\ unread' = {} /\ found' = {}

(* EvidenceStore::open and case_root_for_manifest: no case directory.      *)
Refused == rpc = "idle" /\ GivesUp("refused") /\ UNCHANGED kind

(* The manifests a command loads: those of the case, or the one it is      *)
(* given.  manifest_paths passes over a file of which it cannot tell that  *)
(* it is one: is_file() is false when the stat fails.                      *)
InPlace == {m \in Numbers : manifests[m] # None}
Chosen(k, blind, M) ==
    \/ k \in Single /\ ~blind /\ \E m \in InPlace : M = {m}
    \/ k \notin Single /\ IF blind THEN M \subseteq InPlace /\ M # InPlace ELSE M = InPlace

Loads(k, blind, M) == Chosen(k, blind, M) /\ \A m \in M : Readable(m)

(* load_manifests, or Manifest::load of the one.                           *)
Begins(k, blind) ==
    /\ rpc = "idle" /\ kind' = k
    /\ \E M \in SUBSET Numbers :
         Loads(k, blind, M) /\ loaded' = UNION {EntriesOf(m) : m \in M}
    /\ UNCHANGED <<accounted, current, outcome, scan>>

StartVerify(k, blind) ==
    /\ k \in {"verify", "verify_one"} /\ Begins(k, blind)
    /\ shown' = {} /\ todo' = loaded'
    /\ rpc' = "check" /\ UNCHANGED exit

(* The report lists what was loaded first.                                 *)
Listed == shown' = loaded' /\ todo' = {}

StartReport(k, blind) ==
    /\ k \in {"report_verify", "print"} /\ Begins(k, blind) /\ Listed
    /\ IF k = "report_verify" THEN rpc' = "reload" /\ UNCHANGED exit ELSE Ends("ok")

(* `manifest` prints and ends.                                             *)
ListManifests(blind) == Begins("print", blind) /\ Listed /\ Ends("ok")
PrintManifest == Begins("print_one", FALSE) /\ Listed /\ Ends("ok")

(* Mutant: only the manifests that are new are checked.                    *)
ReloadNew(blind) ==
    /\ rpc = "reload" /\ rpc' = "check"
    /\ \E M \in SUBSET Numbers :
         Loads(kind, blind, M) /\ loaded' = UNION {EntriesOf(m) : m \in M} \ shown
    /\ todo' = loaded'
    /\ UNCHANGED <<kind, shown, accounted, current, outcome, scan, exit>>

(* `report --verify`: verify_case loads the manifests again.               *)
Reload(blind) ==
    /\ rpc = "reload" /\ rpc' = "check"
    /\ \E M \in SUBSET Numbers :
         Loads(kind, blind, M) /\ loaded' = UNION {EntriesOf(m) : m \in M}
    /\ todo' = loaded'
    /\ UNCHANGED <<kind, shown, accounted, current, outcome, scan, exit>>

(* One manifest that Manifest::load refuses fails the command as a whole.  *)
LoadFails(k) ==
    /\ rpc = "idle" \/ (rpc = "reload" /\ k = kind)
    /\ \E M \in SUBSET Numbers : Chosen(k, FALSE, M) /\ \E m \in M : ~Readable(m)
    /\ GivesUp("invalid") /\ kind' = k

-----------------------------------------------------------------------------
(* verify_with_manifests, first loop.  The entries of a manifest come      *)
(* before those of the next one, and only the first record of a path is    *)
(* compared.                                                               *)
NextEntry(e) == rpc = "check" /\ e \in todo /\ \A d \in todo : e.slot <= d.slot

SkipRecorded(e) ==
    /\ NextEntry(e) /\ e.record.path \in accounted
    /\ todo' = todo \ {e}
    /\ UNCHANGED <<rpc, kind, loaded, shown, accounted, current, outcome, scan, exit>>

NotThere(e) ==
    /\ NextEntry(e) /\ e.record.path \notin accounted
    /\ files[e.record.path] \notin Contents
    /\ outcome' = [outcome EXCEPT ![e.record.path] =
                     IF files[e.record.path] = None THEN "MISSING" ELSE "MISMATCH"]
    /\ accounted' = accounted \cup {e.record.path}
    /\ todo' = todo \ {e}
    /\ UNCHANGED <<rpc, kind, loaded, shown, current, scan, exit>>

Stat(e) ==
    /\ NextEntry(e) /\ e.record.path \notin accounted
    /\ files[e.record.path] \in Contents
    /\ rpc' = "hash" /\ current' = e
    /\ accounted' = accounted \cup {e.record.path}
    /\ todo' = todo \ {e}
    /\ UNCHANGED <<kind, loaded, shown, outcome, scan, exit>>

(* hash_file opens the path again: the file may be another one by now, or  *)
(* gone.  (A link would be followed; nobody puts one there in between.)    *)
HashFile ==
    /\ rpc = "hash" /\ files[current.record.path] \in Contents
    /\ outcome' = [outcome EXCEPT ![current.record.path] =
                     IF files[current.record.path] = current.record.content
                       THEN "MATCH" ELSE "MISMATCH"]
    /\ rpc' = "check" /\ current' = None
    /\ UNCHANGED <<kind, loaded, shown, todo, accounted, scan, exit>>

Vanished ==
    /\ rpc = "hash" /\ files[current.record.path] \notin Contents
    /\ GivesUp("io") /\ UNCHANGED kind

-----------------------------------------------------------------------------
(* scan_evidence_files: original/, derived/ and working/ in this order.    *)
NextDir ==
    /\ \/ rpc = "check" /\ todo = {}
       \/ rpc = "scan" /\ unread = {} /\ dirs < Len(ClassOrder)
    /\ rpc' = "scan"
    /\ dirs' = dirs + 1
    /\ UNCHANGED <<kind, loaded, shown, checks, found, exit>>

ReadDir ==
    /\ NextDir
    /\ unread' = {p \in Paths : ClassOf[p] = ClassOrder[dirs + 1] /\ files[p] # None}

(* is_dir() is false when the stat of the directory fails: none of its     *)
(* files is looked at.                                                     *)
DirUnseen == NextDir /\ unread' = {}

(* Each entry is inspected by itself.  The inspections of one directory are *)
(* one step: what happens to another entry between two of them could as    *)
(* well have happened before or after them all.                            *)
Inspect ==
    /\ rpc = "scan" /\ unread # {} /\ \A p \in unread : files[p] # None
    /\ unread' = {} /\ found' = found \cup unread
    /\ UNCHANGED <<rpc, kind, loaded, shown, checks, dirs, exit>>

(* The file was renamed or removed since the directory was read.           *)
EntryGone ==
    /\ rpc = "scan" /\ \E p \in unread : files[p] = None
    /\ GivesUp("io") /\ UNCHANGED kind

Scanned == rpc = "scan" /\ dirs = Len(ClassOrder) /\ unread = {}

(* VerificationReport::is_success.  --ignore-extra is only looked at here.  *)
Verdict(o) ==
    IF \E p \in Paths : o[p] \in {"MISMATCH", "MISSING"} THEN {"integrity"}
    ELSE IF \A p \in Paths : o[p] # "EXTRA" THEN {"ok"}
    ELSE IF kind = "report_verify" THEN {"integrity"}
    ELSE {"ok", "integrity"}

(* Mutant: files without a record are looked for in the directories that   *)
(* have records.                                                           *)
JudgeKnownDirectories ==
    /\ Scanned
    /\ outcome' = [p \in Paths |->
                     IF /\ p \in found \ accounted
                        /\ \E q \in accounted : ClassOf[q] = ClassOf[p]
                       THEN "EXTRA" ELSE outcome[p]]
    /\ \E e \in Verdict(outcome') : Ends(e)
    /\ dirs' = 0 /\ found' = {} /\ accounted' = {}
    /\ UNCHANGED <<kind, loaded, shown, todo, current, unread>>

Judge ==
    /\ Scanned
    /\ outcome' = [p \in Paths |-> IF p \in found \ accounted THEN "EXTRA" ELSE outcome[p]]
    /\ \E e \in Verdict(outcome') : Ends(e)
    /\ dirs' = 0 /\ found' = {} /\ accounted' = {}
    /\ UNCHANGED <<kind, loaded, shown, todo, current, unread>>

(* cancel.check() before each record, each block that is hashed and each   *)
(* file found; not while manifests or directories are read.                *)
Cancelled ==
    /\ \/ rpc = "check" /\ todo # {}
       \/ rpc = "hash"
       \/ Scanned /\ found # {}
    /\ GivesUp("interrupted") /\ UNCHANGED kind

(* An error other than that a file is not there: of the listing and the    *)
(* loading of manifests, a stat, an open or a read.                        *)
IoFails == rpc # "done" /\ GivesUp("io") /\ UNCHANGED kind

ReaderFault ==
    \/ IoFails \/ DirUnseen \/ ListManifests(TRUE) \/ Reload(TRUE)
    \/ \E k \in Kinds : StartVerify(k, TRUE) \/ StartReport(k, TRUE)

ReaderStep ==
    \/ \E k \in Kinds : StartVerify(k, FALSE) \/ StartReport(k, FALSE) \/ LoadFails(k)
    \/ ListManifests(FALSE) \/ PrintManifest
    \/ Refused \/ Reload(FALSE)
    \/ \E e \in todo : SkipRecorded(e) \/ NotThere(e) \/ Stat(e)
    \/ HashFile \/ Vanished \/ ReadDir \/ Inspect \/ EntryGone
    \/ Judge \/ Cancelled

ReaderTypeOK ==
    /\ rpc \in ReadPhases /\ kind \in Kinds
    /\ loaded \subseteq Entries /\ shown \subseteq Entries /\ todo \subseteq loaded
    /\ accounted \subseteq Paths /\ current \in Entries \cup {None}
    /\ (rpc = "hash" => current \in Entries)
    /\ outcome \in [Paths -> Outcomes]
    /\ dirs \in 0 .. Len(ClassOrder) /\ unread \subseteq Paths /\ found \subseteq Paths
    /\ exit \in ReadExits /\ (rpc = "done" <=> exit # "none")
=============================================================================
