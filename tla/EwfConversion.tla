---------------------------- MODULE EwfConversion ----------------------------
(***************************************************************************)
(* `convert --format ewf`: commands/derive.rs::convert and all of          *)
(* imaging/ewf.rs.  ewfacquire writes the segments of the container under  *)
(* their final names in derived/; the tool lists what is there afterwards, *)
(* hashes it, has ewfverify look at it and records it.  The two programs   *)
(* run under the time limit of CommandRunner, and neither is told of the   *)
(* CancellationToken, which is looked at where Cancelled says and may be   *)
(* set at any time.  A conversion may be tried again.                      *)
(***************************************************************************)
EXTENDS CaseDirectory

CONSTANTS
    Source,       \* path of the image that is converted
    MaxSegments,  \* bound: segments of a container
    SegmentPath,  \* [1 .. MaxSegments -> Paths]: <base>.E01, <base>.E02, ...
    SlotOf,       \* [attempts -> Numbers]: the manifest of each attempt
    MaxAttempts   \* bound: how often the conversion is tried

ASSUME ConversionAssumption ==
    /\ Source \in Paths
    /\ MaxSegments \in Nat /\ MaxAttempts \in Nat
    /\ SegmentPath \in [1 .. MaxSegments -> Paths]
    /\ \A i, j \in 1 .. MaxSegments : SegmentPath[i] = SegmentPath[j] => i = j
    /\ \A i \in 1 .. MaxSegments : SegmentPath[i] # Source
    /\ SlotOf \in [1 .. MaxAttempts -> Numbers]
    /\ \A a, b \in 1 .. MaxAttempts : SlotOf[a] = SlotOf[b] => a = b
    /\ {"part", "whole"} \subseteq Contents

VARIABLES
    epc,       \* where the command is
    attempt,   \* how often it was started
    written,   \* segments ewfacquire has begun in this attempt
    produced,  \* numbers of the segments listed, not hashed yet
    adopted,   \* records of the segments hashed
    verified,  \* EwfVerification: none, success or not_run
    claims     \* ewfverify_performed and its result in the manifest of each

evars == <<epc, attempt, written, produced, adopted, verified, claims>>

EwfPhases == {"idle", "acquire", "adopt", "verify", "record"}
Verifications == {"none", "success", "not_run"}

EwfInit ==
    /\ epc = "idle" /\ attempt = 0 /\ written = 0 /\ produced = {} /\ adopted = {}
    /\ verified = "none"
    /\ claims = [a \in 1 .. MaxAttempts |-> "none"]

(* EvidenceStore::list_class_files with the prefix <base>.E                *)
SegmentsPresent == {i \in 1 .. MaxSegments : files[SegmentPath[i]] # None}

(* The command returns, and with it goes what it had in memory.            *)
EndAttempt ==
    /\ epc' = "idle"
    /\ written' = 0 /\ produced' = {} /\ adopted' = {} /\ verified' = "none"
    /\ UNCHANGED attempt

Fails == EndAttempt /\ UNCHANGED claims

Step(p) == epc' = p /\ UNCHANGED <<attempt, claims>>

(* resolve_source, probe and verify_source, which compares the source with *)
(* its first record if there is one.                                       *)
SourceMatches ==
    \A m \in Numbers :
        manifests[m] # None =>
            \A r \in manifests[m].records :
                r.path = Source =>
                    \/ r.content = files[Source]
                    \/ \E k \in 1 .. m - 1 : manifests[k] # None
                          /\ [path |-> Source, content |-> files[Source]] \in manifests[k].records

AllReadable == \A m \in Numbers : manifests[m] # None => Readable(m)

Tries ==
    /\ epc = "idle" /\ attempt < MaxAttempts /\ files[Source] \in Contents
    /\ AllReadable /\ SourceMatches
    /\ attempt' = attempt + 1
    /\ UNCHANGED <<written, produced, adopted, verified, claims, files, manifests>>

(* Any name that begins with <base>.E counts as taken; or the names are    *)
(* free, but `ewfacquire -V` does not run, or the token is set by then.    *)
StartRefused == Tries /\ UNCHANGED epc

StartConversion == Tries /\ SegmentsPresent = {} /\ epc' = "acquire"

-----------------------------------------------------------------------------
(* ewfacquire (external): segments are written one after the other.        *)
OpenSegment ==
    /\ epc = "acquire" /\ written < MaxSegments
    /\ (written > 0 => files[SegmentPath[written]] # "part")
    /\ written' = written + 1
    /\ Put(SegmentPath[written + 1], "part")
    /\ UNCHANGED <<epc, attempt, produced, adopted, verified, claims,
                   manifests>>

CloseSegment ==
    /\ epc = "acquire" /\ written > 0 /\ files[SegmentPath[written]] = "part"
    /\ Put(SegmentPath[written], "whole")
    /\ UNCHANGED <<evars, manifests>>

Idle == written > 0 => files[SegmentPath[written]] # "part"

(* Mutant: the exit status of ewfacquire is not looked at.                 *)
ListAnyway ==
    /\ epc = "acquire" /\ SegmentsPresent # {}
    /\ Step("adopt")
    /\ produced' = SegmentsPresent
    /\ UNCHANGED <<written, adopted, verified, files, manifests>>

(* Mutant: an exit code of 0 is taken to mean that there is a container.   *)
ListNone ==
    /\ epc = "acquire" /\ Idle
    /\ Step("adopt")
    /\ produced' = SegmentsPresent
    /\ UNCHANGED <<written, adopted, verified, files, manifests>>

(* Exit code 0, and the listing of what was produced.                      *)
ListProduced ==
    /\ epc = "acquire" /\ Idle /\ SegmentsPresent # {}
    /\ Step("adopt")
    /\ produced' = SegmentsPresent
    /\ UNCHANGED <<written, adopted, verified, files, manifests>>

NothingProduced ==
    /\ epc = "acquire" /\ Idle /\ SegmentsPresent = {}
    /\ Fails
    /\ UNCHANGED <<files, manifests>>

(* Another exit code, or the time limit of `run`, which kills the program: *)
(* what it wrote stays under its final names.                              *)
AcquireFails ==
    /\ epc = "acquire"
    /\ Fails
    /\ UNCHANGED <<files, manifests>>

-----------------------------------------------------------------------------
(* adopt_artifact for each, in the order of the names.                     *)
Adopt(i) ==
    /\ epc = "adopt"
    /\ i \in produced /\ \A j \in produced : i <= j
    /\ files[SegmentPath[i]] \in Contents
    /\ adopted' = adopted \cup {[path |-> SegmentPath[i], content |-> files[SegmentPath[i]]]}
    /\ produced' = produced \ {i}
    /\ Step(IF produced = {i} THEN "verify" ELSE "adopt")
    /\ UNCHANGED <<written, verified, files, manifests>>

(* A segment that is gone or cannot be read, or the token, looked at       *)
(* before each segment is hashed and while it is.                          *)
AdoptFails ==
    /\ epc = "adopt"
    /\ Fails
    /\ UNCHANGED <<files, manifests>>

(* ewfverify (external) accepts only a whole container.  That it could not *)
(* be run, and that it ran out of time, come to the same.                  *)
VerifyContainer ==
    /\ epc = "verify"
    /\ \E v \in {"success", "not_run"} :
         /\ v = "success" => \A r \in adopted : files[r.path] = "whole"
         /\ verified' = v
    /\ Step("record")
    /\ UNCHANGED <<written, produced, adopted, files, manifests>>

ContainerRejected ==
    /\ epc = "verify"
    /\ Fails
    /\ UNCHANGED <<files, manifests>>

(* derived_case_record loads all manifests again.                          *)
CaseUnreadable ==
    /\ epc = "record" /\ ~AllReadable
    /\ Fails
    /\ UNCHANGED <<files, manifests>>

(* The manifest is in place before its hash list, which may then fail.     *)
RecordContainer ==
    /\ epc = "record" /\ AllReadable
    /\ Enter(SlotOf[attempt], adopted)
    /\ claims' = [claims EXCEPT ![attempt] = verified]
    /\ EndAttempt
    /\ UNCHANGED files

EwfStep ==
    \/ StartConversion \/ StartRefused
    \/ OpenSegment \/ CloseSegment \/ AcquireFails \/ ListProduced \/ NothingProduced
    \/ (\E i \in 1 .. MaxSegments : Adopt(i)) \/ AdoptFails
    \/ VerifyContainer \/ ContainerRejected \/ CaseUnreadable \/ RecordContainer

EwfTypeOK ==
    /\ epc \in EwfPhases /\ attempt \in 0 .. MaxAttempts /\ written \in 0 .. MaxSegments
    /\ produced \subseteq 1 .. MaxSegments /\ adopted \subseteq Records
    /\ verified \in Verifications
    /\ claims \in [1 .. MaxAttempts -> Verifications]
    /\ (epc # "idle" => attempt > 0) /\ (epc = "adopt" => produced # {})
=============================================================================
