-------------------------- MODULE Derivation_proofs --------------------------
(***************************************************************************)
(* Proofs about Derivation: the derived set is the verified source, laid   *)
(* out in the planned number of segments, for every segment size, block    *)
(* size and source.                                                        *)
(***************************************************************************)
EXTENDS Derivation, SequenceTheorems, TLAPS

LEMMA DivExact ==
    ASSUME NEW S \in Nat \ {0}, NEW q \in Nat, NEW r \in Nat, r < S
    PROVE  (q * S + r) \div S = q
<1> DEFINE d == (q * S + r) \div S
           m == (q * S + r) % S
<1>1. d \in Nat /\ m \in 0 .. S - 1 /\ q * S + r = d * S + m
  BY SMT
<1>2. CASE d > q
  BY <1>1, <1>2, SMT
<1>3. CASE d < q
  BY <1>1, <1>3, SMT
<1> QED BY <1>1, <1>2, <1>3

-----------------------------------------------------------------------------
(* The inductive invariant.  While the command runs, the files written so  *)
(* far and the rest of the chunk are together what was read, cut every     *)
(* SegmentSize units.                                                      *)
Before == {"verify", "inspect"}
Writing == {"read", "write", "close"}
After == {"compare", "case", "manifest"}

Counted ==
    /\ total = (index - 1) * SegmentSize + filled
    /\ kind = "convert" => filled <= SegmentSize
    /\ kind = "copy" => index = 1

Started ==
    /\ pc \in Before => /\ index = 1 /\ filled = 0 /\ files = <<>>
                        /\ stream = <<>> /\ chunk = <<>>
    /\ pc = "open" => filled = 0 /\ Len(files) + 1 = index
    /\ pc \in Writing \cup After => Len(files) = index
    /\ pc \in {"read", "close"} \cup After => chunk = <<>>
    /\ pc = "write" => chunk # <<>>

(* What is left of the chunk is what was read and is not written.          *)
Pending ==
    /\ Len(stream) = total + Len(chunk)
    /\ \A j \in 1 .. Len(chunk) : chunk[j] = stream[total + j]

Pieces ==
    \A i \in DOMAIN files :
        /\ Len(files[i].data) = IF i < index THEN SegmentSize ELSE filled
        /\ \A k \in 1 .. Len(files[i].data) :
              files[i].data[k] = stream[(i - 1) * SegmentSize + k]

(* A segment is opened only for data that is there.                        *)
Needed == index > 1 => filled > 0 \/ chunk # <<>>

Names ==
    \A i \in DOMAIN files : files[i].published => i < index \/ pc \in After

Checked ==
    /\ pc \notin {"verify", "done"} => record \in {None, hashed}
    /\ pc \in {"case", "manifest"} => SameAsVerified
    /\ pc = "manifest" => caseArg # None \/ dirCase # None

Laid == Counted /\ Started /\ Pending /\ Pieces /\ Needed /\ Names /\ Checked

Inv ==
    /\ TypeOK
    /\ Faithful
    /\ AsPlanned
    /\ ShortIsPartial
    /\ pc # "done" => Laid /\ manifest = None /\ result = "none"

DerivedFile == [data : Seq(Units), published : BOOLEAN]

LEMMA ContentsAreSequences == Contents \subseteq Seq(Units)
<1> SUFFICES ASSUME NEW n \in Sizes, NEW c \in [1 .. n -> Units] PROVE c \in Seq(Units)
  BY DEF Contents
<1> QED BY SizeAssumption DEF Sizes

LEMMA InitInv == Init => Inv
<1> SUFFICES ASSUME Init PROVE Inv
  OBVIOUS
<1> USE SizeAssumption DEF Init
<1>1. source \in Seq(Units) /\ record \in Seq(Units) \cup {None}
  BY ContentsAreSequences
<1>2. <<>> \in Seq(Units) /\ Len(<<>>) = 0
  BY EmptySeq
<1>3. files \in Seq(DerivedFile) /\ Len(files) = 0 /\ DOMAIN files = {}
  BY EmptySeq, LenProperties
<1>4. taken \subseteq 1 .. MaxSegments
  OBVIOUS
<1>5. TypeOK
  <2>1. /\ pc \in Phases /\ result \in Results
        /\ size \in Nat /\ filled \in Nat /\ total \in Nat /\ changes \in 0 .. MaxChanges
        /\ index \in 1 .. MaxSegments
    BY DEF Phases, Results
  <2>2. /\ hashed \in Seq(Units) /\ stream \in Seq(Units) /\ chunk \in Seq(Units)
        /\ cancel \in BOOLEAN
    BY <1>2
  <2>3. kind \in {"convert", "copy"} /\ manifest \in Manifest \cup {None}
    OBVIOUS
  <2>4. caseArg \in Cases \cup {None} /\ dirCase \in Cases \cup {None}
    OBVIOUS
  <2> HIDE DEF Init
  <2> QED BY <1>1, <1>3, <1>4, <2>1, <2>2, <2>3, <2>4 DEF TypeOK, DerivedFile
<1>6. Faithful /\ AsPlanned
  BY DEF Faithful, AsPlanned
<1>7. ShortIsPartial
  BY <1>3 DEF ShortIsPartial
<1>8. Laid
  BY <1>2, <1>3 DEF Laid, Counted, Started, Pending, Pieces, Needed, Names, Checked,
                    Before, Writing, After
<1> QED BY <1>5, <1>6, <1>7, <1>8 DEF Inv

(* A step that stops the command and leaves its files as they are.         *)
Kept == <<input, source, hashed, size, stream, chunk, position, cancel, changes>>

LEMMA Stop ==
  ASSUME Inv, pc # "done", pc' = "done", result' \in Results, UNCHANGED <<Kept, manifest>>,
         result' = "cancelled" => pc \in {"verify", "read"}
  PROVE  Inv'
<1> USE DEF Inv, Kept, input, position
<1>1. TypeOK'
  BY DEF TypeOK, Phases
<1>2. Faithful' /\ AsPlanned'
  BY DEF Faithful, AsPlanned
<1>3. ShortIsPartial'
  <2> SUFFICES ASSUME result' = "cancelled", NEW i \in DOMAIN files, files[i].published
               PROVE  kind = "convert" /\ Len(files[i].data) = SegmentSize
    BY DEF ShortIsPartial
  <2>1. i < index
    BY DEF Laid, Names, After
  <2>2. index \in Nat /\ i \in Nat /\ i >= 1 /\ kind \in {"convert", "copy"}
    BY SizeAssumption, LenProperties DEF TypeOK
  <2>3. kind = "convert"
    BY <2>1, <2>2 DEF Laid, Counted
  <2>4. Len(files[i].data) = SegmentSize
    BY <2>1 DEF Laid, Pieces
  <2> QED BY <2>3, <2>4
<1> QED BY <1>1, <1>2, <1>3

LEMMA ReadsType ==
  ASSUME source \in Seq(Units), NEW from \in Nat, NEW b \in Reads(from)
  PROVE  b \in Seq(Units) /\ b # <<>>
<1>1. PICK n \in 1 .. BlockSize :
         from + n <= Len(source) /\ b = SubSeq(source, from + 1, from + n)
  BY DEF Reads
<1>2. Len(source) \in Nat /\ n \in Nat /\ n >= 1
  BY <1>1, SizeAssumption, LenProperties
<1>3. \A i \in from + 1 .. from + n : source[i] \in Units
  BY <1>1, <1>2, ElementOfSeq
<1>4. b \in Seq(Units) /\ Len(b) = n
  BY <1>1, <1>2, <1>3, SubSeqProperties
<1> QED BY <1>2, <1>4, EmptySeq

(* A step after which the command still runs.                              *)
LEMMA Go ==
  ASSUME TypeOK', Laid', pc' # "done", manifest' = None, result' = "none"
  PROVE  Inv'
<1>1. Faithful' /\ AsPlanned'
  BY DEF Faithful, AsPlanned
<1>2. ShortIsPartial'
  <2> SUFFICES ASSUME pc' \notin After, NEW i \in DOMAIN files', files'[i].published
               PROVE  kind' = "convert" /\ Len(files'[i].data) = SegmentSize
    BY DEF ShortIsPartial, After
  <2>1. i < index'
    BY DEF Laid, Names
  <2>2. index' \in Nat /\ i \in Nat /\ i >= 1 /\ kind' \in {"convert", "copy"}
    BY SizeAssumption, LenProperties DEF TypeOK
  <2>3. kind' = "convert"
    BY <2>1, <2>2 DEF Laid, Counted
  <2> QED BY <2>1, <2>3 DEF Laid, Pieces
<1> QED BY <1>1, <1>2 DEF Inv

(* The steps that move on and leave the files and the readings alone.      *)
LEMMA MoveOn ==
  ASSUME Inv, pc # "done",
         \/ HashBlock \/ SetToken \/ Touch
         \/ (HashEnd \/ Inspect \/ EndOfSource \/ Compare \/ CaseFound) /\ pc' # "done"
  PROVE  Inv'
<1> USE DEF Inv, input, position, Goto, Fail
<1>1. TypeOK'
  <2>1. CASE HashBlock
    <3>1. Len(hashed) \in Nat
      BY LenProperties DEF TypeOK
    <3>2. hashed' \in Seq(Units)
      BY <2>1, <3>1, ReadsType, ConcatProperties DEF HashBlock, TypeOK
    <3> QED BY <2>1, <3>2 DEF HashBlock, TypeOK
  <2>2. CASE SetToken
    BY <2>2 DEF SetToken, TypeOK
  <2>3. CASE Touch
    <3>1. source' \in Seq(Units)
      <4>1. ASSUME NEW i \in DOMAIN source, NEW u \in Units, source' = [source EXCEPT ![i] = u]
            PROVE  source' \in Seq(Units)
        BY <4>1, ExceptSeq, LenProperties DEF TypeOK
      <4>2. ASSUME NEW u \in Units, source' = Append(source, u) PROVE source' \in Seq(Units)
        BY <4>2, AppendProperties DEF TypeOK
      <4>3. ASSUME NEW n \in 0 .. Len(source), source' = SubSeq(source, 1, n)
            PROVE  source' \in Seq(Units)
        <5>1. n \in Int /\ \A i \in 1 .. n : source[i] \in Units
          BY LenProperties, ElementOfSeq DEF TypeOK
        <5> QED BY <4>3, <5>1, SubSeqProperties
      <4> QED BY <2>3, <4>1, <4>2, <4>3 DEF Touch
    <3>2. changes' \in 0 .. MaxChanges
      <4>1. changes \in 0 .. MaxChanges /\ changes < MaxChanges /\ changes' = changes + 1
        BY <2>3 DEF Touch, TypeOK
      <4> HIDE DEF Inv
      <4> QED BY ONLY <4>1, SizeAssumption
    <3>3. UNCHANGED <<pc, input, hashed, size, stream, chunk, position, cancel, result, manifest>>
      BY <2>3 DEF Touch
    <3> HIDE DEF Inv
    <3> QED BY <3>1, <3>2, <3>3 DEF TypeOK, Inv
  <2>4. CASE HashEnd \/ Inspect \/ EndOfSource \/ Compare \/ CaseFound
    <3>1. pc' \in Phases /\ result' \in Results
      BY <2>4 DEF HashEnd, Inspect, EndOfSource, Compare, CaseFound, TypeOK, Phases, Results
    <3>2. size' \in Nat
      BY <2>4, LenProperties DEF HashEnd, Inspect, EndOfSource, Compare, CaseFound, TypeOK
    <3>3. UNCHANGED <<input, source, hashed, stream, chunk, position, cancel, manifest, changes>>
      BY <2>4 DEF HashEnd, Inspect, EndOfSource, Compare, CaseFound
    <3> QED BY <3>1, <3>2, <3>3 DEF TypeOK
  <2> QED BY <2>1, <2>2, <2>3, <2>4
<1>2. /\ pc' # "done" /\ manifest' = None /\ result' = "none"
      /\ UNCHANGED <<input, stream, chunk, position>>
  BY DEF HashBlock, SetToken, Touch, HashEnd, Inspect, EndOfSource, Compare, CaseFound
<1>3. Counted' /\ Pending' /\ Pieces' /\ Needed'
  BY <1>2 DEF Laid, Counted, Pending, Pieces, Needed
<1>4. Started' /\ Names'
  <2>1. UNCHANGED pc \/ <<pc, pc'>> \in {<<"verify", "inspect">>, <<"inspect", "open">>,
            <<"read", "close">>, <<"compare", "case">>, <<"case", "manifest">>}
    BY DEF HashBlock, SetToken, Touch, HashEnd, Inspect, EndOfSource, Compare, CaseFound
  <2>2. Len(<<>>) = 0
    OBVIOUS
  <2> QED BY <1>2, <2>1, <2>2
          DEF Laid, Started, Names, Before, Writing, After
<1>5. Checked'
  BY <1>2 DEF Laid, Checked, SameAsVerified, HashBlock, SetToken, Touch, HashEnd, Inspect,
              EndOfSource, Compare, CaseFound
<1> QED BY <1>1, <1>2, <1>3, <1>4, <1>5, Go DEF Laid

(* What lies in an earlier segment lies before the current one.            *)
LEMMA EarlierPiece ==
  ASSUME NEW S \in Nat, NEW n \in Nat, NEW i \in Nat, NEW k \in 1 .. S, NEW f \in Nat,
         i >= 1, i < n
  PROVE  (i - 1) * S + k \in 1 .. (n - 1) * S + f
<1>1. PICK d \in Nat : n - 1 = (i - 1) + 1 + d
  <2>1. n - 1 - i \in Nat /\ n - 1 = (i - 1) + 1 + (n - 1 - i)
    OBVIOUS
  <2> QED BY <2>1
<1>2. PICK j \in Nat : j = i - 1
  OBVIOUS
<1>3. (j + 1 + d) * S = j * S + S + d * S
  BY SMT
<1>4. j * S \in Nat /\ d * S \in Nat
  BY SMT
<1>5. (n - 1) * S = (i - 1) * S + S + d * S
  BY <1>1, <1>2, <1>3
<1>6. (i - 1) * S \in Nat
  BY <1>2, <1>4
<1> DEFINE x == (i - 1) * S
           y == d * S
           z == (n - 1) * S
<1>7. x \in Nat /\ y \in Nat /\ z = x + S + y
  BY <1>4, <1>5, <1>6
<1> HIDE DEF x, y, z
<1>8. x + k \in 1 .. z + f
  BY <1>7
<1> QED BY <1>8 DEF x, z

(* The shape of a running command's state, as plain arithmetic.            *)
LEMMA Shape ==
  ASSUME TypeOK, Laid
  PROVE  /\ Len(stream) \in Nat /\ Len(chunk) \in Nat /\ Len(files) \in Nat
         /\ DOMAIN files = 1 .. Len(files) /\ index \in Nat /\ index >= 1
         /\ \A i \in DOMAIN files : /\ files[i] \in DerivedFile
                                    /\ DOMAIN files[i].data = 1 .. Len(files[i].data)
                                    /\ Len(files[i].data) \in Nat
         /\ \A i \in DOMAIN files : \A k \in 1 .. Len(files[i].data) :
               i <= index => (i - 1) * SegmentSize + k \in 1 .. total
<1>1. /\ Len(stream) \in Nat /\ Len(chunk) \in Nat /\ Len(files) \in Nat
      /\ DOMAIN files = 1 .. Len(files) /\ index \in Nat /\ index >= 1
  BY SizeAssumption, LenProperties DEF TypeOK
<1>2. ASSUME NEW i \in DOMAIN files
      PROVE  /\ files[i] \in DerivedFile
             /\ DOMAIN files[i].data = 1 .. Len(files[i].data)
             /\ Len(files[i].data) \in Nat
  <2>1. files \in Seq(DerivedFile) /\ i \in 1 .. Len(files)
    BY <1>1 DEF TypeOK, DerivedFile
  <2>2. files[i] \in DerivedFile
    BY <2>1, ElementOfSeq
  <2>3. files[i].data \in Seq(Units)
    BY <2>2 DEF DerivedFile
  <2> QED BY <2>2, <2>3, LenProperties
<1>3. ASSUME NEW i \in DOMAIN files, NEW k \in 1 .. Len(files[i].data), i <= index
      PROVE  (i - 1) * SegmentSize + k \in 1 .. total
  <2>1. /\ i \in Nat /\ i >= 1 /\ k \in Nat /\ k >= 1 /\ SegmentSize \in Nat /\ filled \in Nat
        /\ k <= (IF i < index THEN SegmentSize ELSE filled)
        /\ total = (index - 1) * SegmentSize + filled
    BY <1>1, <1>2, SizeAssumption DEF Laid, Pieces, Counted, TypeOK
  <2>2. CASE i = index
    BY ONLY <1>1, <2>1, <2>2, SMT
  <2>3. CASE i < index
    <3>1. k \in 1 .. SegmentSize
      BY ONLY <2>1, <2>3
    <3> HIDE DEF Laid, TypeOK
    <3> QED BY ONLY <1>1, <2>1, <2>3, <3>1, EarlierPiece
  <2> QED BY ONLY <1>1, <1>3, <2>1, <2>2, <2>3
<1> QED BY <1>1, <1>2, <1>3

LEMMA OpenStep == ASSUME Inv, Open PROVE Inv'
<1> DEFINE new == [data |-> <<>>, published |-> FALSE]
<1>0. TypeOK /\ Laid /\ manifest = None /\ result = "none"
  BY DEF Inv, Open
<1>1. /\ files \in Seq(DerivedFile) /\ new \in DerivedFile /\ Len(<<>>) = 0
      /\ pc = "open" /\ filled = 0 /\ Len(files) + 1 = index
  BY <1>0, EmptySeq DEF TypeOK, DerivedFile, Laid, Started, Open
<1>2. files' = Append(files, new) /\ pc' = IF chunk = <<>> THEN "read" ELSE "write"
  BY DEF Open, Goto
<1>3. UNCHANGED <<input, source, hashed, size, stream, chunk, index, filled, total, cancel,
                  manifest, changes, result>>
  BY DEF Open, Goto
<1>4. /\ files' \in Seq(DerivedFile) /\ Len(files') = index
      /\ \A i \in 1 .. Len(files) : files'[i] = files[i]
      /\ files'[index] = new
  <2> HIDE DEF new
  <2> QED BY <1>1, <1>2, AppendProperties
<1>5. DOMAIN files' = 1 .. index /\ DOMAIN files = 1 .. index - 1
  BY <1>0, <1>1, <1>4, LenProperties, Shape
<1>6. TypeOK'
  BY <1>0, <1>2, <1>3, <1>4 DEF TypeOK, DerivedFile, Phases, input
<1>7. Pieces'
  <2> SUFFICES ASSUME NEW i \in 1 .. index
      PROVE  /\ Len(files'[i].data) = IF i < index THEN SegmentSize ELSE filled
             /\ \A k \in 1 .. Len(files'[i].data) :
                   files'[i].data[k] = stream[(i - 1) * SegmentSize + k]
    BY <1>3, <1>5 DEF Pieces
  <2>1. CASE i = index
    BY <1>1, <1>4, <2>1, Shape, <1>0
  <2>2. CASE i # index
    <3>1. i \in DOMAIN files /\ i < index /\ files'[i] = files[i]
      BY <1>0, <1>1, <1>4, <1>5, <2>2, Shape
    <3> QED BY <1>0, <3>1 DEF Laid, Pieces
  <2> QED BY <2>1, <2>2
<1>8. Names'
  <2> SUFFICES ASSUME NEW i \in 1 .. index, files'[i].published PROVE i < index
    BY <1>3, <1>5 DEF Names
  <2>1. i # index
    BY <1>4
  <2> QED BY <1>0, <2>1, Shape
<1>9. Started'
  BY <1>2, <1>3, <1>4 DEF Started, Before, Writing, After
<1>10. Counted' /\ Pending' /\ Needed' /\ Checked'
  BY <1>0, <1>1, <1>2, <1>3 DEF Laid, Counted, Pending, Needed, Checked, SameAsVerified, input
<1> QED BY <1>0, <1>2, <1>3, <1>6, <1>7, <1>8, <1>9, <1>10, Go DEF Laid

LEMMA ReadStep == ASSUME Inv, ReadBlock PROVE Inv'
<1>0. TypeOK /\ Laid /\ manifest = None /\ result = "none" /\ pc = "read"
  BY DEF Inv, ReadBlock
<1>1. PICK b \in Reads(Len(stream)) : stream' = stream \o b /\ chunk' = b
  BY DEF ReadBlock
<1>2. b \in Seq(Units) /\ b # <<>> /\ Len(b) \in Nat
  BY <1>0, Shape, ReadsType, LenProperties DEF TypeOK
<1>3. /\ stream' \in Seq(Units) /\ Len(stream') = Len(stream) + Len(b)
      /\ \A j \in 1 .. Len(stream) + Len(b) :
            stream'[j] = IF j <= Len(stream) THEN stream[j] ELSE b[j - Len(stream)]
  BY <1>0, <1>1, <1>2, ConcatProperties DEF TypeOK
<1>4. /\ UNCHANGED <<input, source, hashed, size, index, filled, total, files, cancel, manifest,
                     changes, result>>
      /\ pc' = "write"
  BY DEF ReadBlock, Goto, position
<1>5. TypeOK'
  BY <1>0, <1>1, <1>2, <1>3, <1>4 DEF TypeOK, Phases, input
<1>6. Len(stream) = total /\ total \in Nat
  BY <1>0 DEF Laid, Started, Pending, TypeOK
<1>7. Pending'
  <2>1. \A j \in 1 .. Len(b) : b[j] = stream'[total + j]
    BY <1>2, <1>3, <1>6
  <2> QED BY <1>1, <1>3, <1>4, <1>6, <2>1 DEF Pending
<1>8. Pieces'
  <2>1. ASSUME NEW i \in DOMAIN files, NEW k \in 1 .. Len(files[i].data)
        PROVE  files[i].data[k] = stream'[(i - 1) * SegmentSize + k]
    <3>1. i <= index
      BY <1>0, Shape DEF Laid, Started, Writing
    <3>2. (i - 1) * SegmentSize + k \in 1 .. total
      BY <1>0, <3>1, Shape
    <3>3. stream'[(i - 1) * SegmentSize + k] = stream[(i - 1) * SegmentSize + k]
      BY <1>2, <1>3, <1>6, <3>2
    <3> QED BY <1>0, <3>3 DEF Laid, Pieces
  <2> QED BY <1>0, <1>4, <2>1 DEF Laid, Pieces
<1>9. Counted' /\ Needed' /\ Names' /\ Checked'
  BY <1>0, <1>1, <1>2, <1>4 DEF Laid, Counted, Needed, Names, Checked, After, input
<1>10. Started'
  BY <1>0, <1>1, <1>2, <1>4 DEF Laid, Started, Before, Writing, After
<1> QED BY <1>0, <1>4, <1>5, <1>7, <1>8, <1>9, <1>10, Go DEF Laid

LEMMA SegmentStart ==
  ASSUME TypeOK
  PROVE  (index - 1) * SegmentSize \in Nat
<1>1. PICK a \in Nat, b \in Nat : a = index - 1 /\ b = SegmentSize
  BY SizeAssumption DEF TypeOK
<1>2. a * b \in Nat
  BY ONLY <1>1, SMT
<1> QED BY <1>1, <1>2

(* Take is at least one unit, for a segment that is not full.              *)
LEMMA TakeBounds ==
  ASSUME TypeOK, Laid, pc = "write", chunk # <<>>, ~Full
  PROVE  /\ Take \in 1 .. Len(chunk)
         /\ kind = "convert" => filled + Take <= SegmentSize
         /\ kind = "copy" => Take = Len(chunk)
<1>1. Len(chunk) \in Nat /\ Len(chunk) # 0
  BY Shape, EmptySeq DEF TypeOK
<1>2. kind = "convert" => filled < SegmentSize
  BY SizeAssumption DEF Full, Laid, Counted, TypeOK
<1>3. filled \in Nat /\ SegmentSize \in Nat /\ kind \in {"convert", "copy"}
  BY SizeAssumption DEF TypeOK
<1> HIDE DEF Laid, TypeOK
<1> QED BY <1>1, <1>2, <1>3 DEF Take

LEMMA WriteStep == ASSUME Inv, Write PROVE Inv'
<1> DEFINE T == Take
           part == SubSeq(chunk, 1, T)
<1>0. /\ TypeOK /\ Laid /\ manifest = None /\ result = "none" /\ pc = "write"
      /\ chunk # <<>> /\ ~Full
  BY DEF Inv, Write
<1>1. /\ files' = [files EXCEPT ![index].data = @ \o part]
      /\ chunk' = SubSeq(chunk, T + 1, Len(chunk))
      /\ filled' = filled + T /\ total' = total + T
      /\ pc' = IF T = Len(chunk) THEN "read" ELSE "write"
      /\ UNCHANGED <<input, source, hashed, size, stream, index, cancel, manifest, changes,
                     result>>
  BY DEF Write, Goto
<1>2. /\ T \in 1 .. Len(chunk) /\ T \in Nat /\ T >= 1 /\ Len(chunk) \in Nat
      /\ kind = "convert" => filled + T <= SegmentSize
      /\ kind = "copy" => T = Len(chunk)
  BY <1>0, TakeBounds, Shape
<1> HIDE DEF T
<1>3. chunk \in Seq(Units) /\ filled \in Nat /\ total \in Nat /\ files \in Seq(DerivedFile)
  BY <1>0 DEF TypeOK, DerivedFile
<1>4. \A j \in 1 .. Len(chunk) : chunk[j] \in Units
  BY <1>3, ElementOfSeq
<1>5. part \in Seq(Units) /\ Len(part) = T /\ \A j \in 1 .. T : part[j] = chunk[j]
  BY <1>2, <1>4, SubSeqProperties
<1>6. /\ chunk' \in Seq(Units) /\ Len(chunk') = Len(chunk) - T
      /\ \A j \in 1 .. Len(chunk) - T : chunk'[j] = chunk[T + j]
  <2>1. T + 1 \in Int /\ Len(chunk) \in Int /\ \A j \in T + 1 .. Len(chunk) : chunk[j] \in Units
    BY <1>2, <1>4
  <2> QED BY <1>1, <1>2, <2>1, SubSeqProperties
<1> HIDE DEF part
<1>7. /\ Len(files) = index /\ index \in Nat /\ index \in DOMAIN files
      /\ DOMAIN files = 1 .. index /\ files[index] \in DerivedFile
      /\ files[index].data \in Seq(Units) /\ Len(files[index].data) = filled
  <2>1. Len(files) = index /\ index \in DOMAIN files /\ DOMAIN files = 1 .. index
    BY <1>0, Shape DEF Laid, Started, Writing
  <2>2. files[index] \in DerivedFile
    BY <1>0, <2>1, Shape
  <2> QED BY <1>0, <2>1, <2>2, Shape DEF DerivedFile, Laid, Pieces
<1> DEFINE whole == files[index].data \o part
<1>8. /\ whole \in Seq(Units) /\ Len(whole) = filled + T
      /\ \A k \in 1 .. filled + T :
            whole[k] = IF k <= filled THEN files[index].data[k] ELSE part[k - filled]
  <2> DEFINE old == files[index].data
  <2>1. old \in Seq(Units) /\ Len(old) = filled /\ part \in Seq(Units) /\ Len(part) = T
    BY <1>5, <1>7
  <2> HIDE DEF old
  <2>2. /\ old \o part \in Seq(Units) /\ Len(old \o part) = Len(old) + Len(part)
        /\ \A k \in 1 .. Len(old) + Len(part) :
              (old \o part)[k] = IF k <= Len(old) THEN old[k] ELSE part[k - Len(old)]
    BY <2>1, ConcatProperties
  <2>3. whole = old \o part
    BY DEF old
  <2> HIDE DEF whole
  <2> QED BY <2>1, <2>2, <2>3 DEF old
<1>9. /\ files' \in Seq(DerivedFile) /\ Len(files') = index /\ DOMAIN files' = 1 .. index
      /\ \A i \in 1 .. index : /\ i # index => files'[i] = files[i]
                               /\ files'[i].published = files[i].published
      /\ files'[index].data = whole
  <2> HIDE DEF whole
  <2> DEFINE new == [files[index] EXCEPT !.data = whole]
  <2>1. files' = [files EXCEPT ![index] = new]
    BY <1>1 DEF whole
  <2>2. new \in DerivedFile /\ new.data = whole /\ new.published = files[index].published
    BY <1>7, <1>8 DEF DerivedFile
  <2> HIDE DEF new
  <2>3. /\ files' \in Seq(DerivedFile) /\ Len(files') = Len(files)
        /\ \A i \in 1 .. Len(files) : files'[i] = IF i = index THEN new ELSE files[i]
    BY <1>3, <1>7, <2>1, <2>2, ExceptSeq
  <2>4. DOMAIN files' = 1 .. index
    BY <1>7, <2>3, LenProperties
  <2> QED BY <1>7, <2>2, <2>3, <2>4
<1> HIDE DEF whole
<1>10. TypeOK'
  <2>1. filled' \in Nat /\ total' \in Nat /\ pc' \in Phases
    BY <1>1, <1>2, <1>3 DEF Phases
  <2>2. chunk' \in Seq(Units) /\ files' \in Seq(DerivedFile)
    BY <1>6, <1>9
  <2>3. UNCHANGED <<input, source, hashed, size, stream, index, cancel, manifest, changes, result>>
    BY <1>1
  <2> QED BY <1>0, <2>1, <2>2, <2>3 DEF TypeOK, DerivedFile, input
<1>11. Counted'
  <2>1. total' = (index' - 1) * SegmentSize + filled'
    <3> DEFINE z == (index - 1) * SegmentSize
    <3>1. z \in Nat
      BY <1>0, SegmentStart
    <3>2. total = z + filled
      BY <1>0 DEF Laid, Counted
    <3> HIDE DEF z
    <3>3. total + T = z + (filled + T)
      BY <1>2, <1>3, <3>1, <3>2
    <3> QED BY <1>1, <3>3 DEF z
  <2> QED BY <1>0, <1>1, <1>2, <2>1 DEF Laid, Counted, input
<1>12. Pending'
  <2>1. Len(stream) = total + Len(chunk)
        /\ \A j \in 1 .. Len(chunk) : chunk[j] = stream[total + j]
    BY <1>0 DEF Laid, Pending
  <2>2. Len(stream) = (total + T) + (Len(chunk) - T)
    BY <1>2, <1>3, <2>1
  <2>3. ASSUME NEW j \in 1 .. Len(chunk) - T PROVE chunk[T + j] = stream[(total + T) + j]
    <3>1. T + j \in 1 .. Len(chunk) /\ total + (T + j) = (total + T) + j
      BY <1>2, <1>3
    <3> QED BY <2>1, <3>1
  <2> QED BY <1>1, <1>6, <2>2, <2>3 DEF Pending
<1>13. Pieces'
  <2> SUFFICES ASSUME NEW i \in 1 .. index
      PROVE  /\ Len(files'[i].data) = IF i < index THEN SegmentSize ELSE filled + T
             /\ \A k \in 1 .. Len(files'[i].data) :
                   files'[i].data[k] = stream[(i - 1) * SegmentSize + k]
    BY <1>1, <1>9 DEF Pieces
  <2>1. CASE i # index
    <3>1. i \in DOMAIN files /\ i < index /\ files'[i] = files[i]
      BY <1>7, <1>9, <2>1
    <3>2. /\ Len(files[i].data) = SegmentSize
          /\ \A k \in 1 .. Len(files[i].data) :
                files[i].data[k] = stream[(i - 1) * SegmentSize + k]
      BY <1>0, <3>1 DEF Laid, Pieces
    <3> QED BY <3>1, <3>2
  <2>2. CASE i = index
    <3> DEFINE z == (index - 1) * SegmentSize
    <3>1. z \in Nat /\ total = z + filled
      BY <1>0, SegmentStart DEF Laid, Counted
    <3>2. \A j \in 1 .. Len(chunk) : chunk[j] = stream[total + j]
      BY <1>0 DEF Laid, Pending
    <3>3. \A k \in 1 .. filled : files[index].data[k] = stream[z + k]
      BY <1>0, <1>7 DEF Laid, Pieces
    <3> HIDE DEF z
    <3>4. ASSUME NEW k \in 1 .. filled + T PROVE whole[k] = stream[z + k]
      <4>1. CASE k <= filled
        BY <1>2, <1>3, <1>8, <3>3, <4>1
      <4>2. CASE ~(k <= filled)
        <5>1. k - filled \in 1 .. T /\ k - filled \in 1 .. Len(chunk)
              /\ total + (k - filled) = z + k
          BY <1>2, <1>3, <3>1, <4>2
        <5> QED BY <1>5, <1>8, <3>2, <4>2, <5>1
      <4> QED BY <4>1, <4>2
    <3> QED BY <1>7, <1>8, <1>9, <2>2, <3>4 DEF z
  <2> QED BY <2>1, <2>2
<1>14. Needed'
  BY <1>1, <1>2, <1>3 DEF Needed
<1>15. Names'
  BY <1>0, <1>1, <1>7, <1>9 DEF Laid, Names, After
<1>16. Started'
  <2>1. T = Len(chunk) => chunk' = <<>>
    BY <1>2, <1>6, EmptySeq
  <2>2. T # Len(chunk) => chunk' # <<>>
    BY <1>2, <1>6, EmptySeq
  <2> QED BY <1>1, <1>9, <2>1, <2>2 DEF Started, Before, Writing, After
<1>17. Checked'
  BY <1>0, <1>1 DEF Laid, Checked, input
<1> QED BY <1>0, <1>1, <1>10, <1>11, <1>12, <1>13, <1>14, <1>15, <1>16, <1>17, Go DEF Laid

(* Publishing the current file changes nothing else.                       *)
LEMMA PublishOnly ==
  ASSUME TypeOK, Laid, pc \in Writing, Publish
  PROVE  /\ files' \in Seq(DerivedFile) /\ Len(files') = index
         /\ DOMAIN files' = 1 .. index /\ DOMAIN files = 1 .. index
         /\ \A i \in 1 .. index : /\ files'[i].data = files[i].data
                                  /\ i # index => files'[i].published = files[i].published
<1>1. /\ Len(files) = index /\ index \in Nat /\ index \in 1 .. Len(files)
      /\ DOMAIN files = 1 .. index /\ files[index] \in DerivedFile
  <2>1. Len(files) = index /\ index \in DOMAIN files /\ DOMAIN files = 1 .. index
    BY Shape DEF Laid, Started
  <2> QED BY <2>1, Shape
<1>2. files \in Seq(DerivedFile)
  BY DEF TypeOK, DerivedFile
<1> DEFINE new == [files[index] EXCEPT !.published = TRUE]
<1>3. files' = [files EXCEPT ![index] = new]
  BY DEF Publish
<1>4. new \in DerivedFile /\ new.data = files[index].data
  BY <1>1 DEF DerivedFile
<1> HIDE DEF new
<1>5. /\ files' \in Seq(DerivedFile) /\ Len(files') = Len(files)
      /\ \A i \in 1 .. Len(files) : files'[i] = IF i = index THEN new ELSE files[i]
  BY <1>1, <1>2, <1>3, <1>4, ExceptSeq
<1>6. DOMAIN files' = 1 .. index
  BY <1>1, <1>5, LenProperties
<1> QED BY <1>1, <1>4, <1>5, <1>6

LEMMA NextStep == ASSUME Inv, NextSegment PROVE Inv'
<1>0. /\ TypeOK /\ Laid /\ manifest = None /\ result = "none" /\ pc = "write"
      /\ chunk # <<>> /\ kind = "convert" /\ filled = SegmentSize /\ index < MaxSegments
  BY DEF Inv, NextSegment, Full
<1>1. /\ Publish /\ index' = index + 1 /\ filled' = 0 /\ pc' = "open"
      /\ UNCHANGED <<input, source, hashed, size, stream, chunk, total, cancel, manifest,
                     changes, result>>
  BY DEF NextSegment, Goto
<1>2. /\ files' \in Seq(DerivedFile) /\ Len(files') = index
      /\ DOMAIN files' = 1 .. index /\ DOMAIN files = 1 .. index
      /\ \A i \in 1 .. index : files'[i].data = files[i].data
  BY <1>0, <1>1, PublishOnly DEF Writing
<1>3. index \in Nat /\ index \in 1 .. MaxSegments /\ MaxSegments \in Nat /\ SegmentSize \in Nat
  BY <1>0, SizeAssumption DEF TypeOK
<1>4. TypeOK'
  <2>1. filled' \in Nat /\ pc' \in Phases /\ index' \in 1 .. MaxSegments
    BY <1>0, <1>1, <1>3 DEF Phases
  <2> QED BY <1>0, <1>1, <1>2, <2>1 DEF TypeOK, DerivedFile, input
<1>5. Counted'
  <2>1. total = (index - 1) * SegmentSize + SegmentSize
    BY <1>0 DEF Laid, Counted
  <2>2. PICK a \in Nat : a = index - 1
    BY <1>3
  <2>3. a * SegmentSize + SegmentSize = (a + 1) * SegmentSize + 0
    BY ONLY <1>3, <2>2, SMT
  <2>4. total' = (index' - 1) * SegmentSize + filled'
    <3>1. a + 1 = index' - 1 /\ filled' = 0 /\ total' = total
      BY <1>1, <1>3, <2>2
    <3>2. total = a * SegmentSize + SegmentSize
      BY <2>1, <2>2
    <3> QED BY ONLY <2>3, <3>1, <3>2
  <2>5. kind' = "convert" /\ filled' <= SegmentSize /\ kind' # "copy"
    BY <1>0, <1>1, <1>3 DEF input
  <2> QED BY ONLY <2>4, <2>5 DEF Counted
<1>6. Pieces'
  <2> SUFFICES ASSUME NEW i \in 1 .. index
      PROVE  /\ Len(files'[i].data) = IF i < index' THEN SegmentSize ELSE filled'
             /\ \A k \in 1 .. Len(files'[i].data) :
                   files'[i].data[k] = stream'[(i - 1) * SegmentSize + k]
    BY <1>2 DEF Pieces
  <2>1. i < index' /\ i \in DOMAIN files /\ files'[i].data = files[i].data
    BY <1>1, <1>2, <1>3
  <2>2. /\ Len(files[i].data) = SegmentSize
        /\ \A k \in 1 .. Len(files[i].data) :
              files[i].data[k] = stream[(i - 1) * SegmentSize + k]
    BY <1>0, <2>1 DEF Laid, Pieces
  <2>3. stream' = stream
    BY <1>1
  <2> QED BY ONLY <2>1, <2>2, <2>3
<1>7. Started'
  BY <1>1, <1>2 DEF Started, Before, Writing, After
<1>8. Names'
  <2> SUFFICES ASSUME NEW i \in 1 .. index PROVE i < index + 1
    BY <1>1, <1>2 DEF Names
  <2> QED BY <1>3
<1>9. Pending' /\ Needed' /\ Checked'
  BY <1>0, <1>1 DEF Laid, Pending, Needed, Checked, SameAsVerified, input
<1> QED BY <1>0, <1>1, <1>4, <1>5, <1>6, <1>7, <1>8, <1>9, Go DEF Laid

LEMMA CloseStep == ASSUME Inv, Close PROVE Inv'
<1>0. TypeOK /\ Laid /\ manifest = None /\ result = "none" /\ pc = "close"
  BY DEF Inv, Close
<1>1. /\ Publish /\ pc' = "compare"
      /\ UNCHANGED <<input, source, hashed, size, stream, chunk, index, filled, total, cancel,
                     manifest, changes, result>>
  BY DEF Close, Goto
<1>2. /\ files' \in Seq(DerivedFile) /\ Len(files') = index
      /\ DOMAIN files' = 1 .. index /\ DOMAIN files = 1 .. index
      /\ \A i \in 1 .. index : files'[i].data = files[i].data
  BY <1>0, <1>1, PublishOnly DEF Writing
<1>3. TypeOK'
  BY <1>0, <1>1, <1>2 DEF TypeOK, DerivedFile, Phases, input
<1>4. Pieces'
  BY <1>0, <1>1, <1>2 DEF Laid, Pieces
<1>5. Started' /\ Names'
  BY <1>0, <1>1, <1>2 DEF Laid, Started, Names, Before, Writing, After
<1>6. Counted' /\ Pending' /\ Needed' /\ Checked'
  BY <1>0, <1>1 DEF Laid, Counted, Pending, Needed, Checked, SameAsVerified, input
<1> QED BY <1>0, <1>1, <1>3, <1>4, <1>5, <1>6, Go DEF Laid

(* The last number is used up: its segment is published and nothing else.  *)
LEMMA TooManyStep == ASSUME Inv, TooManySegments PROVE Inv'
<1>0. TypeOK /\ Laid /\ manifest = None /\ pc = "write"
  BY DEF Inv, TooManySegments
<1>1. /\ Publish /\ pc' = "done" /\ result' = "usage"
      /\ UNCHANGED <<input, source, hashed, size, stream, chunk, index, filled, total, cancel,
                     manifest, changes>>
  BY DEF TooManySegments, Fail
<1>2. files' \in Seq(DerivedFile)
  BY <1>0, <1>1, PublishOnly DEF Writing
<1>3. TypeOK'
  BY <1>0, <1>1, <1>2 DEF TypeOK, DerivedFile, Phases, Results, input
<1>4. Faithful' /\ AsPlanned' /\ ShortIsPartial'
  BY <1>0, <1>1 DEF Faithful, AsPlanned, ShortIsPartial
<1> QED BY <1>1, <1>3, <1>4 DEF Inv

(* A command that could not open, read or record.                          *)
LEMMA StopSteps ==
  ASSUME Inv, \/ Occupied \/ Cancelled \/ NoCase \/ IdentifierRefused \/ IoFails
              \/ (HashEnd \/ Inspect \/ Compare) /\ pc' = "done"
  PROVE  Inv'
<1>1. CASE /\ HashEnd \/ Occupied \/ Cancelled \/ NoCase \/ IdentifierRefused \/ IoFails \/ Compare
           /\ pc' = "done"
  <2>1. /\ pc # "done" /\ result' \in Results /\ UNCHANGED <<Kept, manifest>>
        /\ result' = "cancelled" => pc \in {"verify", "read"}
    BY <1>1 DEF Inv, HashEnd, Occupied, Cancelled, NoCase, IdentifierRefused, IoFails, Compare,
                Goto, Fail, Results,
                Kept
  <2> QED BY <1>1, <2>1, Stop
<1>2. CASE Inspect /\ pc' = "done"
  <2>0. /\ Inv /\ pc = "inspect" /\ pc' = "done" /\ result' = "usage" /\ size' = Len(source)
        /\ UNCHANGED <<input, source, hashed, stream, chunk, position, cancel, manifest, changes>>
    BY <1>2 DEF Inspect, Goto, Fail
  <2>1. TypeOK'
    <3>1. size' \in Nat
      BY <2>0, LenProperties DEF Inv, TypeOK
    <3> QED BY <2>0, <3>1 DEF Inv, TypeOK, Phases, Results, input, position
  <2>2. Faithful' /\ AsPlanned' /\ ShortIsPartial'
    BY <2>0 DEF Inv, Faithful, AsPlanned, ShortIsPartial
  <2> QED BY <2>0, <2>1, <2>2 DEF Inv
<1>3. CASE Occupied \/ Cancelled \/ NoCase \/ IdentifierRefused \/ IoFails
  BY <1>1, <1>3 DEF Occupied, Cancelled, NoCase, IdentifierRefused, IoFails, Fail
<1> QED BY <1>1, <1>2, <1>3

(* planned_segment_count and the loop agree: a set whose last segment holds*)
(* between one unit and a whole segment is the one that was planned.       *)
LEMMA PlannedIsReached ==
  ASSUME NEW n \in Nat \ {0}, NEW f \in 1 .. SegmentSize
  PROVE  Planned((n - 1) * SegmentSize + f) = n /\ (n - 1) * SegmentSize + f # 0
<1>1. PICK m \in Nat : m = n - 1
  OBVIOUS
<1>2. SegmentSize \in Nat \ {0} /\ f - 1 \in Nat /\ f - 1 < SegmentSize
  BY SizeAssumption
<1>3. m * SegmentSize \in Nat
  BY ONLY <1>2, SMT
<1>4. m * SegmentSize + f + SegmentSize - 1 = (m + 1) * SegmentSize + (f - 1)
  BY ONLY <1>2, SMT
<1>5. ((m + 1) * SegmentSize + (f - 1)) \div SegmentSize = m + 1
  BY <1>2, DivExact
<1> DEFINE z == m * SegmentSize
<1>6. z + f # 0
  BY <1>3
<1>7. Planned(z + f) = m + 1
  BY <1>4, <1>5, <1>6 DEF Planned
<1>8. (n - 1) * SegmentSize = z /\ m + 1 = n
  BY <1>1
<1> HIDE DEF z
<1> QED BY <1>6, <1>7, <1>8

LEMMA WriteManifestStep == ASSUME Inv, WriteManifest PROVE Inv'
<1> DEFINE set == [i \in DOMAIN files |-> files[i].data]
<1>0. TypeOK /\ Laid /\ manifest = None /\ pc = "manifest"
  BY DEF Inv, WriteManifest
<1>1. /\ manifest' = [case |-> DerivedCase, artifacts |-> set]
      /\ pc' = "done" /\ result' \in {"ok", "io"}
      /\ UNCHANGED <<input, source, hashed, size, stream, chunk, position, cancel, changes>>
  BY DEF WriteManifest, Fail
<1>2. /\ DOMAIN files = 1 .. index /\ index \in Nat /\ index >= 1
      /\ chunk = <<>> /\ stream = hashed /\ (kind = "convert" => total = size)
      /\ record \in {None, hashed}
  BY <1>0, Shape DEF Laid, Started, Checked, SameAsVerified, After
<1>3. \A i \in 1 .. index : set[i] = files[i].data /\ files[i].data \in Seq(Units)
  BY <1>0, <1>2, Shape DEF DerivedFile
<1>4. set \in Seq(Seq(Units)) /\ Len(set) = index /\ DOMAIN set = 1 .. index
  <2>1. set \in [1 .. index -> Seq(Units)]
    BY <1>2, <1>3
  <2>2. set \in Seq(Seq(Units))
    BY <1>2, <2>1, SeqDef
  <2>3. Len(set) \in Nat /\ 1 .. Len(set) = 1 .. index
    BY <2>1, <2>2, LenProperties
  <2>4. Len(set) = index
    <3> HIDE DEF set
    <3> QED BY <1>2, <2>3
  <2> QED BY <2>1, <2>2, <2>4
<1> HIDE DEF set
<1>5. DerivedCase \in Cases
  BY <1>0 DEF DerivedCase, Laid, Checked, TypeOK
<1>6. TypeOK'
  <2>1. manifest' \in Manifest /\ pc' \in Phases /\ result' \in Results
    BY <1>1, <1>4, <1>5 DEF Manifest, Phases, Results
  <2> QED BY <1>0, <1>1, <2>1 DEF TypeOK, input, position
<1>7. total = (index - 1) * SegmentSize + filled /\ total = Len(stream) /\ filled \in Nat
      /\ total \in Nat
  <2>1. Len(chunk) = 0
    BY <1>2, EmptySeq
  <2> QED BY <1>0, <1>2, <2>1, Shape DEF Laid, Counted, Pending, TypeOK
<1>8. \A i \in 1 .. index :
         /\ Len(set[i]) = IF i < index THEN SegmentSize ELSE filled
         /\ \A k \in 1 .. Len(set[i]) : set[i][k] = hashed[(i - 1) * SegmentSize + k]
  BY <1>0, <1>2, <1>3 DEF Laid, Pieces
<1>9. Len(set[index]) = filled
  BY <1>2, <1>8
<1>10. Faithful'
  <2>1. manifest'.artifacts = set
    BY <1>1
  <2>2. (index - 1) * SegmentSize + Len(set[index]) = Len(hashed)
    BY <1>2, <1>7, <1>9
  <2>3. hashed' = hashed /\ record' = record
    BY <1>1 DEF input
  <2> QED BY <1>2, <1>4, <1>8, <2>1, <2>2, <2>3 DEF Faithful
<1>11. AsPlanned'
  <2> SUFFICES ASSUME kind = "convert"
               PROVE  /\ index = Planned(size)
                      /\ \A i \in 1 .. index - 1 : Len(set[i]) = SegmentSize
                      /\ set[index] = <<>> => size = 0
    BY <1>1, <1>4 DEF AsPlanned, input
  <2>1. \A i \in 1 .. index - 1 : Len(set[i]) = SegmentSize
    BY <1>2, <1>8
  <2>2. filled <= SegmentSize /\ (index > 1 => filled > 0)
    BY <1>0, <1>2 DEF Laid, Counted, Needed
  <2>3. CASE filled > 0
    <3>1. filled \in 1 .. SegmentSize /\ index \in Nat \ {0}
      BY <1>2, <1>7, <2>2, <2>3, SizeAssumption
    <3>2. index = Planned(total)
      BY <1>7, <3>1, PlannedIsReached
    <3>3. set[index] # <<>>
      BY <1>9, <2>3, EmptySeq
    <3> QED BY <1>2, <2>1, <3>2, <3>3
  <2>4. CASE ~(filled > 0)
    <3>1. index = 1 /\ filled = 0
      BY <1>2, <1>7, <2>2, <2>4
    <3>2. (1 - 1) * SegmentSize = 0
      BY SizeAssumption, SMT
    <3>3. total = 0 /\ size = 0
      BY <1>2, <1>7, <3>1, <3>2
    <3> QED BY <2>1, <3>1, <3>3 DEF Planned
  <2> QED BY <2>3, <2>4
<1>12. ShortIsPartial'
  BY <1>1 DEF ShortIsPartial
<1> QED BY <1>1, <1>6, <1>10, <1>11, <1>12 DEF Inv

-----------------------------------------------------------------------------
LEMMA StepInv == Inv /\ [Next]_vars => Inv'
<1> SUFFICES ASSUME Inv, [Next]_vars PROVE Inv'
  OBVIOUS
<1>1. CASE HashBlock \/ SetToken \/ Touch
  BY <1>1, MoveOn DEF HashBlock, SetToken, Touch
<1>2. CASE HashEnd \/ Inspect \/ EndOfSource \/ Compare \/ CaseFound
  <2>1. pc # "done"
    BY <1>2 DEF HashEnd, Inspect, EndOfSource, Compare, CaseFound
  <2>2. CASE pc' # "done"
    BY <1>2, <2>1, <2>2, MoveOn
  <2>3. CASE pc' = "done"
    BY <1>2, <2>3, StopSteps DEF EndOfSource, CaseFound, Goto
  <2> QED BY <2>2, <2>3
<1>3. CASE Occupied \/ Cancelled \/ NoCase \/ IdentifierRefused \/ IoFails
  BY <1>3, StopSteps
<1>4. CASE Open \/ ReadBlock \/ Write \/ NextSegment
  BY <1>4, OpenStep, ReadStep, WriteStep, NextStep
<1>5. CASE Close \/ TooManySegments \/ WriteManifest
  BY <1>5, CloseStep, TooManyStep, WriteManifestStep
<1>6. CASE UNCHANGED vars
  BY <1>6 DEF vars, input, position, Inv, TypeOK, Faithful, AsPlanned, ShortIsPartial, Laid,
              Counted, Started, Pending, Pieces, Needed, Names, Checked, SameAsVerified
<1> QED BY <1>1, <1>2, <1>3, <1>4, <1>5, <1>6 DEF Next, Step, Verify, Segment, Conclude

LEMMA Inductive == Spec => []Inv
<1> QED BY InitInv, StepInv, PTL DEF Spec

(* A segment number is at most MAX_SEGMENTS, whatever is done to the source*)
(* after its size was taken.                                               *)
THEOREM DerivedTypes == Spec => []TypeOK
<1>1. Inv => TypeOK
  BY DEF Inv
<1> QED BY <1>1, Inductive, PTL

(* A manifest of convert or copy lists files that are, end to end, what    *)
(* was hashed and what the earlier manifest records, for every segment     *)
(* size, block size and source, and whenever the source is changed.        *)
THEOREM FaithfulConversion == Spec => []Faithful
<1>1. Inv => Faithful
  BY DEF Inv
<1> QED BY <1>1, Inductive, PTL

(* The number of segments is the one planned_segment_count gave, and all   *)
(* are full but the last.                                                  *)
THEOREM SegmentsAsPlanned == Spec => []AsPlanned
<1>1. Inv => AsPlanned
  BY DEF Inv
<1> QED BY <1>1, Inductive, PTL

(* While the source is read, and in what an interrupted command leaves, no *)
(* file but a full segment has its final name.                             *)
THEOREM NothingShortPublished == Spec => []ShortIsPartial
<1>1. Inv => ShortIsPartial
  BY DEF Inv
<1> QED BY <1>1, Inductive, PTL
====
