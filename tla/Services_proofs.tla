--------------------------- MODULE Services_proofs ---------------------------
(***************************************************************************)
(* The services, for any number of findings, files, batches, rows, words   *)
(* and requests: the files and the history of imports (FilesFollowRows,    *)
(* NumbersStayRetired), logins and reminders (LimitsHold), conversations,  *)
(* forms, the CSV dialog and the copy of a form (FormsKeepTheirWord).      *)
(***************************************************************************)
EXTENDS Services, SequenceTheorems, FiniteSetTheorems, WellFoundedInduction, TLAPS

\* Induction, from the well-foundedness of < on the naturals
LEMMA NatSetInduction ==
    ASSUME NEW S, 0 \in S, \A n \in Nat : n \in S => n + 1 \in S
    PROVE  Nat \subseteq S
<1> DEFINE T == Nat \ S
           R == OpToRel(<, Nat)
<1>1. R = {ss \in Nat \X Nat : ss[1] < ss[2]}
    BY DEF OpToRel
<1>2. IsWellFoundedOn(R, Nat)
    BY NatLessThanWellFounded
<1>3. SUFFICES ASSUME T # {} PROVE FALSE
    OBVIOUS
<1>4. T \subseteq Nat
    OBVIOUS
<1>5. PICK n \in T : \A m \in T : <<m, n>> \notin R
  <2> HIDE DEF T, R
  <2> QED
    BY <1>2, <1>3, <1>4, WFMin
<1>6. n \in Nat /\ n # 0 /\ n - 1 \in Nat
    OBVIOUS
<1>7. <<n - 1, n>> \in R
    <2>1. <<n - 1, n>> \in Nat \X Nat /\ <<n - 1, n>>[1] < <<n - 1, n>>[2]
        BY <1>6
    <2> HIDE DEF R
    <2> QED
        BY <1>1, <2>1
<1>8. n - 1 \in S
    BY <1>5, <1>6, <1>7
<1>9. n \in S
    BY <1>6, <1>8
<1> QED
    BY <1>9

-----------------------------------------------------------------------------
(* The invariant of the evidence files                                     *)

\* What the rows, the folder and the requests under way know of each other
\* while no cleanup meets an upload
FilesConsistent ==
    /\ \A x \in evidence : x.file \in disk
    /\ \A x, y \in evidence : x.file = y.file => x = y
    /\ \A r \in Requests :
          /\ request[r].is = "uploading" =>
                /\ request[r].file \in disk
                /\ \A y \in evidence : y.file # request[r].file
                /\ \A q \in Requests \ {r} : request[r].file \notin Evidence!HeldBy(q)
          /\ request[r].is = "removing" => \A y \in evidence : y.file = request[r].row.file => y = request[r].row
          /\ request[r].is = "deleting" => \A y \in evidence : y.file \in request[r].files => y.finding = request[r].finding
          /\ request[r].is = "unlinking" => \A y \in evidence : y.file \notin request[r].files
          /\ request[r].is = "cleaning" =>
                /\ \A y \in evidence : y.file \in request[r].referenced
                /\ \A q \in Requests \ {r} : request[q] = Evidence!Idle

\* A request that is under way meets no cleanup
LEMMA NothingWhileCleaning ==
    ASSUME FilesConsistent, NEW r \in Requests, request[r].is \notin {"idle", "cleaning"}
    PROVE  \A q \in Requests : request[q].is # "cleaning"
<1>1. SUFFICES ASSUME NEW q \in Requests, request[q].is = "cleaning" PROVE FALSE
    OBVIOUS
<1>2. q # r
    BY <1>1
<1>3. request[r] = Evidence!Idle
    BY <1>1, <1>2 DEF FilesConsistent
<1> QED
    BY <1>3 DEF Evidence!Idle

AreRequests == request = [r \in Requests |-> request[r]]

EvidenceInv == AreRequests /\ (calm => FilesConsistent)

LEMMA UploadKeepsFiles ==
    ASSUME EvidenceInv, NEW r \in Requests, NEW u, NEW f, NEW n, Evidence!StoreFile(r, u, f, n)
    PROVE  EvidenceInv'
<1>1. AreRequests'
    BY DEF EvidenceInv, AreRequests, Evidence!StoreFile, Evidence!Becomes
<1>2. SUFFICES ASSUME calm PROVE FilesConsistent'
    BY <1>1 DEF EvidenceInv, Evidence!StoreFile
<1>3. /\ FilesConsistent /\ AreRequests
      /\ \A q \in Requests : request[q].is # "cleaning"
    BY <1>2 DEF EvidenceInv, Evidence!StoreFile, Evidence!May, Evidence!Cleaning
<1>4. /\ evidence' = evidence /\ disk' = disk \cup {n}
      /\ request'[r] = [is |-> "uploading", file |-> n, finding |-> f, by |-> u]
      /\ \A q \in Requests \ {r} : request'[q] = request[q]
    BY <1>3 DEF Evidence!StoreFile, Evidence!Becomes, AreRequests
<1>5. /\ n \notin disk /\ \A y \in evidence : y.file # n
      /\ \A q \in Requests : n \notin Evidence!HeldBy(q)
    BY DEF Evidence!StoreFile, Evidence!Fresh, Evidence!Named
<1>6. \A q \in Requests \ {r} : Evidence!HeldBy(q)' = Evidence!HeldBy(q)
    BY <1>4 DEF Evidence!HeldBy
<1>7. Evidence!HeldBy(r)' = {n}
    BY <1>4 DEF Evidence!HeldBy
<1>8. \A q \in Requests : request[q].is = "uploading" => request[q].file # n
    BY <1>5 DEF Evidence!HeldBy
<1> QED
    BY <1>3, <1>4, <1>5, <1>6, <1>7, <1>8 DEF FilesConsistent

LEMMA SaveKeepsFiles ==
    ASSUME EvidenceInv, NEW r \in Requests, Evidence!SaveEvidence(r)
    PROVE  EvidenceInv'
<1>1. AreRequests'
    BY DEF EvidenceInv, AreRequests, Evidence!SaveEvidence, Evidence!Becomes
<1>2. SUFFICES ASSUME calm PROVE FilesConsistent'
    BY <1>1 DEF EvidenceInv, Evidence!SaveEvidence
<1> DEFINE saved == [file |-> request[r].file, finding |-> request[r].finding, by |-> request[r].by]
<1>3. FilesConsistent /\ AreRequests
    BY <1>2 DEF EvidenceInv
<1>4. /\ evidence' = evidence \cup {saved} /\ disk' = disk
      /\ request'[r] = Evidence!Idle
      /\ \A q \in Requests \ {r} : request'[q] = request[q]
    BY <1>3 DEF Evidence!SaveEvidence, Evidence!Becomes, AreRequests
<1>5. request'[r].is = "idle" /\ request[r].is = "uploading" /\ Evidence!HeldBy(r)' = {}
    BY <1>4 DEF Evidence!Idle, Evidence!SaveEvidence, Evidence!HeldBy
<1>6. \A q \in Requests \ {r} : Evidence!HeldBy(q)' = Evidence!HeldBy(q)
    BY <1>4 DEF Evidence!HeldBy
<1>7. /\ saved.file \in disk /\ \A y \in evidence : y.file # saved.file
      /\ \A q \in Requests \ {r} : saved.file \notin Evidence!HeldBy(q)
    BY <1>3, <1>5 DEF FilesConsistent
<1>8. \A q \in Requests \ {r} :
        /\ request[q].is = "uploading" => request[q].file # saved.file
        /\ request[q].is = "removing" => request[q].row.file # saved.file
        /\ request[q].is \in {"deleting", "unlinking"} => saved.file \notin request[q].files
    BY <1>7 DEF Evidence!HeldBy
<1>9. \A q \in Requests : request[q].is # "cleaning"
    BY <1>3, <1>5, NothingWhileCleaning
<1> HIDE DEF saved
<1> QED
    BY <1>3, <1>4, <1>5, <1>6, <1>7, <1>8, <1>9 DEF FilesConsistent

LEMMA DropKeepsFiles ==
    ASSUME EvidenceInv, NEW r \in Requests, Evidence!DropUpload(r)
    PROVE  EvidenceInv'
<1>1. AreRequests'
    BY DEF EvidenceInv, AreRequests, Evidence!DropUpload, Evidence!Becomes
<1>2. SUFFICES ASSUME calm PROVE FilesConsistent'
    BY <1>1 DEF EvidenceInv, Evidence!DropUpload
<1>3. FilesConsistent /\ AreRequests /\ request[r].is = "uploading"
    BY <1>2 DEF EvidenceInv, Evidence!DropUpload
<1>4. /\ evidence' = evidence /\ disk' = disk \ {request[r].file}
      /\ request'[r].is = "idle"
      /\ \A q \in Requests \ {r} : request'[q] = request[q]
    BY <1>3 DEF Evidence!DropUpload, Evidence!Becomes, AreRequests, Evidence!Idle
<1>5. Evidence!HeldBy(r)' = {} /\ \A q \in Requests \ {r} : Evidence!HeldBy(q)' = Evidence!HeldBy(q)
    BY <1>4 DEF Evidence!HeldBy
<1>6. \A q \in Requests \ {r} : request[q].is = "uploading" => request[q].file # request[r].file
    BY <1>3 DEF Evidence!HeldBy, FilesConsistent
<1>7. \A q \in Requests : request[q].is # "cleaning"
    BY <1>3, NothingWhileCleaning
<1> QED
    BY <1>3, <1>4, <1>5, <1>6, <1>7 DEF FilesConsistent

LEMMA AskRemovalKeepsFiles ==
    ASSUME EvidenceInv, NEW r \in Requests, NEW u, NEW row0 \in evidence, Evidence!AskRemoval(r, u, row0)
    PROVE  EvidenceInv'
<1>1. AreRequests'
    BY DEF EvidenceInv, AreRequests, Evidence!AskRemoval, Evidence!Becomes
<1>2. SUFFICES ASSUME calm PROVE FilesConsistent'
    BY <1>1 DEF EvidenceInv, Evidence!AskRemoval
<1>3. /\ FilesConsistent /\ AreRequests
      /\ \A q \in Requests : request[q].is # "cleaning"
    BY <1>2 DEF EvidenceInv, Evidence!AskRemoval, Evidence!May, Evidence!Cleaning
<1>4. /\ UNCHANGED <<evidence, disk>>
      /\ request'[r] = [is |-> "removing", row |-> row0]
      /\ \A q \in Requests \ {r} : request'[q] = request[q]
    BY <1>3 DEF Evidence!AskRemoval, Evidence!Becomes, AreRequests
<1>5. /\ Evidence!HeldBy(r)' = {row0.file}
      /\ \A q \in Requests \ {r} : Evidence!HeldBy(q)' = Evidence!HeldBy(q)
    BY <1>4, SMTT(30) DEF Evidence!HeldBy
<1> QED
    BY <1>3, <1>4, <1>5 DEF FilesConsistent

LEMMA RemoveKeepsFiles ==
    ASSUME EvidenceInv, NEW r \in Requests, Evidence!Remove(r)
    PROVE  EvidenceInv'
<1>1. AreRequests'
    BY DEF EvidenceInv, AreRequests, Evidence!Remove, Evidence!Becomes
<1>2. SUFFICES ASSUME calm PROVE FilesConsistent'
    BY <1>1 DEF EvidenceInv, Evidence!Remove
<1>3. FilesConsistent /\ AreRequests /\ request[r].is = "removing"
    BY <1>2 DEF EvidenceInv, Evidence!Remove
<1>4. /\ evidence' = evidence \ {request[r].row} /\ disk' = disk
      /\ request'[r] = [is |-> "unlinking", files |-> {request[r].row.file}]
      /\ \A q \in Requests \ {r} : request'[q] = request[q]
    BY <1>3 DEF Evidence!Remove, Evidence!Becomes, AreRequests
<1>5. \A q \in Requests : Evidence!HeldBy(q)' = Evidence!HeldBy(q)
    BY <1>3, <1>4 DEF Evidence!HeldBy
<1>6. \A q \in Requests : request[q].is # "cleaning"
    BY <1>3, NothingWhileCleaning
<1> QED
    BY <1>3, <1>4, <1>5, <1>6 DEF FilesConsistent

LEMMA AskDeletionKeepsFiles ==
    ASSUME EvidenceInv, NEW r \in Requests, NEW f, Evidence!AskDeletion(r, f)
    PROVE  EvidenceInv'
<1>1. AreRequests'
    BY DEF EvidenceInv, AreRequests, Evidence!AskDeletion, Evidence!Becomes
<1>2. SUFFICES ASSUME calm PROVE FilesConsistent'
    BY <1>1 DEF EvidenceInv, Evidence!AskDeletion
<1>3. /\ FilesConsistent /\ AreRequests
      /\ \A q \in Requests : request[q].is # "cleaning"
    BY <1>2 DEF EvidenceInv, Evidence!AskDeletion, Evidence!May, Evidence!Cleaning
<1> DEFINE files == Evidence!FilesOf(Evidence!RowsOf(f))
<1>4. /\ UNCHANGED <<evidence, disk>>
      /\ request'[r] = [is |-> "deleting", finding |-> f, files |-> files]
      /\ \A q \in Requests \ {r} : request'[q] = request[q]
    BY <1>3 DEF Evidence!AskDeletion, Evidence!Becomes, AreRequests
<1>5. \A n \in files : \E x \in evidence : x.file = n /\ x.finding = f
    BY DEF Evidence!FilesOf, Evidence!RowsOf
<1> HIDE DEF files
<1>6. /\ Evidence!HeldBy(r)' = files
      /\ \A q \in Requests \ {r} : Evidence!HeldBy(q)' = Evidence!HeldBy(q)
    BY <1>4 DEF Evidence!HeldBy
<1>7. \A y \in evidence : y.file \in files => y.finding = f
    BY <1>3, <1>5 DEF FilesConsistent
<1> QED
    BY <1>3, <1>4, <1>5, <1>6, <1>7 DEF FilesConsistent

LEMMA DeleteKeepsFiles ==
    ASSUME EvidenceInv, NEW r \in Requests, Evidence!Delete(r)
    PROVE  EvidenceInv'
<1>1. AreRequests'
    BY DEF EvidenceInv, AreRequests, Evidence!Delete, Evidence!Becomes
<1>2. SUFFICES ASSUME calm PROVE FilesConsistent'
    BY <1>1 DEF EvidenceInv, Evidence!Delete
<1>3. FilesConsistent /\ AreRequests /\ request[r].is = "deleting"
    BY <1>2 DEF EvidenceInv, Evidence!Delete
<1>4. /\ evidence' \subseteq evidence /\ disk' = disk
      /\ \A y \in evidence' : y.finding # request[r].finding
      /\ request'[r] = [is |-> "unlinking", files |-> request[r].files]
      /\ \A q \in Requests \ {r} : request'[q] = request[q]
    BY <1>3 DEF Evidence!Delete, Evidence!Becomes, AreRequests, Evidence!RowsOf
<1>5. \A q \in Requests : Evidence!HeldBy(q)' = Evidence!HeldBy(q)
    BY <1>3, <1>4 DEF Evidence!HeldBy
<1>6. \A q \in Requests : request[q].is # "cleaning"
    BY <1>3, NothingWhileCleaning
<1> QED
    BY <1>3, <1>4, <1>5, <1>6 DEF FilesConsistent

LEMMA ReverseKeepsFiles ==
    ASSUME EvidenceInv, NEW r \in Requests, Evidence!Reverse(r)
    PROVE  EvidenceInv'
<1>1. AreRequests'
    BY DEF EvidenceInv, AreRequests, Evidence!Reverse, Evidence!Becomes
<1>2. SUFFICES ASSUME calm PROVE FilesConsistent'
    BY <1>1 DEF EvidenceInv, Evidence!Reverse
<1>3. /\ FilesConsistent /\ AreRequests
      /\ \A q \in Requests : request[q].is # "cleaning"
    BY <1>2 DEF EvidenceInv, Evidence!Reverse, Evidence!May, Evidence!Cleaning
<1> DEFINE going == UNION {Evidence!RowsOf(f) : f \in Imported}
           files == Evidence!FilesOf(going)
<1>4. /\ evidence' = evidence \ going /\ disk' = disk
      /\ request'[r] = [is |-> "unlinking", files |-> files]
      /\ \A q \in Requests \ {r} : request'[q] = request[q]
    BY <1>3 DEF Evidence!Reverse, Evidence!Becomes, AreRequests
<1>5. \A n \in files : \E x \in going : x.file = n
    BY DEF Evidence!FilesOf
<1>6. going \subseteq evidence
    BY DEF Evidence!RowsOf
<1> HIDE DEF files, going
<1>7. /\ Evidence!HeldBy(r)' = files
      /\ \A q \in Requests \ {r} : Evidence!HeldBy(q)' = Evidence!HeldBy(q)
    <2>1. request'[r].is = "unlinking" /\ request'[r].files = files
        BY <1>4
    <2> QED
        BY <1>4, <2>1, Zenon DEF Evidence!HeldBy
<1>8. \A y \in evidence' : y.file \notin files
    BY <1>3, <1>4, <1>5, <1>6 DEF FilesConsistent
<1>9. \A q \in Requests \ {r} : request[q].is = "uploading" => request[q].file \notin files
    BY <1>3, <1>5, <1>6 DEF FilesConsistent
<1> QED
    BY <1>3, <1>4, <1>7, <1>8, <1>9 DEF FilesConsistent

LEMMA UnlinkKeepsFiles ==
    ASSUME EvidenceInv, NEW r \in Requests, Evidence!Unlink(r)
    PROVE  EvidenceInv'
<1>1. AreRequests'
    BY DEF EvidenceInv, AreRequests, Evidence!Unlink, Evidence!Becomes
<1>2. SUFFICES ASSUME calm PROVE FilesConsistent'
    BY <1>1 DEF EvidenceInv, Evidence!Unlink
<1>3. FilesConsistent /\ AreRequests /\ request[r].is = "unlinking"
    BY <1>2 DEF EvidenceInv, Evidence!Unlink
<1>4. /\ evidence' = evidence /\ disk' = disk \ request[r].files
      /\ request'[r].is = "idle"
      /\ \A q \in Requests \ {r} : request'[q] = request[q]
    BY <1>3 DEF Evidence!Unlink, Evidence!Becomes, AreRequests, Evidence!Idle
<1>5. Evidence!HeldBy(r)' = {} /\ \A q \in Requests \ {r} : Evidence!HeldBy(q)' = Evidence!HeldBy(q)
    BY <1>4 DEF Evidence!HeldBy
<1>6. Evidence!HeldBy(r) = request[r].files
    BY <1>3 DEF Evidence!HeldBy
<1>7. \A q \in Requests : request[q].is # "cleaning"
    BY <1>3, NothingWhileCleaning
<1> QED
    BY <1>3, <1>4, <1>5, <1>6, <1>7 DEF FilesConsistent

LEMMA ReadRowsKeepsFiles ==
    ASSUME EvidenceInv, NEW r \in Requests, Evidence!ReadRows(r)
    PROVE  EvidenceInv'
<1>1. AreRequests'
    BY DEF EvidenceInv, AreRequests, Evidence!ReadRows, Evidence!Becomes
<1>2. SUFFICES ASSUME calm PROVE FilesConsistent'
    BY <1>1 DEF EvidenceInv, Evidence!ReadRows
<1>3. FilesConsistent /\ AreRequests
    BY <1>2 DEF EvidenceInv
<1>4. /\ UNCHANGED <<evidence, disk>>
      /\ request'[r] = [is |-> "cleaning", referenced |-> Evidence!Named]
      /\ \A q \in Requests \ {r} : request'[q] = Evidence!Idle
    BY <1>2, <1>3 DEF Evidence!ReadRows, Evidence!Becomes, AreRequests
<1>5. \A q \in Requests \ {r} : request'[q].is = "idle"
    BY <1>4 DEF Evidence!Idle
<1>6. \A y \in evidence : y.file \in Evidence!Named
    BY DEF Evidence!Named
<1> QED
    BY <1>3, <1>4, <1>5, <1>6 DEF FilesConsistent

LEMMA RemoveOrphansKeepsFiles ==
    ASSUME EvidenceInv, NEW r \in Requests, Evidence!RemoveOrphans(r)
    PROVE  EvidenceInv'
<1>1. AreRequests'
    BY DEF EvidenceInv, AreRequests, Evidence!RemoveOrphans, Evidence!Becomes
<1>2. SUFFICES ASSUME calm PROVE FilesConsistent'
    BY <1>1 DEF EvidenceInv, Evidence!RemoveOrphans
<1>3. FilesConsistent /\ AreRequests /\ request[r].is = "cleaning"
    BY <1>2 DEF EvidenceInv, Evidence!RemoveOrphans
<1>4. /\ evidence' = evidence /\ disk' = disk \cap request[r].referenced
      /\ \A q \in Requests : request'[q] = Evidence!Idle
    BY <1>3 DEF Evidence!RemoveOrphans, Evidence!Becomes, AreRequests, FilesConsistent
<1>5. \A q \in Requests : request'[q].is = "idle"
    BY <1>4 DEF Evidence!Idle
<1> QED
    BY <1>3, <1>4, <1>5 DEF FilesConsistent

\* Requests that end without a trace
LEMMA EndingKeepsFiles ==
    ASSUME EvidenceInv, NEW R \in SUBSET Requests,
           request' = [r \in Requests |-> IF r \in R THEN Evidence!Idle ELSE request[r]],
           UNCHANGED <<calm, evidence, disk>>
    PROVE  EvidenceInv'
<1>1. AreRequests'
    BY DEF AreRequests
<1>2. SUFFICES ASSUME calm PROVE FilesConsistent'
    BY <1>1 DEF EvidenceInv
<1>3. FilesConsistent
    BY <1>2 DEF EvidenceInv
<1>4. \A q \in Requests : IF q \in R THEN request'[q].is = "idle" /\ request'[q] = Evidence!Idle ELSE request'[q] = request[q]
    BY DEF Evidence!Idle
<1>5. \A q \in Requests : Evidence!HeldBy(q)' \subseteq Evidence!HeldBy(q)
    BY <1>4 DEF Evidence!HeldBy
<1> QED
    BY <1>3, <1>4, <1>5 DEF FilesConsistent

LEMMA FilesStep ==
    ASSUME EvidenceInv, Evidence!FilesNext
    PROVE  EvidenceInv'
<1>1. ASSUME NEW r \in Requests, NEW u \in Users, NEW f \in Findings, NEW n \in Files, Evidence!StoreFile(r, u, f, n)
      PROVE  EvidenceInv'
    BY <1>1, UploadKeepsFiles
<1>2. ASSUME NEW r \in Requests, NEW u \in Users, NEW row0 \in evidence, Evidence!AskRemoval(r, u, row0)
      PROVE  EvidenceInv'
    BY <1>2, AskRemovalKeepsFiles
<1>3. ASSUME NEW r \in Requests, Evidence!SaveEvidence(r) \/ Evidence!DropUpload(r) \/ Evidence!Remove(r)
                                  \/ Evidence!Delete(r) \/ Evidence!Unlink(r)
      PROVE  EvidenceInv'
    BY <1>3, SaveKeepsFiles, DropKeepsFiles, RemoveKeepsFiles, DeleteKeepsFiles, UnlinkKeepsFiles
<1>4. ASSUME NEW r \in Requests, NEW f \in Findings, Evidence!AskDeletion(r, f)
      PROVE  EvidenceInv'
    BY <1>4, AskDeletionKeepsFiles
<1>5. ASSUME NEW r \in Requests, Evidence!Reverse(r) \/ Evidence!ReadRows(r) \/ Evidence!RemoveOrphans(r)
      PROVE  EvidenceInv'
    BY <1>5, ReverseKeepsFiles, ReadRowsKeepsFiles, RemoveOrphansKeepsFiles
<1>6. ASSUME NEW r \in Requests, Evidence!Refuse(r)
      PROVE  EvidenceInv'
  <2>1. request' = [q \in Requests |-> IF q \in {r} THEN Evidence!Idle ELSE request[q]]
        BY <1>6 DEF Evidence!Refuse, Evidence!Becomes, EvidenceInv, AreRequests
  <2> QED
        BY <1>6, <2>1, EndingKeepsFiles DEF Evidence!Refuse
<1>7. ASSUME NEW f \in Findings, Evidence!Advance(f)
      PROVE  EvidenceInv'
    BY <1>7 DEF Evidence!Advance, EvidenceInv, AreRequests, FilesConsistent, Evidence!HeldBy
<1>8. ASSUME Evidence!Crash
      PROVE  EvidenceInv'
  <2>1. request' = [q \in Requests |-> IF q \in Requests THEN Evidence!Idle ELSE request[q]]
        BY <1>8 DEF Evidence!Crash
  <2> QED
        BY <1>8, <2>1, EndingKeepsFiles DEF Evidence!Crash
<1> QED
    BY <1>1, <1>2, <1>3, <1>4, <1>5, <1>6, <1>7, <1>8 DEF Evidence!FilesNext

-----------------------------------------------------------------------------
(* The invariant of the imports                                            *)

\* A set of numbers and 0 have a greatest one
LEMMA GreatestNumber ==
    ASSUME NEW S \in SUBSET Imports!Numbers
    PROVE  LET m == Imports!Max({0} \cup S)
           IN  m \in Nat /\ \A n \in S : n <= m
<1> DEFINE Bounded(k) == \A T \in SUBSET (0..k) : 0 \in T => \E m \in T : \A n \in T : m >= n
           K == {k \in Nat : Bounded(k)}
<1>1. Bounded(0)
    OBVIOUS
<1>2. ASSUME NEW k \in Nat, Bounded(k) PROVE Bounded(k + 1)
  <2>1. TAKE T \in SUBSET (0..(k + 1))
  <2>2. HAVE 0 \in T
  <2>3. CASE k + 1 \in T
    <3>1. \A n \in T : k + 1 >= n
        OBVIOUS
    <3> QED
        BY <2>3, <3>1
  <2>4. CASE k + 1 \notin T
    <3>1. T \in SUBSET (0..k)
        BY <2>4
    <3> QED
        BY <1>2, <2>2, <3>1
  <2> QED
    BY <2>3, <2>4
<1>3. 0 \in K /\ \A k \in Nat : k \in K => k + 1 \in K
    BY <1>1, <1>2
<1> HIDE DEF K
<1>4. MaxNumber \in K
    BY <1>3, NatSetInduction, NamesAssumption
<1>5. {0} \cup S \in SUBSET (0..MaxNumber)
    BY NamesAssumption DEF Imports!Numbers
<1>6. \E m \in {0} \cup S : \A n \in {0} \cup S : m >= n
    BY <1>4, <1>5 DEF K
<1>7. Imports!Max({0} \cup S) \in {0} \cup S /\ \A n \in {0} \cup S : Imports!Max({0} \cup S) >= n
    BY <1>6 DEF Imports!Max
<1> QED
    BY <1>5, <1>7

BatchRecords == [is : {"batch"}, numbers : SUBSET Imports!Numbers, reversed : BOOLEAN]

\* Rows and requests name numbers and batches
HistoryTyped ==
    /\ AreRequests
    /\ holder \in [Imports!Numbers -> {Imports!Free, Imports!Draft} \cup Batches]
    /\ batch = [b \in Batches |-> batch[b]]
    /\ \A b \in Batches : Imports!Has(b) => batch[b] \in BatchRecords
    /\ listed \subseteq Imports!Numbers /\ withdrawn \subseteq Imports!Numbers
    /\ \A r \in Requests :
          /\ request[r].is \in {"importing", "forgetting", "unlinking"} => request[r].batch \in Batches
          /\ request[r].is = "forgetting" => request[r].numbers \subseteq Imports!Numbers

\* A batch knows its findings; a request under way has the batch it works on
\* to itself, as far as it matters.
BatchesKnown ==
    /\ \A b \in Batches :
          /\ Imports!FindingsOf(b) # {} => Imports!Has(b) /\ ~batch[b].reversed
          /\ Imports!Has(b) => Imports!FindingsOf(b) \subseteq batch[b].numbers
    /\ \A r \in Requests :
          /\ request[r].is = "importing" =>
                /\ ~Imports!Has(request[r].batch)
                /\ \A q \in Requests \ {r} :
                      request[q].is \in {"importing", "forgetting", "unlinking"} => request[q].batch # request[r].batch
          /\ request[r].is = "forgetting" =>
                /\ Imports!FindingsOf(request[r].batch) = {}
                /\ Imports!Has(request[r].batch) => batch[request[r].batch].numbers = request[r].numbers
          /\ request[r].is = "unlinking" => ~Imports!Has(request[r].batch)

\* While no cleanup meets an import: a batch has its file, the one that is
\* being imported too, and a cleanup under way knows every batch.
OriginalsKept ==
    /\ \A b \in Batches : Imports!Has(b) => b \in disk
    /\ \A r \in Requests :
          /\ request[r].is = "importing" =>
                request[r].batch \in disk /\ \A q \in Requests : request[q].is # "cleaning"
          /\ request[r].is = "cleaning" => \A b \in Batches : Imports!Has(b) => b \in request[r].referenced

\* While registrations are one step, what was withdrawn is reserved
NumbersRetired ==
    /\ \A r \in Requests : request[r].is # "registering"
    /\ withdrawn \subseteq Imports!Reserved
    /\ \A n \in withdrawn : holder[n] = Imports!Free

HistoryInv == HistoryTyped /\ BatchesKnown /\ (calm => NumbersRetired)

\* Reserved, without the set of sets
LEMMA NumbersOfBatches ==
    ASSUME NEW table, NEW B, NEW n
    PROVE  n \in UNION {table[b].numbers : b \in B} <=> \E b \in B : n \in table[b].numbers
<1>1. n \in UNION {table[b].numbers : b \in B} => \E b \in B : n \in table[b].numbers
    OBVIOUS
<1>2. ASSUME NEW b \in B, n \in table[b].numbers PROVE n \in UNION {table[x].numbers : x \in B}
    BY <1>2
<1> QED
    BY <1>1, <1>2

LEMMA ReservedMeans ==
    ASSUME NEW n
    PROVE  n \in Imports!Reserved <=>
             n \in listed \/ \E b \in Batches : Imports!Reversed(b) /\ n \in batch[b].numbers
<1> DEFINE B == {x \in Batches : Imports!Reversed(x)}
<1>1. n \in UNION {batch[b].numbers : b \in B} <=> \E b \in B : n \in batch[b].numbers
    BY NumbersOfBatches
<1>2. n \in Imports!Reserved <=> n \in listed \/ n \in UNION {batch[b].numbers : b \in B}
    BY DEF Imports!Reserved
<1> QED
    BY <1>1, <1>2

\* The same after a step
LEMMA ReservedMeansNext ==
    ASSUME NEW n
    PROVE  n \in Imports!Reserved' <=>
             n \in listed' \/ \E b \in Batches : Imports!Reversed(b)' /\ n \in batch'[b].numbers
<1> DEFINE B == {x \in Batches : Imports!Reversed(x)'}
<1>1. n \in UNION {batch'[b].numbers : b \in B} <=> \E b \in B : n \in batch'[b].numbers
    BY NumbersOfBatches
<1>2. n \in Imports!Reserved' <=> n \in listed' \/ n \in UNION {batch'[b].numbers : b \in B}
    BY DEF Imports!Reserved
<1> QED
    BY <1>1, <1>2

\* The next number is above every number in use or reserved
LEMMA NextIsNew ==
    ASSUME HistoryTyped
    PROVE  /\ Imports!NextReference \in Nat
           /\ \A n \in Imports!Live \cup Imports!Reserved : n < Imports!NextReference
<1>1. Imports!Live \cup Imports!Reserved \in SUBSET Imports!Numbers
  <2>1. Imports!Live \subseteq Imports!Numbers
        BY DEF Imports!Live
  <2>2. Imports!Reserved \subseteq Imports!Numbers
        BY ReservedMeans DEF HistoryTyped, Imports!Reversed, BatchRecords
  <2> QED
        BY <2>1, <2>2
<1>2. {0} \cup Imports!Live \cup Imports!Reserved = {0} \cup (Imports!Live \cup Imports!Reserved)
    OBVIOUS
<1> DEFINE m == Imports!Max({0} \cup (Imports!Live \cup Imports!Reserved))
<1>3. m \in Nat /\ \A n \in Imports!Live \cup Imports!Reserved : n <= m
    BY <1>1, GreatestNumber
<1>4. Imports!NextReference = m + 1
    BY <1>2 DEF Imports!NextReference
<1> HIDE DEF m
<1>5. \A n \in Imports!Live \cup Imports!Reserved : n \in Nat
    BY <1>1, NamesAssumption DEF Imports!Numbers
<1> QED
    BY <1>3, <1>4, <1>5

LEMMA RegisterKeepsHistory ==
    ASSUME HistoryInv, NEW r \in Requests, Imports!Register(r)
    PROVE  HistoryInv'
<1> DEFINE next == Imports!NextReference
<1>1. /\ next \in Imports!Numbers /\ UNCHANGED <<calm, batch, listed, disk, withdrawn>>
      /\ IF calm THEN holder' = [holder EXCEPT ![next] = Imports!Draft] /\ request' = request
         ELSE request' = [request EXCEPT ![r] = [is |-> "registering", number |-> next]] /\ holder' = holder
    BY DEF Imports!Register, Imports!Becomes
<1>2. HistoryTyped /\ BatchesKnown
    BY DEF HistoryInv
<1>3. CASE calm
  <2>1. NumbersRetired
        BY <1>3 DEF HistoryInv
  <2>2. next \notin withdrawn
        BY <1>2, <2>1, NextIsNew DEF NumbersRetired
  <2> HIDE DEF next
  <2>3. holder' = [holder EXCEPT ![next] = Imports!Draft] /\ request' = request
        BY <1>1, <1>3
  <2>4. \A b \in Batches : /\ Imports!Has(b)' = Imports!Has(b)
                            /\ Imports!FindingsOf(b)' \subseteq Imports!FindingsOf(b)
        BY <1>1, <1>2, <2>3, NamesAssumption DEF HistoryTyped, Imports!FindingsOf, Imports!Has
  <2>5. HistoryTyped'
        BY <1>1, <1>2, <2>3, <2>4 DEF HistoryTyped, AreRequests
  <2>6. BatchesKnown'
        BY <1>1, <1>2, <2>3, <2>4 DEF BatchesKnown, HistoryTyped
  <2>7. Imports!Reserved' = Imports!Reserved
        BY <1>1 DEF Imports!Reserved, Imports!Reversed, Imports!Has
  <2>8. NumbersRetired'
        BY <1>1, <1>2, <2>1, <2>2, <2>3, <2>7 DEF NumbersRetired, HistoryTyped
  <2> QED
        BY <2>5, <2>6, <2>8 DEF HistoryInv
<1>4. CASE ~calm
  <2> HIDE DEF next
  <2>1. /\ holder' = holder /\ request'[r].is = "registering"
        /\ \A q \in Requests \ {r} : request'[q] = request[q]
        BY <1>1, <1>2, <1>4 DEF HistoryTyped, AreRequests
  <2>2. \A b \in Batches : Imports!Has(b)' = Imports!Has(b) /\ Imports!FindingsOf(b)' = Imports!FindingsOf(b)
        BY <1>1, <2>1 DEF Imports!FindingsOf, Imports!Has
  <2>3. AreRequests'
        BY <1>1, <1>2, <1>4 DEF HistoryTyped, AreRequests
  <2>4. HistoryTyped'
        BY <1>1, <1>2, <2>1, <2>2, <2>3 DEF HistoryTyped
  <2>5. BatchesKnown'
        BY <1>1, <1>2, <2>1, <2>2 DEF BatchesKnown, HistoryTyped
  <2> QED
        BY <1>1, <1>4, <2>4, <2>5 DEF HistoryInv
<1> QED
    BY <1>3, <1>4

\* A request that ends, or is told it may go on, changes no table
LEMMA RequestsKeepHistory ==
    ASSUME HistoryInv, UNCHANGED <<calm, holder, batch, listed, withdrawn>>,
           AreRequests',
           \A q \in Requests :
              \/ request'[q] = request[q]
              \/ request'[q].is \in {"idle", "cleaning"}
              \/ /\ request'[q].is = "forgetting" /\ request'[q].batch \in Batches
                 /\ Imports!CanForget(request'[q].batch)
                 /\ request'[q].numbers = batch[request'[q].batch].numbers
                 /\ \A p \in Requests \ {q} : request'[p] = request[p]
              \/ /\ request'[q].is = "importing" /\ request'[q].batch \in Batches
                 /\ Imports!Unused(request'[q].batch)
                 /\ \A p \in Requests \ {q} : request'[p] = request[p]
    PROVE  HistoryInv'
<1>1. HistoryTyped /\ BatchesKnown /\ (calm => NumbersRetired)
    BY DEF HistoryInv
<1>2. \A b \in Batches : Imports!Has(b)' = Imports!Has(b) /\ Imports!FindingsOf(b)' = Imports!FindingsOf(b)
    BY DEF Imports!FindingsOf, Imports!Has
<1>3. Imports!Reserved' = Imports!Reserved
    BY DEF Imports!Reserved, Imports!Reversed, Imports!Has
<1>11. \A b \in Batches : Imports!Has(b) => batch[b].numbers \subseteq Imports!Numbers
    BY <1>1 DEF HistoryTyped, BatchRecords
<1>4. HistoryTyped'
    BY <1>1, <1>2, <1>11 DEF HistoryTyped, Imports!CanForget
<1>5. calm' => NumbersRetired'
    BY <1>1, <1>3 DEF NumbersRetired
<1>6. \A b \in Batches :
          /\ (Imports!FindingsOf(b) # {})' => Imports!Has(b)' /\ ~batch'[b].reversed
          /\ Imports!Has(b)' => Imports!FindingsOf(b)' \subseteq batch'[b].numbers
    BY <1>1, <1>2 DEF BatchesKnown
<1>7. ASSUME NEW r \in Requests, request'[r].is = "importing"
      PROVE  /\ (~Imports!Has(request[r].batch))'
             /\ \A q \in Requests \ {r} :
                   request'[q].is \in {"importing", "forgetting", "unlinking"} => request'[q].batch # request'[r].batch
  <2>1. CASE request'[r] = request[r]
    <3>1. /\ request[r].batch \in Batches /\ ~Imports!Has(request[r].batch)
          /\ \A q \in Requests \ {r} :
                request[q].is \in {"importing", "forgetting", "unlinking"} => request[q].batch # request[r].batch
        BY <1>1, <1>7, <2>1 DEF BatchesKnown, HistoryTyped
    <3>2. ASSUME NEW q \in Requests \ {r}, request'[q].is \in {"importing", "forgetting", "unlinking"}
          PROVE  request'[q].batch # request'[r].batch
        BY <1>1, <2>1, <3>1, <3>2, <1>7 DEF Imports!CanForget, Imports!Unused
    <3> QED
        BY <2>1, <3>1, <3>2 DEF Imports!Has
  <2>2. CASE request'[r] # request[r]
    <3>1. /\ request'[r].batch \in Batches /\ Imports!Unused(request'[r].batch)
          /\ \A p \in Requests \ {r} : request'[p] = request[p]
        BY <1>7, <2>2
    <3> QED
        BY <3>1 DEF Imports!Unused, Imports!Has
  <2> QED
    BY <2>1, <2>2
<1>8. ASSUME NEW r \in Requests, request'[r].is = "forgetting"
      PROVE  /\ (Imports!FindingsOf(request[r].batch) = {})'
             /\ (Imports!Has(request[r].batch))' => batch'[request'[r].batch].numbers = request'[r].numbers
  <2>1. CASE request'[r] = request[r]
        BY <1>1, <1>2, <1>8, <2>1 DEF BatchesKnown, HistoryTyped
  <2>2. CASE request'[r] # request[r]
        BY <1>1, <1>2, <1>8, <2>2 DEF BatchesKnown, Imports!CanForget
  <2> QED
        BY <2>1, <2>2
<1>9. ASSUME NEW r \in Requests, request'[r].is = "unlinking"
      PROVE  (~Imports!Has(request[r].batch))'
    BY <1>1, <1>2, <1>9 DEF BatchesKnown, HistoryTyped
<1>10. BatchesKnown'
    BY <1>6, <1>7, <1>8, <1>9 DEF BatchesKnown
<1> QED
    BY <1>4, <1>5, <1>10 DEF HistoryInv

LEMMA SaveDraftKeepsHistory ==
    ASSUME HistoryInv, NEW r \in Requests, Imports!SaveDraft(r)
    PROVE  HistoryInv'
<1>1. HistoryTyped /\ BatchesKnown /\ ~calm
    BY DEF HistoryInv, Imports!SaveDraft, NumbersRetired
<1> DEFINE n == request[r].number
<1>2. /\ holder' = [holder EXCEPT ![n] = IF @ = Imports!Free THEN Imports!Draft ELSE @]
      /\ request' = [request EXCEPT ![r] = Imports!Idle]
      /\ UNCHANGED <<calm, batch, listed, disk, withdrawn>>
    BY DEF Imports!SaveDraft, Imports!Becomes
<1> HIDE DEF n
<1>3. /\ request'[r].is = "idle" /\ AreRequests'
      /\ \A q \in Requests \ {r} : request'[q] = request[q]
    BY <1>1, <1>2 DEF HistoryTyped, AreRequests, Imports!Idle
<1>4. \A b \in Batches : Imports!Has(b)' = Imports!Has(b) /\ Imports!FindingsOf(b)' = Imports!FindingsOf(b)
    BY <1>1, <1>2, NamesAssumption DEF HistoryTyped, Imports!FindingsOf, Imports!Has
<1>5. holder' \in [Imports!Numbers -> {Imports!Free, Imports!Draft} \cup Batches]
    BY <1>1, <1>2 DEF HistoryTyped
<1>6. HistoryTyped'
    BY <1>1, <1>2, <1>3, <1>4, <1>5 DEF HistoryTyped
<1>7. BatchesKnown'
    BY <1>1, <1>2, <1>3, <1>4 DEF BatchesKnown, HistoryTyped
<1> QED
    BY <1>1, <1>2, <1>6, <1>7 DEF HistoryInv

LEMMA DeleteDraftKeepsHistory ==
    ASSUME HistoryInv, NEW n \in Imports!Numbers, Imports!DeleteDraft(n)
    PROVE  HistoryInv'
<1>1. HistoryTyped /\ BatchesKnown
    BY DEF HistoryInv
<1>2. /\ holder[n] = Imports!Draft /\ holder' = [holder EXCEPT ![n] = Imports!Free]
      /\ UNCHANGED <<calm, batch, listed, disk, request, withdrawn>>
    BY DEF Imports!DeleteDraft
<1>3. \A b \in Batches : Imports!Has(b)' = Imports!Has(b) /\ Imports!FindingsOf(b)' = Imports!FindingsOf(b)
    BY <1>1, <1>2, NamesAssumption DEF HistoryTyped, Imports!FindingsOf, Imports!Has
<1>4. HistoryTyped'
    BY <1>1, <1>2, <1>3 DEF HistoryTyped, AreRequests
<1>5. BatchesKnown'
    BY <1>1, <1>2, <1>3 DEF BatchesKnown, HistoryTyped
<1>6. Imports!Reserved' = Imports!Reserved
    BY <1>2 DEF Imports!Reserved, Imports!Reversed, Imports!Has
<1>7. calm' => NumbersRetired'
    BY <1>1, <1>2, <1>6 DEF HistoryInv, NumbersRetired, HistoryTyped
<1> QED
    BY <1>4, <1>5, <1>7 DEF HistoryInv

LEMMA SaveImportKeepsHistory ==
    ASSUME HistoryInv, NEW r \in Requests, NEW count \in 0..MaxRows, Imports!SaveImport(r, count)
    PROVE  HistoryInv'
<1>1. HistoryTyped /\ BatchesKnown /\ request[r].is = "importing"
    BY DEF HistoryInv, Imports!SaveImport
<1> DEFINE numbers == Imports!NextReference..(Imports!NextReference + count - 1)
<1>0. PICK id \in Batches : id = request[r].batch
    BY <1>1 DEF HistoryTyped
<1>2. /\ numbers \subseteq Imports!Numbers
      /\ holder' = [n \in Imports!Numbers |-> IF n \in numbers THEN id ELSE holder[n]]
      /\ batch' = [batch EXCEPT ![id] = [is |-> "batch", numbers |-> numbers, reversed |-> FALSE]]
      /\ request' = [request EXCEPT ![r] = Imports!Idle]
      /\ UNCHANGED <<calm, listed, disk, withdrawn>>
    BY <1>0 DEF Imports!SaveImport, Imports!Becomes
<1>3. \A n \in Imports!Live \cup Imports!Reserved : n \notin numbers
  <2>1. ASSUME NEW n \in Imports!Live \cup Imports!Reserved, n \in numbers PROVE FALSE
    <3>1. n < Imports!NextReference /\ Imports!NextReference \in Nat
        BY <1>1, NextIsNew
    <3>2. n \in Imports!Numbers
        BY <1>2, <2>1
    <3> QED
        BY <2>1, <3>1, <3>2, NamesAssumption DEF Imports!Numbers
  <2> QED
    BY <2>1
<1> HIDE DEF numbers
<1>4. /\ id \in Batches /\ ~Imports!Has(id)
      /\ \A q \in Requests \ {r} :
            request[q].is \in {"importing", "forgetting", "unlinking"} => request[q].batch # id
    BY <1>0, <1>1 DEF HistoryTyped, BatchesKnown
<1>5. /\ request'[r].is = "idle" /\ AreRequests'
      /\ \A q \in Requests \ {r} : request'[q] = request[q]
    BY <1>1, <1>2 DEF HistoryTyped, AreRequests, Imports!Idle
<1>6. \A n \in Imports!Numbers : n \in numbers => holder[n] = Imports!Free
    BY <1>3 DEF Imports!Live
<1>7. \A b \in Batches : b # id => /\ batch'[b] = batch[b] /\ Imports!Has(b)' = Imports!Has(b)
                                   /\ Imports!FindingsOf(b)' = Imports!FindingsOf(b)
    BY <1>1, <1>2, <1>4, <1>6, NamesAssumption DEF HistoryTyped, Imports!FindingsOf, Imports!Has
<1>8. Imports!FindingsOf(id) = {}
    BY <1>1, <1>4 DEF BatchesKnown
<1>9. batch'[id] = [is |-> "batch", numbers |-> numbers, reversed |-> FALSE]
    BY <1>1, <1>2, <1>4 DEF HistoryTyped
<1>15. (Imports!Has(id))'
    BY <1>9 DEF Imports!Has, Imports!Absent
<1>16. \A n \in Imports!Numbers : holder'[n] = id <=> n \in numbers
    BY <1>2, <1>8 DEF Imports!FindingsOf
<1>17. (Imports!FindingsOf(id))' = numbers
    BY <1>2, <1>16 DEF Imports!FindingsOf
<1>10. holder' \in [Imports!Numbers -> {Imports!Free, Imports!Draft} \cup Batches]
    BY <1>1, <1>2, <1>4 DEF HistoryTyped
<1>18. batch'[id] \in BatchRecords
  <2>1. numbers \in SUBSET Imports!Numbers
    BY <1>2
  <2> QED
    BY <1>9, <2>1 DEF BatchRecords
<1>11. batch' = [b \in Batches |-> batch'[b]]
    BY <1>1, <1>2 DEF HistoryTyped
<1>12. HistoryTyped'
    BY <1>1, <1>2, <1>5, <1>7, <1>10, <1>11, <1>18 DEF HistoryTyped
<1>13. BatchesKnown'
  <2>1. ASSUME NEW b \in Batches
        PROVE  (/\ Imports!FindingsOf(b) # {} => Imports!Has(b) /\ ~batch[b].reversed
                /\ Imports!Has(b) => Imports!FindingsOf(b) \subseteq batch[b].numbers)'
    <3>1. CASE b = id
        BY <1>2, <1>4, <1>9, <1>15, <1>17, <3>1
    <3>2. CASE b # id
        BY <1>1, <1>2, <1>7, <3>2 DEF BatchesKnown
    <3> QED
        BY <3>1, <3>2
  <2>2. ASSUME NEW q \in Requests, request'[q].is \in {"importing", "forgetting", "unlinking"}
        PROVE  /\ q # r /\ request'[q] = request[q] /\ request[q].batch # id /\ request[q].batch \in Batches
               /\ Imports!Has(request[q].batch)' = Imports!Has(request[q].batch)
               /\ Imports!FindingsOf(request[q].batch)' = Imports!FindingsOf(request[q].batch)
               /\ batch'[request[q].batch] = batch[request[q].batch]
        BY <1>1, <1>4, <1>5, <1>7, <2>2 DEF HistoryTyped
  <2>3. \A q \in Requests :
          (/\ request[q].is = "importing" =>
                /\ ~Imports!Has(request[q].batch)
                /\ \A p \in Requests \ {q} :
                      request[p].is \in {"importing", "forgetting", "unlinking"} => request[p].batch # request[q].batch
           /\ request[q].is = "forgetting" =>
                /\ Imports!FindingsOf(request[q].batch) = {}
                /\ Imports!Has(request[q].batch) => batch[request[q].batch].numbers = request[q].numbers
           /\ request[q].is = "unlinking" => ~Imports!Has(request[q].batch))'
    <3>1. TAKE q \in Requests
    <3>2. CASE request'[q].is \in {"importing", "forgetting", "unlinking"}
      <4>1. /\ q # r /\ request'[q] = request[q] /\ request[q].batch \in Batches
            /\ Imports!Has(request[q].batch)' = Imports!Has(request[q].batch)
            /\ Imports!FindingsOf(request[q].batch)' = Imports!FindingsOf(request[q].batch)
            /\ batch'[request[q].batch] = batch[request[q].batch]
          BY <2>2, <3>2
      <4>2. \A p \in Requests :
              request'[p].is \in {"importing", "forgetting", "unlinking"} =>
                  request[p].is \in {"importing", "forgetting", "unlinking"} /\ request'[p].batch = request[p].batch
          BY <2>2
      <4> QED
          BY <1>1, <1>2, <4>1, <4>2, SMTT(30) DEF BatchesKnown
    <3> QED
        BY <3>2
  <2> QED
        BY <2>1, <2>3 DEF BatchesKnown
<1>14. ASSUME calm PROVE NumbersRetired'
  <2>1. NumbersRetired
    BY <1>14 DEF HistoryInv
  <2>2. ASSUME NEW n \in Imports!Reserved PROVE n \in Imports!Reserved'
    <3>1. n \in listed \/ \E b \in Batches : Imports!Reversed(b) /\ n \in batch[b].numbers
        BY ReservedMeans
    <3>2. \A b \in Batches : Imports!Reversed(b) => b # id /\ Imports!Reversed(b)' /\ batch'[b] = batch[b]
        BY <1>4, <1>7 DEF Imports!Reversed
    <3>3. n \in listed' \/ \E b \in Batches : Imports!Reversed(b)' /\ n \in batch'[b].numbers
        BY <1>2, <3>1, <3>2
    <3> QED
        BY <3>3, ReservedMeansNext
  <2>3. \A n \in withdrawn : n \notin numbers
    BY <1>3, <2>1 DEF NumbersRetired
  <2>4. \A n \in withdrawn' : holder'[n] = Imports!Free
    BY <1>1, <1>2, <2>1, <2>3 DEF NumbersRetired, HistoryTyped
  <2> QED
    BY <1>2, <1>5, <2>1, <2>2, <2>4 DEF NumbersRetired
<1> QED
    BY <1>2, <1>12, <1>13, <1>14 DEF HistoryInv

LEMMA RunImportKeepsHistory ==
    ASSUME HistoryInv, NEW r \in Requests, NEW b \in Batches, Imports!RunImport(r, b)
    PROVE  HistoryInv'
<1>1. AreRequests
    BY DEF HistoryInv, HistoryTyped
<1>2. /\ request' = [request EXCEPT ![r] = [is |-> "importing", batch |-> b]]
      /\ Imports!Unused(b)
      /\ UNCHANGED <<calm, holder, batch, listed, withdrawn>>
    BY DEF Imports!RunImport, Imports!Becomes
<1>3. /\ AreRequests' /\ request'[r].is = "importing" /\ request'[r].batch = b
      /\ \A q \in Requests \ {r} : request'[q] = request[q]
    BY <1>1, <1>2 DEF AreRequests
<1> QED
    BY <1>2, <1>3, RequestsKeepHistory

\* What ends a request, or only reads
LEMMA DropImportKeepsHistory ==
    ASSUME HistoryInv, NEW r \in Requests,
           \/ Imports!DropImport(r) \/ Imports!UnlinkOriginal(r)
           \/ Imports!ReadBatches(r) \/ Imports!RemoveOrphans(r)
    PROVE  HistoryInv'
<1>1. AreRequests
    BY DEF HistoryInv, HistoryTyped
<1>2. /\ \E to : to.is \in {"idle", "cleaning"} /\ request' = [request EXCEPT ![r] = to]
      /\ UNCHANGED <<calm, holder, batch, listed, withdrawn>>
    BY DEF Imports!DropImport, Imports!UnlinkOriginal, Imports!ReadBatches, Imports!RemoveOrphans,
           Imports!Becomes, Imports!Idle
<1>3. /\ AreRequests' /\ request'[r].is \in {"idle", "cleaning"}
      /\ \A q \in Requests \ {r} : request'[q] = request[q]
    BY <1>1, <1>2 DEF AreRequests
<1> QED
    BY <1>2, <1>3, RequestsKeepHistory

LEMMA AskForgetKeepsHistory ==
    ASSUME HistoryInv, NEW r \in Requests, NEW b \in Batches, Imports!AskForget(r, b)
    PROVE  HistoryInv'
<1>1. AreRequests
    BY DEF HistoryInv, HistoryTyped
<1>2. /\ request' = [request EXCEPT ![r] = [is |-> "forgetting", batch |-> b, numbers |-> batch[b].numbers]]
      /\ Imports!CanForget(b) /\ disk' = disk
      /\ UNCHANGED <<calm, holder, batch, listed, withdrawn>>
    BY DEF Imports!AskForget, Imports!Becomes
<1>3. /\ AreRequests' /\ request'[r].is = "forgetting" /\ request'[r].batch = b
      /\ request'[r].numbers = batch[b].numbers
      /\ \A q \in Requests \ {r} : request'[q] = request[q]
    BY <1>1, <1>2 DEF AreRequests
<1> QED
    BY <1>2, <1>3, RequestsKeepHistory

LEMMA CrashKeepsHistory ==
    ASSUME HistoryInv, Imports!CrashOfServer
    PROVE  HistoryInv'
<1>1. /\ AreRequests' /\ \A q \in Requests : request'[q].is = "idle"
      /\ UNCHANGED <<calm, holder, batch, listed, disk, withdrawn>>
    BY DEF Imports!CrashOfServer, Imports!Idle, AreRequests
<1> QED
    BY <1>1, RequestsKeepHistory

\* A batch whose findings go and whose record stays
LEMMA ReverseKeepsHistory ==
    ASSUME HistoryInv, NEW r \in Requests, NEW b \in Batches, Imports!ReverseBatch(r, b, FALSE)
    PROVE  HistoryInv'
<1>1. HistoryTyped /\ BatchesKnown /\ Imports!Has(b) /\ ~batch[b].reversed
    BY DEF HistoryInv, Imports!ReverseBatch, Imports!CanReverse
<1>2. /\ holder' = [n \in Imports!Numbers |-> IF holder[n] = b THEN Imports!Free ELSE holder[n]]
      /\ withdrawn' = withdrawn \cup Imports!FindingsOf(b)
      /\ batch' = [batch EXCEPT ![b].reversed = TRUE]
      /\ UNCHANGED <<calm, listed, disk, request>>
    BY DEF Imports!ReverseBatch
<1>3. batch[b] \in BatchRecords
    BY <1>1 DEF HistoryTyped
<1>4. batch'[b] = [is |-> "batch", numbers |-> batch[b].numbers, reversed |-> TRUE]
    BY <1>1, <1>2, <1>3 DEF HistoryTyped, BatchRecords
<1>12. batch'[b] \in BatchRecords
    BY <1>3, <1>4 DEF BatchRecords
<1>5. \A c \in Batches \ {b} : batch'[c] = batch[c]
    BY <1>1, <1>2 DEF HistoryTyped
<1>6. \A c \in Batches : (Imports!Has(c))' = Imports!Has(c) /\ batch'[c].numbers = batch[c].numbers
    BY <1>1, <1>4, <1>5 DEF Imports!Has, Imports!Absent
<1>7. \A n \in Imports!Numbers : holder'[n] # b /\ \A c \in Batches \ {b} : holder'[n] = c <=> holder[n] = c
    BY <1>2, NamesAssumption
<1>8. /\ Imports!FindingsOf(b)' = {}
      /\ \A c \in Batches \ {b} : Imports!FindingsOf(c)' = Imports!FindingsOf(c)
    BY <1>7 DEF Imports!FindingsOf
<1>9. HistoryTyped'
  <2>1. \A c \in Batches : (Imports!Has(c))' => batch'[c] \in BatchRecords
    BY <1>1, <1>5, <1>6, <1>12 DEF HistoryTyped
  <2>2. holder' \in [Imports!Numbers -> {Imports!Free, Imports!Draft} \cup Batches]
    BY <1>1, <1>2 DEF HistoryTyped
  <2>3. batch' = [c \in Batches |-> batch'[c]]
    BY <1>1, <1>2 DEF HistoryTyped
  <2>4. Imports!FindingsOf(b) \subseteq Imports!Numbers
    BY DEF Imports!FindingsOf
  <2> QED
    BY <1>1, <1>2, <2>1, <2>2, <2>3, <2>4 DEF HistoryTyped, AreRequests
<1>10. BatchesKnown'
  <2>1. \A c \in Batches :
          (/\ Imports!FindingsOf(c) # {} => Imports!Has(c) /\ ~batch[c].reversed
           /\ Imports!Has(c) => Imports!FindingsOf(c) \subseteq batch[c].numbers)'
    <3>1. TAKE c \in Batches
    <3>2. CASE c = b
        BY <1>1, <1>2, <1>6, <1>8, <3>2 DEF BatchesKnown
    <3>3. CASE c # b
        BY <1>1, <1>2, <1>5, <1>6, <1>8, <3>3 DEF BatchesKnown
    <3> QED
        BY <3>2, <3>3
  <2>2. \A q \in Requests : request[q].is \in {"importing", "forgetting", "unlinking"} =>
          /\ request[q].batch \in Batches
          /\ (Imports!Has(request[q].batch))' = Imports!Has(request[q].batch)
          /\ batch'[request[q].batch].numbers = batch[request[q].batch].numbers
          /\ Imports!FindingsOf(request[q].batch) = {} => (Imports!FindingsOf(request[q].batch))' = {}
    <3>1. TAKE q \in Requests
    <3>2. HAVE request[q].is \in {"importing", "forgetting", "unlinking"}
    <3>3. PICK c \in Batches : c = request[q].batch
        BY <1>1, <3>2 DEF HistoryTyped
    <3>4. request'[q].batch = c
        BY <1>2, <3>3
    <3>5. (Imports!Has(request[q].batch))' = Imports!Has(c)
        BY <1>6, <3>4 DEF Imports!Has
    <3>6. (Imports!FindingsOf(request[q].batch))' = Imports!FindingsOf(c)'
        BY <3>4 DEF Imports!FindingsOf
    <3>7. Imports!FindingsOf(c) = {} => Imports!FindingsOf(c)' = {}
        BY <1>8
    <3> QED
        BY <1>6, <3>3, <3>5, <3>6, <3>7
  <2> QED
    BY <1>1, <1>2, <2>1, <2>2 DEF BatchesKnown
<1>11. ASSUME calm PROVE NumbersRetired'
  <2>1. NumbersRetired
    BY <1>11 DEF HistoryInv
  <2>2. ASSUME NEW n \in withdrawn' PROVE n \in Imports!Reserved'
    <3>1. CASE n \in withdrawn
      <4>1. n \in listed \/ \E c \in Batches : Imports!Reversed(c) /\ n \in batch[c].numbers
          BY <2>1, <3>1, ReservedMeans DEF NumbersRetired
      <4>2. \A c \in Batches : Imports!Reversed(c) => (Imports!Reversed(c))'
          BY <1>1, <1>5, <1>6 DEF Imports!Reversed
      <4> QED
          BY <1>2, <1>6, <4>1, <4>2, ReservedMeansNext
    <3>2. CASE n \in Imports!FindingsOf(b)
      <4>1. n \in batch'[b].numbers
          BY <1>1, <1>6, <3>2 DEF BatchesKnown
      <4>2. (Imports!Reversed(b))'
          BY <1>1, <1>4, <1>6 DEF Imports!Reversed
      <4> QED
          BY <4>1, <4>2, ReservedMeansNext
    <3> QED
        BY <1>2, <3>1, <3>2
  <2>3. \A n \in withdrawn' : holder'[n] = Imports!Free
    BY <1>1, <1>2, <2>1 DEF NumbersRetired, HistoryTyped, Imports!FindingsOf
  <2> QED
    BY <1>2, <2>1, <2>2, <2>3 DEF NumbersRetired
<1> QED
    BY <1>2, <1>9, <1>10, <1>11 DEF HistoryInv

\* A batch whose record goes, and its findings if it still has some
LEMMA DropBatchKeepsHistory ==
    ASSUME HistoryInv, NEW r \in Requests, NEW b \in Batches, NEW more \in SUBSET Imports!Numbers,
           UNCHANGED <<calm, disk>>,
           holder' = [n \in Imports!Numbers |-> IF holder[n] = b THEN Imports!Free ELSE holder[n]],
           withdrawn' = withdrawn \cup Imports!FindingsOf(b),
           batch' = [batch EXCEPT ![b] = Imports!Absent],
           listed' = listed \cup more,
           request' = [request EXCEPT ![r] = [is |-> "unlinking", batch |-> b]],
           Imports!FindingsOf(b) \subseteq more,
           Imports!Reversed(b) => batch[b].numbers \subseteq more,
           \A q \in Requests \ {r} : request[q].is = "importing" => request[q].batch # b
    PROVE  HistoryInv'
<1>1. HistoryTyped /\ BatchesKnown
    BY DEF HistoryInv
<1>2. /\ batch'[b] = Imports!Absent /\ (~Imports!Has(b))'
      /\ \A c \in Batches \ {b} : batch'[c] = batch[c] /\ (Imports!Has(c))' = Imports!Has(c)
    BY <1>1 DEF HistoryTyped, Imports!Has
<1>3. \A n \in Imports!Numbers : holder'[n] # b /\ \A c \in Batches \ {b} : holder'[n] = c <=> holder[n] = c
    BY NamesAssumption
<1>4. /\ Imports!FindingsOf(b)' = {}
      /\ \A c \in Batches \ {b} : Imports!FindingsOf(c)' = Imports!FindingsOf(c)
    BY <1>3 DEF Imports!FindingsOf
<1>5. /\ AreRequests' /\ request'[r].is = "unlinking" /\ request'[r].batch = b
      /\ \A q \in Requests \ {r} : request'[q] = request[q]
    BY <1>1 DEF HistoryTyped, AreRequests
<1>6. HistoryTyped'
  <2>1. \A c \in Batches : (Imports!Has(c))' => batch'[c] \in BatchRecords
    BY <1>1, <1>2 DEF HistoryTyped
  <2>2. holder' \in [Imports!Numbers -> {Imports!Free, Imports!Draft} \cup Batches]
    BY <1>1 DEF HistoryTyped
  <2>3. batch' = [c \in Batches |-> batch'[c]]
    BY <1>1 DEF HistoryTyped
  <2>4. Imports!FindingsOf(b) \subseteq Imports!Numbers
    BY DEF Imports!FindingsOf
  <2> QED
    BY <1>1, <1>5, <2>1, <2>2, <2>3, <2>4 DEF HistoryTyped
<1>7. BatchesKnown'
  <2>1. \A c \in Batches :
          (/\ Imports!FindingsOf(c) # {} => Imports!Has(c) /\ ~batch[c].reversed
           /\ Imports!Has(c) => Imports!FindingsOf(c) \subseteq batch[c].numbers)'
    <3>1. TAKE c \in Batches
    <3>2. CASE c = b
        BY <1>2, <1>4, <3>2
    <3>3. CASE c # b
        BY <1>1, <1>2, <1>4, <3>3 DEF BatchesKnown
    <3> QED
        BY <3>2, <3>3
  <2>2. \A q \in Requests : request'[q].is \in {"importing", "forgetting", "unlinking"} =>
          /\ request'[q].batch \in Batches
          /\ (Imports!Has(request[q].batch))' => request'[q].batch # b
          /\ request'[q].batch # b =>
                /\ (Imports!Has(request[q].batch))' = Imports!Has(request'[q].batch)
                /\ batch'[request'[q].batch] = batch[request'[q].batch]
                /\ (Imports!FindingsOf(request[q].batch))' = Imports!FindingsOf(request'[q].batch)
          /\ request'[q].batch = b => (Imports!FindingsOf(request[q].batch))' = {}
    <3>1. TAKE q \in Requests
    <3>2. HAVE request'[q].is \in {"importing", "forgetting", "unlinking"}
    <3>3. PICK c \in Batches : c = request'[q].batch
        BY <1>1, <1>5, <3>2 DEF HistoryTyped
    <3>4. (Imports!Has(request[q].batch))' = (Imports!Has(c))'
        BY <3>3 DEF Imports!Has
    <3>5. (Imports!FindingsOf(request[q].batch))' = Imports!FindingsOf(c)'
        BY <3>3 DEF Imports!FindingsOf
    <3> QED
        BY <1>2, <1>4, <3>3, <3>4, <3>5
  <2>3. \A q \in Requests :
          (/\ request[q].is = "importing" =>
                /\ ~Imports!Has(request[q].batch)
                /\ \A p \in Requests \ {q} :
                      request[p].is \in {"importing", "forgetting", "unlinking"} => request[p].batch # request[q].batch
           /\ request[q].is = "forgetting" =>
                /\ Imports!FindingsOf(request[q].batch) = {}
                /\ Imports!Has(request[q].batch) => batch[request[q].batch].numbers = request[q].numbers
           /\ request[q].is = "unlinking" => ~Imports!Has(request[q].batch))'
    <3>1. TAKE q \in Requests
    <3>2. CASE request'[q].is = "importing"
        BY <1>1, <1>5, <2>2, <3>2 DEF BatchesKnown
    <3>3. CASE request'[q].is = "forgetting"
        BY <1>1, <1>5, <2>2, <3>3, SMTT(30) DEF BatchesKnown
    <3>4. CASE request'[q].is = "unlinking"
        BY <1>1, <1>5, <2>2, <3>4 DEF BatchesKnown
    <3> QED
        BY <3>2, <3>3, <3>4
  <2> QED
    BY <2>1, <2>3 DEF BatchesKnown
<1>8. ASSUME calm PROVE NumbersRetired'
  <2>1. NumbersRetired
    BY <1>8 DEF HistoryInv
  <2>2. ASSUME NEW n \in withdrawn' PROVE n \in Imports!Reserved'
    <3>1. CASE n \in withdrawn
      <4>1. n \in listed \/ \E c \in Batches : Imports!Reversed(c) /\ n \in batch[c].numbers
          BY <2>1, <3>1, ReservedMeans DEF NumbersRetired
      <4>2. \A c \in Batches \ {b} : Imports!Reversed(c) => (Imports!Reversed(c))'
          BY <1>2 DEF Imports!Reversed
      <4>3. n \in listed' \/ \E c \in Batches : Imports!Reversed(c)' /\ n \in batch'[c].numbers
          BY <1>2, <4>1, <4>2
      <4> QED
          BY <4>3, ReservedMeansNext
    <3>2. CASE n \in Imports!FindingsOf(b)
        BY <3>2, ReservedMeansNext
    <3> QED
        BY <3>1, <3>2
  <2>3. \A n \in withdrawn' : holder'[n] = Imports!Free
    BY <1>1, <2>1 DEF NumbersRetired, HistoryTyped, Imports!FindingsOf
  <2> QED
    BY <1>5, <2>1, <2>2, <2>3 DEF NumbersRetired
<1> QED
    BY <1>6, <1>7, <1>8 DEF HistoryInv

LEMMA ReverseAndDropKeepsHistory ==
    ASSUME HistoryInv, NEW r \in Requests, NEW b \in Batches, Imports!ReverseBatch(r, b, TRUE)
    PROVE  HistoryInv'
<1>1. Imports!Has(b) /\ ~Imports!Reversed(b)
    BY DEF Imports!ReverseBatch, Imports!CanReverse, Imports!Reversed
<1>2. /\ holder' = [n \in Imports!Numbers |-> IF holder[n] = b THEN Imports!Free ELSE holder[n]]
      /\ withdrawn' = withdrawn \cup Imports!FindingsOf(b)
      /\ batch' = [batch EXCEPT ![b] = Imports!Absent]
      /\ listed' = listed \cup Imports!FindingsOf(b)
      /\ request' = [request EXCEPT ![r] = [is |-> "unlinking", batch |-> b]]
      /\ UNCHANGED <<calm, disk>>
    BY DEF Imports!ReverseBatch, Imports!Becomes
<1>3. Imports!FindingsOf(b) \in SUBSET Imports!Numbers
    BY DEF Imports!FindingsOf
<1>4. \A q \in Requests \ {r} : request[q].is = "importing" => request[q].batch # b
    BY <1>1 DEF HistoryInv, BatchesKnown
<1> QED
    BY <1>1, <1>2, <1>3, <1>4, DropBatchKeepsHistory

LEMMA ForgetKeepsHistory ==
    ASSUME HistoryInv, NEW r \in Requests, Imports!Forget(r)
    PROVE  HistoryInv'
<1>1. HistoryTyped /\ BatchesKnown /\ request[r].is = "forgetting"
    BY DEF HistoryInv, Imports!Forget
<1>2. PICK b \in Batches : b = request[r].batch
    BY <1>1 DEF HistoryTyped
<1>3. /\ batch' = [batch EXCEPT ![b] = Imports!Absent]
      /\ listed' = listed \cup request[r].numbers
      /\ request' = [request EXCEPT ![r] = [is |-> "unlinking", batch |-> b]]
      /\ UNCHANGED <<calm, holder, disk, withdrawn>>
    BY <1>2 DEF Imports!Forget, Imports!Becomes
<1>4. Imports!FindingsOf(b) = {} /\ (Imports!Has(b) => batch[b].numbers = request[r].numbers)
    BY <1>1, <1>2 DEF BatchesKnown
<1>5. holder' = [n \in Imports!Numbers |-> IF holder[n] = b THEN Imports!Free ELSE holder[n]]
    BY <1>1, <1>3, <1>4 DEF HistoryTyped, Imports!FindingsOf
<1>6. \A q \in Requests \ {r} : request[q].is = "importing" => request[q].batch # b
    BY <1>1, <1>2 DEF BatchesKnown
<1>7. request[r].numbers \in SUBSET Imports!Numbers
    BY <1>1 DEF HistoryTyped
<1>8. Imports!Reversed(b) => batch[b].numbers \subseteq request[r].numbers
    BY <1>4 DEF Imports!Reversed
<1>9. withdrawn' = withdrawn \cup Imports!FindingsOf(b) /\ Imports!FindingsOf(b) \subseteq request[r].numbers
    BY <1>3, <1>4
<1> QED
    BY <1>3, <1>5, <1>6, <1>7, <1>8, <1>9, DropBatchKeepsHistory

LEMMA HistoryStep ==
    ASSUME HistoryInv, Imports!HistoryNext
    PROVE  HistoryInv'
<1>1. ASSUME NEW r \in Requests, Imports!Register(r) \/ Imports!SaveDraft(r)
      PROVE  HistoryInv'
    BY <1>1, RegisterKeepsHistory, SaveDraftKeepsHistory
<1>2. ASSUME NEW r \in Requests, NEW b \in Batches, Imports!RunImport(r, b) \/ Imports!AskForget(r, b)
      PROVE  HistoryInv'
    BY <1>2, RunImportKeepsHistory, AskForgetKeepsHistory
<1>3. ASSUME NEW r \in Requests, NEW b \in Batches, NEW old \in Batches, Imports!Reimport(r, old, b)
      PROVE  HistoryInv'
    BY <1>3, RunImportKeepsHistory DEF Imports!Reimport
<1>4. ASSUME NEW r \in Requests, NEW b \in Batches, NEW deleteRecord \in BOOLEAN, Imports!ReverseBatch(r, b, deleteRecord)
      PROVE  HistoryInv'
    BY <1>4, ReverseKeepsHistory, ReverseAndDropKeepsHistory
<1>5. ASSUME NEW r \in Requests, NEW count \in 0..MaxRows, Imports!SaveImport(r, count)
      PROVE  HistoryInv'
    BY <1>5, SaveImportKeepsHistory
<1>6. ASSUME NEW r \in Requests,
             \/ Imports!DropImport(r) \/ Imports!Forget(r) \/ Imports!UnlinkOriginal(r)
             \/ Imports!ReadBatches(r) \/ Imports!RemoveOrphans(r)
      PROVE  HistoryInv'
    BY <1>6, DropImportKeepsHistory, ForgetKeepsHistory
<1>7. ASSUME NEW n \in Imports!Numbers, Imports!DeleteDraft(n)
      PROVE  HistoryInv'
    BY <1>7, DeleteDraftKeepsHistory
<1>8. ASSUME Imports!CrashOfServer
      PROVE  HistoryInv'
    BY <1>8, CrashKeepsHistory
<1> QED
    BY <1>1, <1>2, <1>3, <1>4, <1>5, <1>6, <1>7, <1>8 DEF Imports!HistoryNext

\* Nothing changes what a run leaves out.
LEMMA CalmStays ==
    ASSUME Imports!HistoryNext
    PROVE  calm' = calm
BY DEF Imports!HistoryNext, Imports!Register, Imports!SaveDraft, Imports!DeleteDraft, Imports!RunImport,
       Imports!SaveImport, Imports!DropImport, Imports!Reimport, Imports!ReverseBatch, Imports!AskForget,
       Imports!Forget, Imports!UnlinkOriginal, Imports!ReadBatches, Imports!RemoveOrphans, Imports!CrashOfServer

\* What leaves the folder alone and starts neither an import nor a cleanup
LEMMA OriginalsStay ==
    ASSUME OriginalsKept, UNCHANGED <<calm, disk>>,
           \A b \in Batches : Imports!Has(b)' => Imports!Has(b),
           \A q \in Requests : request'[q] = request[q] \/ request'[q].is \notin {"importing", "cleaning"}
    PROVE  OriginalsKept'
BY DEF OriginalsKept

\* While no cleanup meets an import, the originals of the batches stay.
LEMMA OriginalsStep ==
    ASSUME HistoryTyped, BatchesKnown, OriginalsKept, calm, Imports!HistoryNext
    PROVE  OriginalsKept'
<1> DEFINE Leaves == \A b \in Batches : Imports!Has(b)' => Imports!Has(b)
<1> DEFINE Others(r) == \A q \in Requests \ {r} : request'[q] = request[q]
<1>1. AreRequests
    BY DEF HistoryTyped
<1>2. ASSUME NEW r \in Requests, Imports!Register(r) \/ Imports!SaveDraft(r) \/ Imports!Forget(r)
                                  \/ \E b \in Batches : Imports!AskForget(r, b)
      PROVE  OriginalsKept'
    <2>1. \/ request' = request
          \/ \E to : to.is \notin {"importing", "cleaning"} /\ request' = [request EXCEPT ![r] = to]
        <3>1. CASE Imports!Register(r)
            <4>1. UNCHANGED request \/ Imports!Becomes(r, [is |-> "registering", number |-> Imports!NextReference])
                BY <3>1 DEF Imports!Register
            <4> QED
                BY <4>1 DEF Imports!Becomes
        <3>2. CASE Imports!SaveDraft(r)
            BY <3>2 DEF Imports!SaveDraft, Imports!Becomes, Imports!Idle
        <3>3. CASE Imports!Forget(r)
            BY <3>3 DEF Imports!Forget, Imports!Becomes
        <3>4. CASE \E b \in Batches : Imports!AskForget(r, b)
            BY <3>4 DEF Imports!AskForget, Imports!Becomes
        <3> QED
            BY <1>2, <3>1, <3>2, <3>3, <3>4
    <2>2. Leaves /\ UNCHANGED <<calm, disk>>
        BY <1>2 DEF Imports!Register, Imports!SaveDraft, Imports!Forget, Imports!AskForget, Imports!Has, HistoryTyped
    <2>3. \A q \in Requests : request'[q] = request[q] \/ request'[q].is \notin {"importing", "cleaning"}
        BY <1>1, <2>1 DEF AreRequests
    <2> QED
        BY <2>2, <2>3, OriginalsStay
<1>3. ASSUME NEW r \in Requests, NEW b \in Batches, NEW deleteRecord \in BOOLEAN, Imports!ReverseBatch(r, b, deleteRecord)
      PROVE  OriginalsKept'
    <2>1. request' = request \/ request' = [request EXCEPT ![r] = [is |-> "unlinking", batch |-> b]]
        BY <1>3 DEF Imports!ReverseBatch, Imports!Becomes
    <2>2. Leaves /\ UNCHANGED <<calm, disk>>
        BY <1>3 DEF Imports!ReverseBatch, Imports!CanReverse, Imports!Has, HistoryTyped
    <2>3. \A q \in Requests : request'[q] = request[q] \/ request'[q].is \notin {"importing", "cleaning"}
        BY <1>1, <2>1 DEF AreRequests
    <2> QED
        BY <2>2, <2>3, OriginalsStay
<1>4. ASSUME NEW r \in Requests, NEW b \in Batches, Imports!RunImport(r, b)
      PROVE  OriginalsKept'
    <2>1. /\ request' = [request EXCEPT ![r] = [is |-> "importing", batch |-> b]]
          /\ disk' = disk \cup {b} /\ batch' = batch
          /\ \A q \in Requests : request[q].is # "cleaning"
        BY <1>4 DEF Imports!RunImport, Imports!Becomes, Imports!Underway
    <2>2. request'[r].is = "importing" /\ request'[r].batch = b /\ Others(r)
        BY <1>1, <2>1 DEF AreRequests
    <2> QED
        BY <2>1, <2>2 DEF OriginalsKept, Imports!Has
<1>5. ASSUME NEW r \in Requests, NEW count \in 0..MaxRows, Imports!SaveImport(r, count)
      PROVE  OriginalsKept'
    <2>1. PICK id \in Batches : id = request[r].batch /\ id \in disk /\ \A q \in Requests : request[q].is # "cleaning"
        BY <1>5 DEF Imports!SaveImport, HistoryTyped, OriginalsKept
    <2>2. /\ request' = [request EXCEPT ![r] = Imports!Idle] /\ disk' = disk
          /\ \E made : batch' = [batch EXCEPT ![id] = made]
        BY <1>5, <2>1 DEF Imports!SaveImport, Imports!Becomes
    <2>3. request'[r].is = "idle" /\ Others(r)
        BY <1>1, <2>2 DEF AreRequests, Imports!Idle
    <2>4. \A b \in Batches : Imports!Has(b)' => Imports!Has(b) \/ b = id
        BY <2>2 DEF HistoryTyped, Imports!Has
    <2> QED
        BY <2>1, <2>2, <2>3, <2>4 DEF OriginalsKept
<1>6. ASSUME NEW r \in Requests, Imports!DropImport(r) \/ Imports!UnlinkOriginal(r)
      PROVE  OriginalsKept'
    <2>1. PICK id \in Batches : id = request[r].batch /\ request[r].is \in {"importing", "unlinking"}
        BY <1>6 DEF Imports!DropImport, Imports!UnlinkOriginal, HistoryTyped
    <2>2. /\ request' = [request EXCEPT ![r] = Imports!Idle]
          /\ disk' = disk \ {id} /\ batch' = batch
        BY <1>6, <2>1 DEF Imports!DropImport, Imports!UnlinkOriginal, Imports!Becomes
    <2>3. request'[r].is = "idle" /\ Others(r)
        BY <1>1, <2>2 DEF AreRequests, Imports!Idle
    <2>4. ~Imports!Has(id) /\ \A q \in Requests \ {r} : request[q].is = "importing" => request[q].batch # id
        BY <2>1 DEF BatchesKnown
    <2> QED
        BY <2>2, <2>3, <2>4 DEF OriginalsKept, Imports!Has
<1>7. ASSUME NEW r \in Requests, Imports!ReadBatches(r)
      PROVE  OriginalsKept'
    <2>1. /\ request' = [request EXCEPT ![r] = [is |-> "cleaning", referenced |-> {b \in Batches : Imports!Has(b)}]]
          /\ UNCHANGED <<disk, batch>>
          /\ \A q \in Requests : request[q].is # "importing"
        BY <1>7 DEF Imports!ReadBatches, Imports!Becomes, Imports!Underway
    <2>2. /\ request'[r].is = "cleaning" /\ request'[r].referenced = {b \in Batches : Imports!Has(b)}
          /\ Others(r)
        BY <1>1, <2>1 DEF AreRequests
    <2> QED
        BY <2>1, <2>2 DEF OriginalsKept, Imports!Has
<1>8. ASSUME NEW r \in Requests, Imports!RemoveOrphans(r)
      PROVE  OriginalsKept'
    <2>1. /\ request[r].is = "cleaning" /\ request' = [request EXCEPT ![r] = Imports!Idle]
          /\ disk' = disk \cap request[r].referenced /\ batch' = batch
        BY <1>8 DEF Imports!RemoveOrphans, Imports!Becomes
    <2>2. request'[r].is = "idle" /\ Others(r)
        BY <1>1, <2>1 DEF AreRequests, Imports!Idle
    <2> QED
        BY <2>1, <2>2 DEF OriginalsKept, Imports!Has
<1>9. ASSUME NEW n \in Imports!Numbers, Imports!DeleteDraft(n)
      PROVE  OriginalsKept'
    BY <1>9, OriginalsStay DEF Imports!DeleteDraft, Imports!Has
<1>10. ASSUME Imports!CrashOfServer
      PROVE  OriginalsKept'
    BY <1>10, OriginalsStay DEF Imports!CrashOfServer, Imports!Has, Imports!Idle
<1> QED
    BY <1>2, <1>3, <1>4, <1>5, <1>6, <1>7, <1>8, <1>9, <1>10 DEF Imports!HistoryNext, Imports!Reimport

-----------------------------------------------------------------------------
(* The whole                                                               *)

\* Where the part that moves is another, its tables are as they were made
ServicesInv ==
    /\ part = "evidence" => EvidenceInv
    /\ part # "evidence" => evidence = {}
    /\ part = "imports" => HistoryInv /\ (calm => OriginalsKept)
    /\ part # "imports" => /\ batch = [b \in Batches |-> Imports!Absent] /\ withdrawn = {}
                           /\ holder = [n \in Imports!Numbers |-> Imports!Free]

LEMMA StartsRight == Init => ServicesInv
<1> SUFFICES ASSUME Init PROVE ServicesInv
    OBVIOUS
<1>1. /\ evidence = {} /\ disk = {} /\ listed = {} /\ withdrawn = {}
      /\ batch = [b \in Batches |-> Imports!Absent]
      /\ holder = [n \in Imports!Numbers |-> Imports!Free]
      /\ request = [r \in Requests |-> Imports!Idle]
    BY DEF Init, Evidence!FilesInit, Imports!HistoryInit
<1>2. AreRequests /\ \A r \in Requests : request[r].is = "idle"
    BY <1>1 DEF AreRequests, Imports!Idle
<1>3. EvidenceInv
    BY <1>1, <1>2 DEF EvidenceInv, FilesConsistent
<1>4. \A b \in Batches : ~Imports!Has(b) /\ Imports!FindingsOf(b) = {}
    BY <1>1, NamesAssumption DEF Imports!Has, Imports!FindingsOf
<1>5. HistoryTyped
    BY <1>1, <1>2, <1>4 DEF HistoryTyped
<1>6. BatchesKnown
    BY <1>2, <1>4 DEF BatchesKnown
<1>7. NumbersRetired
    BY <1>1, <1>2 DEF NumbersRetired
<1>8. OriginalsKept
    BY <1>2, <1>4 DEF OriginalsKept
<1> QED
    BY <1>1, <1>3, <1>5, <1>6, <1>7, <1>8 DEF ServicesInv, HistoryInv

LEMMA StaysRight == ServicesInv /\ [Next]_vars => ServicesInv'
<1> SUFFICES ASSUME ServicesInv, [Next]_vars PROVE ServicesInv'
    OBVIOUS
<1>1. CASE InEvidence(Evidence!FilesNext)
  <2>1. part = "evidence" /\ part' = part /\ UNCHANGED importVars /\ Evidence!FilesNext
    BY <1>1 DEF InEvidence
  <2>2. EvidenceInv'
    BY <2>1, FilesStep DEF ServicesInv
  <2> QED
    BY <2>1, <2>2 DEF ServicesInv, importVars
<1>2. CASE InImports(Imports!HistoryNext)
  <2>1. part = "imports" /\ part' = part /\ UNCHANGED evidenceVars /\ Imports!HistoryNext
    BY <1>2 DEF InImports
  <2>2. HistoryInv'
    BY <2>1, HistoryStep DEF ServicesInv
  <2>3. calm' = calm
    BY <2>1, CalmStays
  <2>4. calm => OriginalsKept'
    BY <2>1, OriginalsStep DEF ServicesInv, HistoryInv
  <2> QED
    BY <2>1, <2>2, <2>3, <2>4 DEF ServicesInv, evidenceVars
<1>3. ASSUME part' = part, UNCHANGED <<evidenceVars, importVars>>,
             part \notin {"evidence", "imports"} \/ UNCHANGED <<calm, storeVars>>
      PROVE  ServicesInv'
  <2>1. CASE part \notin {"evidence", "imports"}
    BY <1>3, <2>1 DEF ServicesInv, evidenceVars, importVars
  <2>2. CASE UNCHANGED <<calm, storeVars>>
    <3>1. UNCHANGED <<calm, disk, request, evidence, holder, batch, listed, withdrawn>>
        BY <1>3, <2>2 DEF evidenceVars, importVars, storeVars
    <3>2. EvidenceInv => EvidenceInv'
        BY <3>1 DEF EvidenceInv, AreRequests, FilesConsistent, Evidence!HeldBy
    <3>3. /\ Imports!Reserved' = Imports!Reserved
          /\ \A b : (Imports!Has(b))' = Imports!Has(b) /\ Imports!FindingsOf(b)' = Imports!FindingsOf(b)
        BY <3>1 DEF Imports!Reserved, Imports!Reversed, Imports!Has, Imports!FindingsOf
    <3>4. HistoryInv => HistoryInv'
        BY <3>1, <3>3 DEF HistoryInv, HistoryTyped, BatchesKnown, NumbersRetired, AreRequests
    <3>5. OriginalsKept => OriginalsKept'
        BY <3>1, <3>3 DEF OriginalsKept
    <3> QED
        BY <1>3, <3>1, <3>2, <3>4, <3>5 DEF ServicesInv
  <2> QED
    BY <1>3, <2>1, <2>2
<1>4. CASE InLogins(Throttle!ThrottleNext)
    BY <1>3, <1>4 DEF InLogins
<1>5. CASE InReminders(Reminding!RemindersNext)
    BY <1>3, <1>5 DEF InReminders
<1>6. CASE InSupport(Support!SupportNext)
    BY <1>3, <1>6 DEF InSupport
<1>7. CASE InForms(Forms!FormsNext)
    BY <1>3, <1>7 DEF InForms
<1>8. CASE InCsv(Csv!CsvNext)
    BY <1>3, <1>8 DEF InCsv
<1>9. CASE InAutosave(Autosave!AutosaveNext)
    BY <1>3, <1>9 DEF InAutosave
<1>10. CASE UNCHANGED vars
    BY <1>3, <1>10 DEF vars
<1> QED
    BY <1>1, <1>2, <1>4, <1>5, <1>6, <1>7, <1>8, <1>9, <1>10 DEF Next

\* However uploads, removals, deletions, reversals, cleanups and crashes overlap - a
\* cleanup only while nobody uploads or imports - every row of evidence can be downloaded,
\* every batch in the history of imports has its original, and the findings of an import
\* have their batch.  Its buttons work, the re-import's as long as the original is there.
THEOREM RowsKeepTheirFiles == Spec => []FilesFollowRows
<1>1. ServicesInv => FilesFollowRows
  <2> SUFFICES ASSUME ServicesInv PROVE FilesFollowRows
    OBVIOUS
  <2>1. Evidence!RowsHaveFiles
    BY DEF ServicesInv, EvidenceInv, FilesConsistent, Evidence!RowsHaveFiles, Evidence!Served
  <2>2. CASE part = "imports"
    <3>1. HistoryTyped /\ BatchesKnown /\ (calm => OriginalsKept)
        BY <2>2 DEF ServicesInv, HistoryInv
    <3>2. Imports!BatchesHaveFiles
        BY <3>1 DEF BatchesKnown, OriginalsKept, Imports!BatchesHaveFiles
    <3>3. Imports!HistoryOffersWork
        BY <3>1 DEF BatchesKnown, OriginalsKept, Imports!HistoryOffersWork, Imports!ShowsReverse, Imports!ShowsReimport,
                    Imports!ShowsDeleteRecord, Imports!CanReverse, Imports!CanReimport, Imports!CanForget,
                    Imports!Reversed
    <3> QED
        BY <2>1, <3>2, <3>3 DEF FilesFollowRows
  <2>3. CASE part # "imports"
    <3>1. \A b \in Batches : ~Imports!Has(b) /\ Imports!FindingsOf(b) = {}
        BY <2>3, NamesAssumption DEF ServicesInv, Imports!Has, Imports!FindingsOf
    <3> QED
        BY <2>1, <3>1 DEF FilesFollowRows, Imports!BatchesHaveFiles, Imports!HistoryOffersWork, Imports!ShowsReverse,
                          Imports!ShowsReimport, Imports!ShowsDeleteRecord
  <2> QED
    BY <2>2, <2>3
<1> QED
    BY <1>1, StartsRight, StaysRight, PTL DEF Spec

\* No number a reversal took back is used again - by registrations, imports, re-imports,
\* and after the batch's record is gone - as long as no registration is overtaken.
THEOREM NumbersAreNotReissued == Spec => []NumbersStayRetired
<1>1. ServicesInv => NumbersStayRetired
    BY DEF ServicesInv, HistoryInv, NumbersRetired, NumbersStayRetired, Imports!NumbersStayRetired
<1> QED
    BY <1>1, StartsRight, StaysRight, PTL DEF Spec

-----------------------------------------------------------------------------
(* The throttling of logins                                                *)

\* Services counts as the throttle does.
LEMMA SameCount == \A S : Throttle!Cardinality(S) = Cardinality(S)
    BY Zenon DEF Cardinality, Throttle!Cardinality

\* The smaller of two numbers
LEMMA MinOfTwo ==
    ASSUME NEW a \in Int, NEW b \in Int
    PROVE  Throttle!Min({a, b}) = IF a <= b THEN a ELSE b
    BY DEF Throttle!Min

Keys == Throttle!Keys

Counter == [count : Nat, left : Int]
LoginStates ==
    {Throttle!Idle} \cup [is : {"admitted"}, account : Accounts]
        \cup [is : {"counted"}, attempts : SUBSET Keys, failures : SUBSET Keys, over : SUBSET Keys]

ThrottleShaped ==
    /\ failures \in [Keys -> Counter] /\ locked \in [Keys -> Nat]
    /\ login \in [Requests -> LoginStates]

\* The logins under way that will count against k; those that have, and are to
\* lock it; and whether one is to give its counter a time to live
Admitted(k) == {r \in Requests : login[r].is = "admitted" /\ k \in Throttle!Subjects(login[r].account)}
Over(k) == {r \in Requests : login[r].is = "counted" /\ k \in login[r].over}
Stamping(k) == \E r \in Requests : login[r].is = "counted" /\ k \in login[r].failures

\* While k is not locked, what it counts beyond its limit has yet to lock it;
\* once it is, only those still count that were admitted before.  The lock that
\* is set outlasts the counter.
CounterFits(k) ==
    /\ failures[k].count = 0 => failures[k] = Throttle!NoKey
    /\ failures[k].count > 0 =>
          \/ failures[k].left \in 1..Window[k]
          \/ failures[k].left = Throttle!NoExpiry /\ Stamping(k)
    /\ failures[k].count >= MaxFailures[k] =>
          /\ locked[k] = 0 => failures[k].count <= MaxFailures[k] - 1 + Cardinality(Over(k))
          /\ Over(k) = {} =>
                /\ failures[k].left <= locked[k]
                /\ Stamping(k) => locked[k] = Window[k]
    /\ locked[k] > 0 =>
          failures[k].count + Cardinality(Admitted(k)) <= MaxFailures[k] - 1 + Cardinality(Requests)

ThrottleInv ==
    /\ ThrottleShaped
    /\ calm \/ part # "logins" => \A k \in Keys : CounterFits(k)

\* What a login under way is
LEMMA LoginsShaped ==
    ASSUME ThrottleShaped, NEW r \in Requests
    PROVE  /\ login[r].is \in {"idle", "admitted", "counted"}
           /\ login[r].is = "idle" <=> login[r] = Throttle!Idle
           /\ login[r].is = "admitted" => login[r].account \in Accounts
           /\ login[r].is = "counted" =>
                 login[r].failures \in SUBSET Keys /\ login[r].over \in SUBSET Keys
    BY DEF ThrottleShaped, LoginStates, Throttle!Idle

\* The sets of logins are finite, apart, and no more than there are.
LEMMA LoginsCounted ==
    ASSUME NEW k \in Keys
    PROVE  /\ Cardinality(Requests) \in Nat /\ Cardinality(Admitted(k)) \in Nat /\ Cardinality(Over(k)) \in Nat
           /\ IsFiniteSet(Admitted(k)) /\ IsFiniteSet(Over(k))
           /\ Cardinality(Admitted(k)) + Cardinality(Over(k)) <= Cardinality(Requests)
<1>1. /\ Admitted(k) \in SUBSET Requests /\ Over(k) \in SUBSET Requests
      /\ Admitted(k) \cup Over(k) \in SUBSET Requests
      /\ Admitted(k) \cap Over(k) = {}
    BY DEF Admitted, Over
<1>2. /\ IsFiniteSet(Requests) /\ IsFiniteSet(Admitted(k)) /\ IsFiniteSet(Over(k))
      /\ Cardinality(Admitted(k) \cup Over(k)) <= Cardinality(Requests)
    BY <1>1, LimitsAssumption, FS_Subset
<1>3. /\ Cardinality(Requests) \in Nat /\ Cardinality(Admitted(k)) \in Nat /\ Cardinality(Over(k)) \in Nat
    BY <1>2, FS_CardinalityType
<1>4. Cardinality(Admitted(k) \cup Over(k)) =
          Cardinality(Admitted(k)) + Cardinality(Over(k)) - Cardinality(Admitted(k) \cap Over(k))
    BY <1>2, FS_Union
<1>5. Cardinality(Admitted(k) \cap Over(k)) = 0
    BY <1>1, FS_EmptySet
<1> QED
    BY <1>2, <1>3, <1>4, <1>5

\* Admitting a login that will count against k finds k unlocked.
LEMMA AdmitFits ==
    ASSUME ThrottleShaped, NEW r \in Requests, NEW a \in Accounts, Throttle!Admit(r, a)
    PROVE  ThrottleShaped' /\ \A k \in Keys : CounterFits(k) => CounterFits(k)'
<1>1. /\ UNCHANGED <<failures, locked>> /\ login[r] = Throttle!Idle
      /\ login' = [login EXCEPT ![r] = [is |-> "admitted", account |-> a]]
      /\ \A k \in Throttle!Subjects(a) : locked[k] <= 0
    BY DEF Throttle!Admit, Throttle!IsLocked, ThrottleShaped, Throttle!Subjects, Keys, Throttle!Keys
<1>2. PICK it : it = [is |-> "admitted", account |-> a]
    OBVIOUS
<1>3. it \in LoginStates /\ it.is = "admitted" /\ it.account = a
    BY <1>2 DEF LoginStates
<1>4. ThrottleShaped'
    BY <1>1, <1>2, <1>3 DEF ThrottleShaped
<1>5. login[r].is = "idle" /\ login'[r] = it /\ \A q \in Requests \ {r} : login'[q] = login[q]
    BY <1>1, <1>2 DEF ThrottleShaped, Throttle!Idle
<1>6. ASSUME NEW k \in Keys, CounterFits(k)
      PROVE  CounterFits(k)'
    <2>1. Over(k)' = Over(k) /\ (Stamping(k)' <=> Stamping(k))
        BY <1>3, <1>5 DEF Over, Stamping
    <2>2. k \in Throttle!Subjects(a) => locked[k] = 0
        BY <1>1, <1>6 DEF ThrottleShaped
    <2>3. k \notin Throttle!Subjects(a) => Admitted(k)' = Admitted(k)
        BY <1>3, <1>5 DEF Admitted
    <2>4. locked[k] > 0 => Admitted(k)' = Admitted(k)
        BY <2>2, <2>3
    <2> QED
        BY <1>1, <1>6, <2>1, <2>4 DEF CounterFits
<1> QED
    BY <1>4, <1>6

\* What counting a wrong password makes of one counter
LEMMA CountedUp ==
    ASSUME ThrottleShaped, NEW keys \in SUBSET Keys, NEW k \in keys,
           NEW it, it = Throttle!Counters(failures, keys)
    PROVE  /\ it[k] \in Counter /\ it[k].count > 0 /\ it[k].count <= failures[k].count + 1
           /\ it[k].left = IF failures[k] = Throttle!NoKey THEN Throttle!NoExpiry ELSE failures[k].left
<1>1. failures[k].count \in Nat /\ failures[k].left \in Int
    BY DEF ThrottleShaped, Counter
<1>2. PICK m : m = Throttle!Min({failures[k].count + 1, MaxCount})
    OBVIOUS
<1>3. m \in Nat /\ m > 0 /\ m <= failures[k].count + 1
    <2>1. PICK n \in Nat : n = failures[k].count
        BY <1>1
    <2>2. PICK p \in Nat : p = n + 1
        BY <2>1
    <2>3. MaxCount \in Nat /\ MaxCount > 0
        BY LimitsAssumption
    <2>4. m = IF p <= MaxCount THEN p ELSE MaxCount
        BY <1>2, <2>1, <2>2, <2>3, MinOfTwo
    <2> QED
        BY <2>1, <2>2, <2>3, <2>4
<1>4. PICK l : l = IF failures[k] = Throttle!NoKey THEN Throttle!NoExpiry ELSE failures[k].left
    OBVIOUS
<1>5. l \in Int
    BY <1>1, <1>4 DEF Throttle!NoExpiry
<1>6. it[k] = [count |-> m, left |-> l]
    BY <1>2, <1>4, Zenon DEF Throttle!Counters, Keys
<1> QED
    BY <1>3, <1>4, <1>5, <1>6 DEF Counter

\* Counting a wrong password
LEMMA CountFits ==
    ASSUME ThrottleShaped, NEW r \in Requests, Throttle!Count(r)
    PROVE  ThrottleShaped' /\ \A k \in Keys : CounterFits(k) => CounterFits(k)'
<1>1. PICK keys : keys = Throttle!Subjects(login[r].account)
    OBVIOUS
<1>2. login[r].is = "admitted" /\ keys \in SUBSET Keys
    BY <1>1, LoginsShaped DEF Throttle!Count, Throttle!Subjects, Keys, Throttle!Keys
<1>3. PICK it :
          it = [is |-> "counted",
                attempts |-> {k \in keys : attempts[k].count = 0},
                failures |-> {k \in keys : failures[k].count = 0},
                over |-> {k \in keys : failures[k].count + 1 >= MaxFailures[k]}]
    OBVIOUS
<1>4. /\ it \in LoginStates /\ it.is = "counted"
      /\ it.failures = {k \in keys : failures[k].count = 0}
      /\ it.over = {k \in keys : failures[k].count + 1 >= MaxFailures[k]}
    BY <1>2, <1>3 DEF LoginStates
<1>5. /\ UNCHANGED locked
      /\ failures' = Throttle!Counters(failures, keys)
      /\ login' = [login EXCEPT ![r] = it]
    BY <1>1, <1>3, Zenon DEF Throttle!Count
<1>6. login'[r] = it /\ \A q \in Requests \ {r} : login'[q] = login[q]
    BY <1>5 DEF ThrottleShaped
<1>7. /\ \A k \in Keys \ keys : failures'[k] = failures[k]
      /\ failures' = [k \in Keys |-> failures'[k]]
    BY <1>5, Zenon DEF Throttle!Counters, Keys
<1>8. \A k \in keys :
          /\ failures'[k] \in Counter /\ failures'[k].count > 0 /\ failures'[k].count <= failures[k].count + 1
          /\ failures'[k].left = IF failures[k] = Throttle!NoKey THEN Throttle!NoExpiry ELSE failures[k].left
    BY <1>2, <1>5, CountedUp
<1>9. ThrottleShaped'
    <2>1. failures' \in [Keys -> Counter]
        BY <1>7, <1>8 DEF ThrottleShaped
    <2> QED
        BY <1>4, <1>5, <2>1 DEF ThrottleShaped
<1>10. ASSUME NEW k \in Keys \ keys, CounterFits(k)
       PROVE  CounterFits(k)'
    <2>1. Over(k)' = Over(k) /\ (Stamping(k)' <=> Stamping(k)) /\ Admitted(k)' = Admitted(k)
        BY <1>1, <1>2, <1>4, <1>6, <1>10 DEF Over, Stamping, Admitted
    <2> QED
        BY <1>5, <1>7, <1>10, <2>1 DEF CounterFits
<1>11. ASSUME NEW k \in keys, CounterFits(k)
       PROVE  CounterFits(k)'
    <2>1. k \in Keys /\ MaxFailures[k] \in Nat /\ MaxFailures[k] > 0 /\ failures[k] \in Counter /\ locked[k] \in Nat
        BY <1>2, <1>11, LimitsAssumption DEF ThrottleShaped, Keys
    <2>2. Admitted(k)' = Admitted(k) \ {r} /\ r \in Admitted(k)
        BY <1>1, <1>2, <1>4, <1>6 DEF Admitted
    <2>3. Cardinality(Admitted(k)') = Cardinality(Admitted(k)) - 1
        BY <2>1, <2>2, LoginsCounted, FS_RemoveElement
    <2>4. r \notin Over(k) /\ Over(k)' = IF k \in it.over THEN Over(k) \cup {r} ELSE Over(k)
        BY <1>2, <1>4, <1>6 DEF Over
    <2>5. k \in it.over => Cardinality(Over(k)') = Cardinality(Over(k)) + 1 /\ Over(k)' # {}
        BY <2>1, <2>4, LoginsCounted, FS_AddElement
    <2>6. k \in it.over <=> failures[k].count + 1 >= MaxFailures[k]
        BY <1>4, <1>11
    <2>7. Stamping(k) => Stamping(k)'
        BY <1>2, <1>6 DEF Stamping
    <2>8. failures[k].count = 0 => Stamping(k)'
        BY <1>4, <1>6, <1>11 DEF Stamping
    <2>9. /\ failures[k].count \in Nat
          /\ failures[k] # Throttle!NoKey => failures[k].count > 0
        BY <1>11, <2>1 DEF Counter, CounterFits
    <2>10. \/ failures'[k].left \in 1..Window[k]
           \/ failures'[k].left = Throttle!NoExpiry /\ Stamping(k)'
        <3>1. CASE failures[k] = Throttle!NoKey
            BY <1>8, <1>11, <2>8, <3>1 DEF Throttle!NoKey
        <3>2. CASE failures[k] # Throttle!NoKey
            BY <1>8, <1>11, <2>7, <2>9, <3>2 DEF CounterFits
        <3> QED
            BY <3>1, <3>2
    <2>11. /\ failures'[k].count \in Nat /\ failures'[k].count > 0
           /\ failures'[k].count <= failures[k].count + 1
        BY <1>8, <1>11 DEF Counter
    <2>12. PICK c, n, m, of, was, now, out, will \in Nat :
              /\ c = failures[k].count /\ n = failures'[k].count
              /\ m = MaxFailures[k] /\ of = Cardinality(Requests)
              /\ was = Cardinality(Admitted(k)) /\ now = Cardinality(Admitted(k)')
              /\ out = Cardinality(Over(k)) /\ will = Cardinality(Over(k)')
        <3>1. /\ Cardinality(Admitted(k)) \in Nat /\ Cardinality(Over(k)) \in Nat
              /\ Cardinality(Requests) \in Nat
            BY <2>1, LoginsCounted
        <3>2. Cardinality(Admitted(k)') \in Nat
            BY <2>1, <2>2, LoginsCounted, FS_RemoveElement, FS_CardinalityType
        <3>3. Cardinality(Over(k)') \in Nat
            BY <2>4, <2>5, <3>1
        <3> QED
            BY <2>1, <2>9, <2>11, <3>1, <3>2, <3>3
    <2>13. n >= m => k \in it.over
        BY <2>6, <2>11, <2>12
    <2>14. locked[k] = 0 /\ n >= m => n <= m - 1 + will
        <3>1. c >= m /\ locked[k] = 0 => c <= m - 1 + out
            BY <1>11, <2>12 DEF CounterFits
        <3>2. n >= m => will = out + 1
            BY <2>5, <2>12, <2>13
        <3>3. n <= c + 1 /\ m > 0
            BY <2>1, <2>11, <2>12
        <3> QED
            BY <2>12, <3>1, <3>2, <3>3
    <2>15. locked[k] > 0 => n + now <= m - 1 + of
        <3>1. locked[k] > 0 => c + was <= m - 1 + of
            BY <1>11, <2>12 DEF CounterFits
        <3>2. now = was - 1 /\ n <= c + 1
            BY <2>3, <2>11, <2>12
        <3> QED
            BY <2>12, <3>1, <3>2
    <2>16. n >= m => Over(k)' # {}
        BY <2>5, <2>13
    <2> QED
        BY <1>5, <2>10, <2>11, <2>12, <2>14, <2>15, <2>16 DEF CounterFits
<1> QED
    BY <1>9, <1>10, <1>11

\* What follows the count: the new counters get their time to live, and the
\* keys over their limit are locked.
LEMMA FollowUpFits ==
    ASSUME ThrottleShaped, NEW r \in Requests, Throttle!FollowUp(r)
    PROVE  ThrottleShaped' /\ \A k \in Keys : CounterFits(k) => CounterFits(k)'
<1>1. PICK fresh, over : fresh = login[r].failures /\ over = login[r].over
    OBVIOUS
<1>2. login[r].is = "counted" /\ fresh \in SUBSET Keys /\ over \in SUBSET Keys
    BY <1>1, LoginsShaped DEF Throttle!FollowUp
<1>3. /\ failures' = Throttle!Stamped(failures, fresh, Window)
      /\ locked' = [k \in Keys |-> IF k \in over THEN Window[k] ELSE locked[k]]
      /\ login' = [login EXCEPT ![r] = Throttle!Idle]
    BY <1>1, Zenon DEF Throttle!FollowUp, Keys
<1>4. login'[r].is = "idle" /\ \A q \in Requests \ {r} : login'[q] = login[q]
    BY <1>3 DEF ThrottleShaped, Throttle!Idle
<1>5. failures' = [k \in Keys |-> failures'[k]]
    BY <1>3, Zenon DEF Throttle!Stamped, Keys
<1>6. ASSUME NEW k \in Keys
      PROVE  failures'[k] = IF k \in fresh /\ failures[k] # Throttle!NoKey
                            THEN [failures[k] EXCEPT !.left = Window[k]] ELSE failures[k]
    BY <1>3, <1>6, Zenon DEF Throttle!Stamped, Keys
<1>7. ASSUME NEW k \in Keys
      PROVE  /\ failures[k] \in Counter /\ failures'[k] \in Counter
             /\ failures'[k].count = failures[k].count
             /\ failures'[k].left = IF k \in fresh /\ failures[k] # Throttle!NoKey
                                    THEN Window[k] ELSE failures[k].left
             /\ failures[k] = Throttle!NoKey => failures'[k] = failures[k]
             /\ Window[k] \in Nat /\ Window[k] > 0 /\ locked[k] \in Nat
    <2>1. PICK c : c = failures[k]
        OBVIOUS
    <2>2. c \in Counter
        BY <1>7, <2>1 DEF ThrottleShaped
    <2>3. Window[k] \in Nat /\ Window[k] > 0 /\ locked[k] \in Nat
        BY <1>7, LimitsAssumption DEF Keys, ThrottleShaped
    <2>4. CASE k \in fresh /\ failures[k] # Throttle!NoKey
        <3>1. PICK w \in Nat : w = Window[k]
            BY <2>3
        <3>2. failures'[k] = [c EXCEPT !.left = w]
            BY <1>6, <1>7, <2>1, <2>4, <3>1
        <3>3. [c EXCEPT !.left = w] \in Counter /\ [c EXCEPT !.left = w].count = c.count
                  /\ [c EXCEPT !.left = w].left = w
            BY <2>2 DEF Counter
        <3> QED
            BY <2>1, <2>2, <2>3, <2>4, <3>1, <3>2, <3>3
    <2>5. CASE ~(k \in fresh /\ failures[k] # Throttle!NoKey)
        <3>1. failures'[k] = failures[k]
            BY <1>6, <1>7, <2>5
        <3> QED
            BY <2>1, <2>2, <2>3, <2>5, <3>1
    <2> QED
        BY <2>4, <2>5
<1>8. ThrottleShaped'
    <2>1. failures' \in [Keys -> Counter]
        BY <1>5, <1>7
    <2>2. locked' \in [Keys -> Nat]
        BY <1>3, <1>7
    <2>3. login' \in [Requests -> LoginStates]
        BY <1>3 DEF ThrottleShaped, LoginStates
    <2> QED
        BY <2>1, <2>2, <2>3 DEF ThrottleShaped
<1>9. ASSUME NEW k \in Keys, CounterFits(k)
      PROVE  CounterFits(k)'
    <2>1. Admitted(k)' = Admitted(k) /\ Over(k)' = Over(k) \ {r} /\ (r \in Over(k) <=> k \in over)
        BY <1>1, <1>2, <1>4 DEF Over, Admitted
    <2>2. /\ Stamping(k)' => Stamping(k)
          /\ Stamping(k) => Stamping(k)' \/ k \in fresh
        BY <1>1, <1>2, <1>4 DEF Stamping
    <2>3. locked'[k] = IF k \in over THEN Window[k] ELSE locked[k]
        BY <1>3, <1>9
    <2>4. k \notin over => Over(k)' = Over(k)
        BY <2>1
    <2>5. /\ failures'[k].count = 0 => failures'[k] = Throttle!NoKey
          /\ failures'[k].count > 0 =>
                \/ failures'[k].left \in 1..Window[k]
                \/ failures'[k].left = Throttle!NoExpiry /\ Stamping(k)'
        <3>1. failures[k].count > 0 => failures[k] # Throttle!NoKey
            BY DEF Throttle!NoKey
        <3> QED
            BY <1>7, <1>9, <2>2, <3>1 DEF CounterFits
    <2>61. PICK of, was, out \in Int :
              of = Cardinality(Requests) /\ was = Cardinality(Admitted(k)) /\ out = Cardinality(Over(k))
        BY LoginsCounted
    <2>62. PICK m, w, old \in Int : m = MaxFailures[k] /\ w = Window[k] /\ old = locked[k]
        BY <1>7, <1>9, LimitsAssumption DEF Keys
    <2>63. PICK c, t \in Int : c = failures[k].count /\ t = failures'[k].left
        BY <1>7, <1>9 DEF Counter
    <2>6. /\ c = failures[k].count /\ m = MaxFailures[k] /\ of = Cardinality(Requests)
          /\ was = Cardinality(Admitted(k)) /\ out = Cardinality(Over(k))
          /\ w = Window[k] /\ old = locked[k] /\ t = failures'[k].left
        BY <2>61, <2>62, <2>63
    <2>7. m > 0 /\ old >= 0 /\ w > 0 /\ c >= 0 /\ was + out <= of /\ out >= 0
        <3>1. m > 0
            BY <2>6, LimitsAssumption DEF Keys
        <3>2. c >= 0
            BY <1>7, <2>6 DEF Counter
        <3>3. was + out <= of /\ out >= 0
            BY <2>6, LoginsCounted
        <3> QED
            BY <1>7, <2>6, <3>1, <3>2, <3>3
    <2>8. c > 0 => t <= w
        BY <1>7, <2>5, <2>6 DEF Throttle!NoExpiry
    <2>9. c >= m => (old = 0 => c <= m - 1 + out)
        BY <1>9, <2>6 DEF CounterFits
    <2>10. old > 0 => c + was <= m - 1 + of
        BY <1>9, <2>6 DEF CounterFits
    <2>11. ASSUME k \in over
           PROVE  CounterFits(k)'
        <3>1. c + was <= m - 1 + of
            BY <2>6, <2>7, <2>9, <2>10
        <3> QED
            BY <1>7, <1>9, <2>1, <2>3, <2>5, <2>6, <2>7, <2>8, <2>11, <3>1 DEF CounterFits
    <2>12. ASSUME k \notin over
           PROVE  CounterFits(k)'
        <3>1. ASSUME c >= m, Over(k) = {}
              PROVE  t <= old /\ (Stamping(k)' => old = w)
            <4>1. failures[k].left <= old /\ (Stamping(k) => old = w)
                BY <1>9, <2>6, <3>1 DEF CounterFits
            <4>2. k \in fresh => Stamping(k)
                BY <1>1, <1>2 DEF Stamping
            <4> QED
                BY <1>7, <2>2, <2>6, <4>1, <4>2
        <3> QED
            BY <1>7, <1>9, <2>1, <2>3, <2>4, <2>5, <2>6, <2>9, <2>10, <2>12, <3>1 DEF CounterFits
    <2> QED
        BY <2>11, <2>12
<1> QED
    BY <1>8, <1>9

\* The right password forgives the account, and counts against nobody.
LEMMA SucceedFits ==
    ASSUME ThrottleShaped, NEW r \in Requests, Throttle!Succeed(r)
    PROVE  ThrottleShaped' /\ \A k \in Keys : CounterFits(k) => CounterFits(k)'
<1>1. PICK a : a = login[r].account
    OBVIOUS
<1>2. login[r].is = "admitted" /\ a \in Keys
    BY <1>1, LoginsShaped DEF Throttle!Succeed, Keys, Throttle!Keys
<1>3. /\ failures' = [failures EXCEPT ![a] = Throttle!NoKey]
      /\ locked' = [locked EXCEPT ![a] = 0]
      /\ login' = [login EXCEPT ![r] = Throttle!Idle]
    BY <1>1, Zenon DEF Throttle!Succeed
<1>4. login'[r].is = "idle" /\ \A q \in Requests \ {r} : login'[q] = login[q]
    BY <1>3 DEF ThrottleShaped, Throttle!Idle
<1>5. ThrottleShaped'
    <2>1. Throttle!NoKey \in Counter /\ Throttle!Idle \in LoginStates
        BY DEF Throttle!NoKey, Counter, LoginStates
    <2>2. failures' \in [Keys -> Counter] /\ login' \in [Requests -> LoginStates]
        BY <1>3, <2>1, Zenon DEF ThrottleShaped
    <2>3. locked' \in [Keys -> Nat]
        BY <1>3 DEF ThrottleShaped
    <2> QED
        BY <2>2, <2>3 DEF ThrottleShaped
<1>6. ASSUME NEW k \in Keys, CounterFits(k)
      PROVE  CounterFits(k)'
    <2>1. CASE k = a
        <3>1. failures'[k] = Throttle!NoKey /\ locked'[k] = 0
            BY <1>2, <1>3, <2>1 DEF ThrottleShaped
        <3>2. MaxFailures[k] \in Nat \ {0}
            BY LimitsAssumption DEF Keys
        <3> QED
            BY <3>1, <3>2 DEF CounterFits, Throttle!NoKey
    <2>2. CASE k # a
        <3>1. failures'[k] = failures[k] /\ locked'[k] = locked[k]
            BY <1>3, <2>2 DEF ThrottleShaped
        <3>2. Over(k)' = Over(k) /\ (Stamping(k)' <=> Stamping(k)) /\ Admitted(k)' \in SUBSET Admitted(k)
            BY <1>2, <1>4 DEF Over, Stamping, Admitted
        <3>3. Cardinality(Admitted(k)') <= Cardinality(Admitted(k))
            BY <3>2, LoginsCounted, FS_Subset
        <3>4. Cardinality(Admitted(k)') \in Nat /\ Cardinality(Admitted(k)) \in Nat
            BY <3>2, LoginsCounted, FS_Subset, FS_CardinalityType
        <3>5. PICK c, m \in Int : c = failures[k].count /\ m = MaxFailures[k]
            BY LimitsAssumption DEF ThrottleShaped, Counter, Keys
        <3>6. PICK of, was, now \in Int :
                  of = Cardinality(Requests) /\ was = Cardinality(Admitted(k)) /\ now = Cardinality(Admitted(k)')
            BY <3>4, LoginsCounted
        <3>7. locked[k] > 0 => c + was <= m - 1 + of
            BY <1>6, <3>5, <3>6 DEF CounterFits
        <3>8. locked[k] > 0 => c + now <= m - 1 + of
            BY <3>3, <3>5, <3>6, <3>7
        <3> QED
            BY <1>6, <3>1, <3>2, <3>5, <3>6, <3>8 DEF CounterFits
    <2> QED
        BY <2>1, <2>2
<1> QED
    BY <1>5, <1>6

\* Time passes when no login is between its count and what follows from it: a
\* counter at its limit goes before its lock does.
LEMMA TickFits ==
    ASSUME ThrottleShaped, Throttle!Tick
    PROVE  ThrottleShaped' /\ \A k \in Keys : CounterFits(k) => CounterFits(k)'
<1>1. /\ \A r \in Requests : login[r].is # "counted"
      /\ failures' = Throttle!Elapsed(failures) /\ locked' = Throttle!LocksElapsed
      /\ login' = login
    BY DEF Throttle!Tick
<1>2. failures' = [k \in Keys |-> failures'[k]]
    BY <1>1, Zenon DEF Throttle!Elapsed, Keys
<1>3. locked' = [k \in Keys |-> IF locked[k] = 0 THEN 0 ELSE locked[k] - 1]
    BY <1>1 DEF Throttle!LocksElapsed, Keys
<1>4. ASSUME NEW k \in Keys
      PROVE  failures'[k] = IF failures[k].left = 1 THEN Throttle!NoKey
                            ELSE IF failures[k].left > 1 THEN [failures[k] EXCEPT !.left = @ - 1]
                            ELSE failures[k]
    BY <1>1, <1>4, Zenon DEF Throttle!Elapsed, Keys
<1>5. ASSUME NEW k \in Keys
      PROVE  /\ failures[k] \in Counter /\ failures'[k] \in Counter
             /\ failures[k].left = 1 => failures'[k] = Throttle!NoKey
             /\ failures[k].left > 1 =>
                   failures'[k].count = failures[k].count /\ failures'[k].left = failures[k].left - 1
             /\ failures[k].left < 1 => failures'[k] = failures[k]
    <2>1. PICK c, l : c = failures[k] /\ l = c.left
        OBVIOUS
    <2>2. c \in Counter /\ l \in Int
        BY <1>5, <2>1 DEF ThrottleShaped, Counter
    <2>3. CASE l = 1
        <3>1. failures'[k] = Throttle!NoKey
            BY <1>4, <1>5, <2>1, <2>3
        <3>2. Throttle!NoKey \in Counter
            BY DEF Throttle!NoKey, Counter
        <3> QED
            BY <2>1, <2>2, <2>3, <3>1, <3>2
    <2>4. CASE l > 1
        <3>1. failures'[k] = [c EXCEPT !.left = l - 1]
            BY <1>4, <1>5, <2>1, <2>2, <2>4
        <3>2. PICK n \in Int : n = l - 1
            BY <2>2
        <3>3. [c EXCEPT !.left = n] \in Counter /\ [c EXCEPT !.left = n].count = c.count
                  /\ [c EXCEPT !.left = n].left = n
            BY <2>2 DEF Counter
        <3> QED
            BY <2>1, <2>2, <2>4, <3>1, <3>2, <3>3
    <2>5. CASE l < 1
        <3>1. ~(failures[k].left = 1) /\ ~(failures[k].left > 1)
            BY <2>1, <2>2, <2>5
        <3>2. failures'[k] = failures[k]
            BY <1>4, <1>5, <3>1, Zenon
        <3> QED
            BY <2>1, <2>2, <2>5, <3>2
    <2> QED
        BY <2>1, <2>2, <2>3, <2>4, <2>5
<1>6. ThrottleShaped'
    <2>1. failures' \in [Keys -> Counter]
        BY <1>2, <1>5
    <2>2. \A k \in Keys : locked[k] \in Nat
        BY DEF ThrottleShaped
    <2>3. locked' \in [Keys -> Nat]
        BY <1>3, <2>2
    <2>4. login' \in [Requests -> LoginStates]
        BY <1>1 DEF ThrottleShaped
    <2> QED
        BY <2>1, <2>3, <2>4 DEF ThrottleShaped
<1>7. ASSUME NEW k \in Keys, CounterFits(k)
      PROVE  CounterFits(k)'
    <2>1. Over(k)' = {} /\ Over(k) = {} /\ ~Stamping(k) /\ ~Stamping(k)' /\ Admitted(k)' = Admitted(k)
        BY <1>1 DEF Over, Stamping, Admitted
    <2>21. PICK w, m, old \in Int : w = Window[k] /\ m = MaxFailures[k] /\ old = locked[k]
        BY LimitsAssumption DEF ThrottleShaped, Keys
    <2>22. PICK c, l \in Int : c = failures[k].count /\ l = failures[k].left
        BY DEF ThrottleShaped, Counter
    <2>2. /\ c = failures[k].count /\ l = failures[k].left
          /\ w = Window[k] /\ m = MaxFailures[k] /\ old = locked[k]
        BY <2>21, <2>22
    <2>3. c >= 0 /\ w > 0 /\ m > 0 /\ old >= 0
        BY <2>2, LimitsAssumption DEF ThrottleShaped, Counter, Keys
    <2>4. /\ c = 0 => failures[k] = Throttle!NoKey
          /\ c > 0 => l >= 1 /\ l <= w
          /\ c >= m => l <= old
          /\ old > 0 => c + Cardinality(Admitted(k)) <= m - 1 + Cardinality(Requests)
        BY <1>7, <2>1, <2>2 DEF CounterFits
    <2>5. locked'[k] = IF old = 0 THEN 0 ELSE old - 1
        BY <1>3, <2>2
    <2>6. CASE failures'[k] = Throttle!NoKey
        <3>1. failures'[k].count = 0
            BY <2>6 DEF Throttle!NoKey
        <3>2. PICK of, was \in Int : of = Cardinality(Requests) /\ was = Cardinality(Admitted(k)) /\ was <= of
            <4>1. Cardinality(Admitted(k)) <= Cardinality(Requests)
                BY LoginsCounted
            <4> QED
                BY <4>1, LoginsCounted
        <3> QED
            BY <2>1, <2>2, <2>3, <2>6, <3>1, <3>2 DEF CounterFits
    <2>7. CASE failures'[k] # Throttle!NoKey
        <3>1. l > 1
            BY <1>5, <2>2, <2>3, <2>4, <2>7 DEF Throttle!NoKey
        <3>2. failures'[k].count = c /\ failures'[k].left = l - 1
            BY <1>5, <2>2, <3>1
        <3>3. c > 0
            BY <2>2, <2>3, <2>4, <3>1 DEF Throttle!NoKey
        <3> QED
            BY <2>1, <2>2, <2>3, <2>4, <2>5, <3>1, <3>2, <3>3 DEF CounterFits
    <2> QED
        BY <2>6, <2>7
<1> QED
    BY <1>6, <1>7

\* Every step of the logins keeps their counters in order.
LEMMA ThrottleStep ==
    ASSUME ThrottleInv, part = "logins", part' = part, Throttle!ThrottleNext
    PROVE  ThrottleInv'
<1>1. ThrottleShaped /\ (calm => \A k \in Keys : CounterFits(k))
    BY DEF ThrottleInv
<1>2. ASSUME calm' = calm, ThrottleShaped', \A k \in Keys : CounterFits(k) => CounterFits(k)'
      PROVE  ThrottleInv'
    BY <1>1, <1>2 DEF ThrottleInv
<1>3. ASSUME NEW r \in Requests, NEW a \in Accounts, Throttle!Admit(r, a)
      PROVE  ThrottleInv'
    <2>1. calm' = calm
        BY <1>3 DEF Throttle!Admit
    <2> QED
        BY <1>1, <1>2, <1>3, <2>1, AdmitFits
<1>4. ASSUME NEW r \in Requests, Throttle!Count(r)
      PROVE  ThrottleInv'
    <2>1. calm' = calm
        BY <1>4 DEF Throttle!Count
    <2> QED
        BY <1>1, <1>2, <1>4, <2>1, CountFits
<1>5. ASSUME NEW r \in Requests, Throttle!FollowUp(r)
      PROVE  ThrottleInv'
    <2>1. calm' = calm
        BY <1>5 DEF Throttle!FollowUp
    <2> QED
        BY <1>1, <1>2, <1>5, <2>1, FollowUpFits
<1>6. ASSUME NEW r \in Requests, Throttle!Succeed(r)
      PROVE  ThrottleInv'
    <2>1. calm' = calm
        BY <1>6 DEF Throttle!Succeed
    <2> QED
        BY <1>1, <1>2, <1>6, <2>1, SucceedFits
<1>7. CASE Throttle!Tick
    <2>1. calm' = calm
        BY <1>7 DEF Throttle!Tick
    <2> QED
        BY <1>1, <1>2, <1>7, <2>1, TickFits
<1>8. CASE Throttle!Stop
    <2>1. /\ ~calm' /\ UNCHANGED <<failures, locked>>
          /\ login' = [r \in Requests |-> Throttle!Idle]
        BY <1>8 DEF Throttle!Stop
    <2>2. ThrottleShaped'
        BY <1>1, <2>1 DEF ThrottleShaped, LoginStates
    <2> QED
        BY <2>1, <2>2 DEF ThrottleInv
<1> QED
    BY <1>3, <1>4, <1>5, <1>6, <1>7, <1>8 DEF Throttle!ThrottleNext

-----------------------------------------------------------------------------
(* The reminders                                                           *)

WaitingRow == [waits : BOOLEAN, idle : 0..Threshold, since : 0..Threshold]

\* Whoever may not be reminded of for so long was reminded of so long ago.
QuietFollowsLast ==
    \A f \in Waiting : quiet[f] > 0 => finding[f].since + quiet[f] <= Threshold

RemindersFit ==
    /\ finding \in [Waiting -> WaitingRow] /\ quiet \in [Waiting -> Nat]
    /\ poll \in [Pollers -> {Reminding!Idle, [is |-> "due"]}]
    /\ early = {} /\ QuietFollowsLast

RemindersInv == calm \/ part # "reminders" => RemindersFit

\* An age grows by a tick, up to where no rule looks further.
LEMMA Ageing ==
    ASSUME NEW age \in 0..Threshold
    PROVE  Reminding!Aged(age, Threshold) \in 0..Threshold /\ Reminding!Aged(age, Threshold) <= age + 1
<1>1. PICK n \in Nat : n = age
    OBVIOUS
<1>2. PICK m \in Nat : m = n + 1
    OBVIOUS
<1>3. Threshold \in Nat /\ n <= Threshold
    BY <1>1, LimitsAssumption
<1>4. Reminding!Aged(age, Threshold) = IF m <= Threshold THEN m ELSE Threshold
    BY <1>1, <1>2, <1>3 DEF Reminding!Aged, Reminding!Min
<1> QED
    BY <1>1, <1>2, <1>3, <1>4

\* A scan reminds of nothing that is still quiet.
LEMMA ScanFits ==
    ASSUME RemindersFit, Reminding!Scan(finding, settings)
    PROVE  /\ finding' \in [Waiting -> WaitingRow] /\ quiet' \in [Waiting -> Nat]
           /\ early' = {} /\ QuietFollowsLast'
<1>1. CASE ~Reminding!ScanDue(settings)
    <2>1. UNCHANGED <<finding, quiet, early>>
        BY <1>1 DEF Reminding!Scan
    <2> QED
        BY <2>1 DEF RemindersFit, QuietFollowsLast
<1>2. CASE Reminding!ScanDue(settings)
    <2>1. PICK due : due = Reminding!Due(finding)
        OBVIOUS
    <2>2. PICK told : told = IF staffed THEN due ELSE {}
        OBVIOUS
    <2>3. /\ finding' = [f \in Waiting |-> IF f \in due THEN [finding[f] EXCEPT !.since = 0] ELSE finding[f]]
          /\ quiet' = [f \in Waiting |-> IF f \in told THEN Threshold ELSE quiet[f]]
          /\ early' = early \cup {f \in told : quiet[f] > 0}
        BY <1>2, <2>1, <2>2, Zenon DEF Reminding!Scan
    <2>4. told \in SUBSET due /\ due \in SUBSET Waiting /\ \A f \in due : finding[f].since >= Threshold
        BY <2>1, <2>2 DEF Reminding!Due
    <2>5. Threshold \in Nat
        BY LimitsAssumption
    <2>6. ASSUME NEW f \in Waiting
          PROVE  /\ finding'[f] \in WaitingRow
                 /\ finding'[f].since = IF f \in due THEN 0 ELSE finding[f].since
                 /\ quiet'[f] \in Nat /\ quiet[f] \in Nat /\ finding[f].since \in Nat
                 /\ quiet[f] > 0 => finding[f].since + quiet[f] <= Threshold
        <3>1. PICK old : old = finding[f]
            OBVIOUS
        <3>2. old \in WaitingRow
            BY <2>6, <3>1 DEF RemindersFit
        <3>3. finding'[f] = IF f \in due THEN [old EXCEPT !.since = 0] ELSE old
            BY <2>3, <2>6, <3>1
        <3>4. [old EXCEPT !.since = 0] \in WaitingRow /\ [old EXCEPT !.since = 0].since = 0
            BY <2>5, <3>2 DEF WaitingRow
        <3>5. finding'[f] \in WaitingRow /\ finding'[f].since = IF f \in due THEN 0 ELSE finding[f].since
            BY <3>1, <3>2, <3>3, <3>4
        <3>6. quiet'[f] \in Nat /\ quiet[f] \in Nat
            BY <2>3, <2>5, <2>6 DEF RemindersFit
        <3>7. finding[f].since \in Nat
            BY <3>1, <3>2 DEF WaitingRow
        <3> QED
            BY <2>6, <3>5, <3>6, <3>7 DEF RemindersFit, QuietFollowsLast
    <2>7. finding' \in [Waiting -> WaitingRow] /\ quiet' \in [Waiting -> Nat]
        BY <2>3, <2>6
    <2>8. \A f \in told : ~(quiet[f] > 0)
        BY <2>4, <2>5, <2>6
    <2>9. early' = {}
        BY <2>3, <2>8 DEF RemindersFit
    <2>10. ASSUME NEW f \in Waiting, quiet'[f] > 0
           PROVE  finding'[f].since + quiet'[f] <= Threshold
        <3>1. quiet'[f] = IF f \in told THEN Threshold ELSE quiet[f]
            BY <2>3, <2>10
        <3> QED
            BY <2>4, <2>5, <2>6, <2>10, <3>1
    <2> QED
        BY <2>7, <2>9, <2>10 DEF QuietFollowsLast
<1> QED
    BY <1>1, <1>2

\* Work on a finding leaves alone when it was reminded of last.
LEMMA WorkFits ==
    ASSUME RemindersFit, NEW f \in Waiting, NEW waits \in BOOLEAN, Reminding!Work(f, waits)
    PROVE  RemindersFit'
<1>1. PICK one : one = [finding EXCEPT ![f].waits = waits]
    OBVIOUS
<1>2. one \in [Waiting -> WaitingRow] /\ \A g \in Waiting : one[g].since = finding[g].since
    BY <1>1 DEF RemindersFit, WaitingRow
<1>3. finding' = [one EXCEPT ![f].idle = 0] /\ UNCHANGED <<quiet, poll, early>>
    BY <1>1, Zenon DEF Reminding!Work
<1>4. finding' \in [Waiting -> WaitingRow] /\ \A g \in Waiting : finding'[g].since = finding[g].since
    BY <1>2, <1>3, LimitsAssumption DEF WaitingRow
<1> QED
    BY <1>3, <1>4 DEF RemindersFit, QuietFollowsLast

\* What may not be reminded of yet gets there no sooner than the time passes.
LEMMA PassFits ==
    ASSUME RemindersFit, Reminding!Pass
    PROVE  RemindersFit'
<1>1. /\ finding' = [f \in Waiting |->
              [finding[f] EXCEPT !.idle = Reminding!Aged(@, Threshold), !.since = Reminding!Aged(@, Threshold)]]
      /\ quiet' = [f \in Waiting |-> IF quiet[f] > 0 THEN quiet[f] - 1 ELSE 0]
      /\ UNCHANGED <<poll, early>>
    BY DEF Reminding!Pass
<1>2. ASSUME NEW f \in Waiting
      PROVE  /\ finding'[f] \in WaitingRow /\ quiet'[f] \in Nat
             /\ finding'[f].since <= finding[f].since + 1
             /\ quiet'[f] > 0 => quiet[f] > 0 /\ quiet'[f] = quiet[f] - 1
    <2>1. PICK old : old = finding[f]
        OBVIOUS
    <2>2. old \in WaitingRow /\ quiet[f] \in Nat
        BY <1>2, <2>1 DEF RemindersFit
    <2>3. PICK a, b : a = Reminding!Aged(old.idle, Threshold) /\ b = Reminding!Aged(old.since, Threshold)
        OBVIOUS
    <2>4. a \in 0..Threshold /\ b \in 0..Threshold /\ b <= old.since + 1
        BY <2>2, <2>3, Ageing DEF WaitingRow
    <2>5. finding'[f] = [old EXCEPT !.idle = a, !.since = b]
        BY <1>1, <1>2, <2>1, <2>3, Zenon
    <2>6. finding'[f] \in WaitingRow /\ finding'[f].since = b
        BY <2>2, <2>4, <2>5 DEF WaitingRow
    <2>7. quiet'[f] = IF quiet[f] > 0 THEN quiet[f] - 1 ELSE 0
        BY <1>1, <1>2
    <2> QED
        BY <2>1, <2>2, <2>4, <2>6, <2>7
<1>3. finding' \in [Waiting -> WaitingRow] /\ quiet' \in [Waiting -> Nat]
    BY <1>1, <1>2
<1>4. ASSUME NEW f \in Waiting, quiet'[f] > 0
      PROVE  finding'[f].since + quiet'[f] <= Threshold
    <2>1. PICK s, t, q, n \in Int :
              s = finding[f].since /\ t = finding'[f].since /\ q = quiet[f] /\ n = quiet'[f]
        BY <1>3, <1>4 DEF RemindersFit, WaitingRow
    <2>2. s + q <= Threshold /\ t <= s + 1 /\ n = q - 1
        BY <1>2, <1>4, <2>1 DEF RemindersFit, QuietFollowsLast
    <2> QED
        BY <2>1, <2>2, LimitsAssumption
<1> QED
    BY <1>1, <1>3, <1>4 DEF RemindersFit, QuietFollowsLast

\* Every step of the reminders, as long as no two scans overlap
LEMMA RemindersStep ==
    ASSUME RemindersInv, part = "reminders", part' = part, Reminding!RemindersNext
    PROVE  RemindersInv'
<1>1. calm' = calm
    BY DEF Reminding!RemindersNext, Reminding!Poll, Reminding!Peek, Reminding!ScanAtOnce, Reminding!ReadForScan,
           Reminding!CommitScan, Reminding!Work, Reminding!OpenSettings, Reminding!SaveSettings,
           Reminding!ChangeStaff, Reminding!Pass
<1> SUFFICES ASSUME calm PROVE RemindersFit'
    BY <1>1 DEF RemindersInv
<1>2. RemindersFit
    BY DEF RemindersInv
<1>3. ASSUME NEW p \in Pollers, Reminding!Poll(p)
      PROVE  RemindersFit'
    <2>1. CASE Reminding!Peek(p)
        <3>1. poll' = [poll EXCEPT ![p] = [is |-> "due"]] /\ UNCHANGED <<finding, quiet, early>>
            BY <2>1 DEF Reminding!Peek
        <3>2. poll' \in [Pollers -> {Reminding!Idle, [is |-> "due"]}]
            BY <1>2, <3>1, Zenon DEF RemindersFit
        <3> QED
            BY <1>2, <3>1, <3>2 DEF RemindersFit, QuietFollowsLast
    <2>2. CASE Reminding!ScanAtOnce(p)
        <3>1. Reminding!Scan(finding, settings) /\ poll' = [poll EXCEPT ![p] = Reminding!Idle]
            BY <2>2 DEF Reminding!ScanAtOnce
        <3>2. poll' \in [Pollers -> {Reminding!Idle, [is |-> "due"]}]
            BY <1>2, <3>1, Zenon DEF RemindersFit
        <3> QED
            BY <1>2, <3>1, <3>2, ScanFits DEF RemindersFit
    <2>3. CASE Reminding!ReadForScan(p)
        BY <2>3 DEF Reminding!ReadForScan
    <2>4. CASE Reminding!CommitScan(p)
        BY <1>2, <2>4 DEF Reminding!CommitScan, RemindersFit, Reminding!Idle
    <2> QED
        BY <1>3, <2>1, <2>2, <2>3, <2>4 DEF Reminding!Poll
<1>4. ASSUME NEW f \in Waiting, NEW waits \in BOOLEAN, Reminding!Work(f, waits)
      PROVE  RemindersFit'
    BY <1>2, <1>4, WorkFits
<1>5. ASSUME Reminding!OpenSettings \/ (\E enabled \in BOOLEAN : Reminding!SaveSettings(enabled)) \/ Reminding!ChangeStaff
      PROVE  RemindersFit'
    <2>1. UNCHANGED <<finding, quiet, poll, early>>
        BY <1>5 DEF Reminding!OpenSettings, Reminding!SaveSettings, Reminding!ChangeStaff
    <2> QED
        BY <1>2, <2>1 DEF RemindersFit, QuietFollowsLast
<1>6. CASE Reminding!Pass
    BY <1>2, <1>6, PassFits
<1> QED
    BY <1>3, <1>4, <1>5, <1>6 DEF Reminding!RemindersNext

-----------------------------------------------------------------------------

LimitsInv == ThrottleInv /\ RemindersInv

LEMMA LimitsStart == Init => LimitsInv
<1> SUFFICES ASSUME Init PROVE LimitsInv
    OBVIOUS
<1>1. /\ failures = [k \in Keys |-> Throttle!NoKey] /\ locked = [k \in Keys |-> 0]
      /\ login = [r \in Requests |-> Throttle!Idle]
    BY DEF Init, Throttle!ThrottleInit, Keys
<1>2. ThrottleShaped
    BY <1>1 DEF ThrottleShaped, Counter, LoginStates, Throttle!NoKey
<1>3. ASSUME NEW k \in Keys
      PROVE  CounterFits(k)
    <2>1. failures[k] = Throttle!NoKey /\ locked[k] = 0
        BY <1>1, <1>3
    <2>2. MaxFailures[k] \in Nat \ {0}
        BY LimitsAssumption DEF Keys
    <2> QED
        BY <2>1, <2>2 DEF CounterFits, Throttle!NoKey
<1>4. /\ finding = [f \in Waiting |-> [waits |-> TRUE, idle |-> 0, since |-> Threshold]]
      /\ quiet = [f \in Waiting |-> 0] /\ early = {}
      /\ poll = [p \in Pollers |-> Reminding!Idle]
    BY DEF Init, Reminding!RemindersInit
<1>5. RemindersFit
    BY <1>4, LimitsAssumption DEF RemindersFit, WaitingRow, QuietFollowsLast
<1> QED
    BY <1>2, <1>3, <1>5 DEF LimitsInv, ThrottleInv, RemindersInv

LEMMA LimitsStep == LimitsInv /\ [Next]_vars => LimitsInv'
<1> SUFFICES ASSUME LimitsInv, [Next]_vars PROVE LimitsInv'
    OBVIOUS
<1>1. ASSUME part' = part, UNCHANGED loginVars, part # "logins" \/ calm' = calm
      PROVE  ThrottleInv'
  <2>1. UNCHANGED <<failures, locked, login>>
    BY <1>1 DEF loginVars
  <2>2. ThrottleShaped'
    BY <2>1 DEF LimitsInv, ThrottleInv, ThrottleShaped
  <2>3. ASSUME NEW k \in Keys, CounterFits(k)
        PROVE  CounterFits(k)'
    BY <2>1, <2>3 DEF CounterFits, Over, Stamping, Admitted
  <2> QED
    BY <1>1, <2>2, <2>3 DEF LimitsInv, ThrottleInv
<1>2. ASSUME part' = part, UNCHANGED reminderVars, part # "reminders" \/ calm' = calm
      PROVE  RemindersInv'
    BY <1>2 DEF LimitsInv, RemindersInv, RemindersFit, QuietFollowsLast, reminderVars
<1>3. CASE InLogins(Throttle!ThrottleNext)
  <2>1. part = "logins" /\ part' = part /\ UNCHANGED reminderVars /\ Throttle!ThrottleNext
    BY <1>3 DEF InLogins
  <2> QED
    BY <1>2, <2>1, ThrottleStep DEF LimitsInv
<1>4. CASE InReminders(Reminding!RemindersNext)
  <2>1. part = "reminders" /\ part' = part /\ UNCHANGED loginVars /\ Reminding!RemindersNext
    BY <1>4 DEF InReminders
  <2> QED
    BY <1>1, <2>1, RemindersStep DEF LimitsInv
<1>5. ASSUME part' = part, UNCHANGED loginVars, UNCHANGED reminderVars,
             part \notin {"logins", "reminders"} \/ calm' = calm
      PROVE  LimitsInv'
    BY <1>1, <1>2, <1>5 DEF LimitsInv
<1>6. CASE InEvidence(Evidence!FilesNext)
    BY <1>5, <1>6 DEF InEvidence
<1>7. CASE InImports(Imports!HistoryNext)
    BY <1>5, <1>7 DEF InImports
<1>8. CASE InSupport(Support!SupportNext)
    BY <1>5, <1>8 DEF InSupport
<1>9. CASE InForms(Forms!FormsNext)
    BY <1>5, <1>9 DEF InForms
<1>10. CASE InCsv(Csv!CsvNext)
    BY <1>5, <1>10 DEF InCsv
<1>11. CASE InAutosave(Autosave!AutosaveNext)
    BY <1>5, <1>11 DEF InAutosave
<1>12. CASE UNCHANGED vars
    BY <1>5, <1>12 DEF vars
<1> QED
    BY <1>3, <1>4, <1>6, <1>7, <1>8, <1>9, <1>10, <1>11, <1>12 DEF Next

\* As long as the server does not stop and no two scans overlap: however many logins from
\* one address are under way at once, a window counts no more wrong passwords than its
\* limit and those admitted with the last, and every counter goes; and no finding is
\* reminded of twice within its window, whoever polls and whatever settings are saved.
THEOREM LimitsAlwaysHold == Spec => []LimitsHold
<1>1. LimitsInv => LimitsHold
  <2> SUFFICES ASSUME LimitsInv PROVE LimitsHold
    OBVIOUS
  <2>1. ASSUME calm, NEW k \in Keys
        PROVE  failures[k].count < MaxFailures[k] + Throttle!Cardinality(Requests)
    <3>1. CounterFits(k)
        BY <2>1 DEF LimitsInv, ThrottleInv
    <3>2. PICK c, m \in Int : c = failures[k].count /\ m = MaxFailures[k]
        BY <2>1, LimitsAssumption DEF LimitsInv, ThrottleInv, ThrottleShaped, Counter, Keys
    <3>3. PICK of, was, out \in Int :
              of = Cardinality(Requests) /\ was = Cardinality(Admitted(k)) /\ out = Cardinality(Over(k))
        BY <2>1, LoginsCounted
    <3>4. was >= 0 /\ out >= 0 /\ was + out <= of
        BY <2>1, <3>3, LoginsCounted
    <3>5. locked[k] \in Nat
        BY <2>1 DEF LimitsInv, ThrottleInv, ThrottleShaped
    <3>6. /\ c >= m /\ locked[k] = 0 => c <= m - 1 + out
          /\ locked[k] > 0 => c + was <= m - 1 + of
        BY <3>1, <3>2, <3>3 DEF CounterFits
    <3>7. c < m + of
        BY <3>2, <3>3, <3>4, <3>5, <3>6
    <3> QED
        BY <3>2, <3>3, <3>7, SameCount
  <2>2. Throttle!GuessesBounded
    BY <2>1 DEF Throttle!GuessesBounded, Keys
  <2>3. Throttle!CountersExpire
    <3> SUFFICES ASSUME NEW k \in Keys, calm, failures[k].count > 0, failures[k].left = Throttle!NoExpiry
                 PROVE  \E r \in Requests : login[r].is = "counted" /\ k \in login[r].failures
        BY DEF Throttle!CountersExpire, Keys
    <3>1. CounterFits(k)
        BY DEF LimitsInv, ThrottleInv
    <3>2. failures[k].left \notin 1..Window[k]
        BY DEF Throttle!NoExpiry
    <3> QED
        BY <3>1, <3>2 DEF CounterFits, Stamping
  <2>4. calm => Reminding!RemindersSpaced
    BY DEF LimitsInv, RemindersInv, RemindersFit, Reminding!RemindersSpaced
  <2> QED
    BY <2>2, <2>3, <2>4 DEF LimitsHold
<1> QED
    BY <1>1, LimitsStart, LimitsStep, PTL DEF Spec
-----------------------------------------------------------------------------
(* Conversations                                                           *)

\* What a conversation can be.
Threads == [status : {"NONE", "OPEN", "RESOLVED"}, rating : Nat]

\* A conversation has a status and a rating, and so has what a message read of it.
ThreadShaped ==
    /\ thread \in Threads
    /\ sending = [r \in Requests |-> sending[r]]
    /\ \A r \in Requests :
          /\ sending[r].is = "storing" => sending[r].read \in Threads
          /\ sending[r].is = "rating" => sending[r].stars \in {3, 5}

\* What a step may do to the status
StatusStands ==
    \A status \in {"OPEN", "RESOLVED"} :
        thread # Support!NoThread /\ thread.status # status /\ thread'.status = status
            => \E r \in Requests : Support!Makes(r, status)

\* What a request turns into while the conversation stays
LEMMA ThreadStays ==
    ASSUME ThreadShaped, UNCHANGED thread, NEW r \in Requests, NEW to,
           sending' = [sending EXCEPT ![r] = to],
           to.is = "storing" => to.read = thread, to.is = "rating" => to.stars \in {3, 5}
    PROVE  ThreadShaped' /\ StatusStands
<1>1. \A q \in Requests : sending'[q] = IF q = r THEN to ELSE sending[q]
    BY DEF ThreadShaped
<1>2. sending' = [q \in Requests |-> sending'[q]]
    BY DEF ThreadShaped
<1>3. ThreadShaped'
    BY <1>1, <1>2 DEF ThreadShaped
<1> QED
    BY <1>3 DEF StatusStands

\* No step resolves a conversation, or opens a resolved one, but a rating and a message
\* that read it so.
LEMMA SupportStep ==
    ASSUME ThreadShaped, Support!SupportNext
    PROVE  ThreadShaped' /\ StatusStands
<1>1. CASE Support!CreateThread
    BY <1>1 DEF Support!CreateThread, Support!NoThread, Support!NoRating, ThreadShaped, Threads, StatusStands
<1>2. ASSUME NEW r \in Requests, Support!Store(r)
      PROVE  ThreadShaped' /\ StatusStands
    <2>1. /\ sending[r].is = "storing" /\ sending[r].read \in Threads
          /\ sending' = [sending EXCEPT ![r] = Support!Nothing]
        BY <1>2 DEF Support!Store, ThreadShaped
    <2>2. PICK read : read = sending[r].read /\ read \in Threads
        BY <2>1
    <2>3. thread' = read \/ thread' = [read EXCEPT !.rating = 0]
        BY <1>2, <2>2 DEF Support!Store, Support!FollowedUp, Support!NoRating
    <2>4. thread' \in Threads /\ thread'.status = sending[r].read.status
        BY <2>2, <2>3 DEF Threads
    <2>5. sending[r] # Support!Nothing /\ sending'[r] = Support!Nothing
        BY <2>1 DEF Support!Nothing, ThreadShaped
    <2>6. ThreadShaped'
        BY <2>1, <2>4 DEF ThreadShaped, Support!Nothing
    <2>7. Support!Makes(r, thread'.status)
        BY <2>1, <2>4, <2>5 DEF Support!Makes
    <2> QED
        BY <2>6, <2>7 DEF StatusStands
<1>3. ASSUME NEW r \in Requests, Support!StoreRating(r)
      PROVE  ThreadShaped' /\ StatusStands
    <2>1. /\ sending[r].is = "rating" /\ sending[r].stars \in {3, 5}
          /\ sending' = [sending EXCEPT ![r] = Support!Nothing]
          /\ thread' = Support!Rated(sending[r].stars)
        BY <1>3 DEF Support!StoreRating, ThreadShaped
    <2>2. thread' \in Threads
        BY <2>1 DEF Support!Rated, Threads
    <2>3. ThreadShaped'
        BY <2>1, <2>2 DEF ThreadShaped, Support!Nothing
    <2>4. sending[r] # Support!Nothing /\ sending'[r] = Support!Nothing
        BY <2>1 DEF Support!Nothing, ThreadShaped
    <2>5. Support!Makes(r, thread'.status)
        BY <2>1, <2>4 DEF Support!Makes
    <2> QED
        BY <2>3, <2>5 DEF StatusStands
<1>4. ASSUME NEW r \in Requests, NEW s \in Support!Sides, Support!Post(r, s)
      PROVE  ThreadShaped' /\ StatusStands
    <2>1. PICK to : to = [is |-> "message", by |-> s]
        OBVIOUS
    <2>2. UNCHANGED thread /\ sending' = [sending EXCEPT ![r] = to] /\ to.is = "message"
        BY <1>4, <2>1 DEF Support!Post
    <2> QED
        BY <2>2, ThreadStays
<1>5. ASSUME NEW r \in Requests, Support!GiveUp(r)
      PROVE  ThreadShaped' /\ StatusStands
    <2>1. PICK to : to = Support!Nothing
        OBVIOUS
    <2>2. UNCHANGED thread /\ sending' = [sending EXCEPT ![r] = to] /\ to.is = "nothing"
        BY <1>5, <2>1 DEF Support!GiveUp, Support!Nothing
    <2> QED
        BY <2>2, ThreadStays
<1>6. ASSUME NEW s \in Support!Sides, Support!Load(s)
      PROVE  ThreadShaped' /\ StatusStands
    BY <1>6 DEF Support!Load, ThreadShaped, StatusStands
<1>7. ASSUME NEW r \in Requests, Support!Read(r)
      PROVE  ThreadShaped' /\ StatusStands
    <2>1. PICK to : to = [is |-> "storing", by |-> sending[r].by, read |-> thread]
        OBVIOUS
    <2>2. UNCHANGED thread /\ sending' = [sending EXCEPT ![r] = to] /\ to.is = "storing" /\ to.read = thread
        BY <1>7, <2>1 DEF Support!Read
    <2> QED
        BY <2>2, ThreadStays
<1>8. ASSUME NEW r \in Requests, NEW stars \in {3, 5}, Support!Rate(r, stars)
      PROVE  ThreadShaped' /\ StatusStands
    <2>1. PICK to : to = [is |-> "rating", stars |-> stars]
        OBVIOUS
    <2>2. UNCHANGED thread /\ sending' = [sending EXCEPT ![r] = to] /\ to.is = "rating" /\ to.stars = stars
        BY <1>8, <2>1 DEF Support!Rate
    <2> QED
        BY <2>2, ThreadStays
<1> QED
    BY <1>1, <1>2, <1>3, <1>4, <1>5, <1>6, <1>7, <1>8 DEF Support!SupportNext

\* The others leave conversations alone.
LEMMA ThreadsStep == ThreadShaped /\ [Next]_vars => ThreadShaped' /\ (StatusStands \/ UNCHANGED supportVars)
<1> SUFFICES ASSUME ThreadShaped, [Next]_vars PROVE ThreadShaped' /\ (StatusStands \/ UNCHANGED supportVars)
    OBVIOUS
<1>1. CASE InSupport(Support!SupportNext)
    BY <1>1, SupportStep DEF InSupport
<1>2. CASE UNCHANGED supportVars
    BY <1>2 DEF supportVars, ThreadShaped
<1>3. ~InSupport(Support!SupportNext) => UNCHANGED supportVars
    BY DEF Next, InEvidence, InImports, InLogins, InReminders, InForms, InCsv, InAutosave, vars
<1> QED
    BY <1>1, <1>2, <1>3

\* A resolved conversation is opened, and an open one resolved, by its owner's rating or
\* by a message that read it so.
LEMMA ConversationsStand == Spec => Support!ResolvedStands
<1> DEFINE Stands ==
        \A status \in {"OPEN", "RESOLVED"} :
            thread # Support!NoThread /\ thread.status # status /\ thread'.status = status
                => \E r \in Requests : Support!Makes(r, status)
<1>1. Init => ThreadShaped
    BY DEF Init, Support!SupportInit, Support!NoThread, Support!Nothing, ThreadShaped, Threads
<1>2. ThreadShaped /\ [Next]_vars => ThreadShaped' /\ [Stands]_Support!supportVars
    BY ThreadsStep DEF StatusStands, supportVars, Support!supportVars
<1> QED
    BY <1>1, <1>2, PTL DEF Spec, Support!ResolvedStands

-----------------------------------------------------------------------------
(* The dialog that imports a file                                          *)

Outcomes == [of : Nat, out : Seq(BOOLEAN)]

\* What the import under way has heard of its rows is so, and it has asked for no row
\* beyond; what the dialog shows is so too.
CsvInv ==
    /\ run \in Outcomes /\ results \in Seq(BOOLEAN) /\ created \in Seq(Nat) /\ rows \in Nat
    /\ Csv!Running =>
          /\ \A i \in DOMAIN run.out : run.out[i] => \E j \in DOMAIN created : created[j] = i
          /\ \A j \in DOMAIN created : created[j] <= Len(run.out)
    /\ Csv!ResultsTrue

\* A row that is sent: the next one, whatever becomes of it
LEMMA RowFits ==
    ASSUME CsvInv, Csv!ImportRow
    PROVE  CsvInv'
<1>1. PICK ok \in BOOLEAN :
          /\ run' = [run EXCEPT !.out = Append(@, ok)] /\ results' = run'.out
          /\ created' = Append(created, Len(run.out) + 1) \/ (~ok /\ created' = created)
    BY Zenon DEF Csv!ImportRow, Csv!Answered, Csv!NextRow
<1>2. PICK out \in Seq(BOOLEAN) : out = run.out
    BY DEF CsvInv, Outcomes
<1>3. PICK more \in Seq(BOOLEAN) : more = Append(out, ok)
    BY AppendProperties, Zenon
<1>4. PICK n \in Nat : n = Len(out) /\ DOMAIN out = 1..n
    BY <1>2
<1>5. DOMAIN more = 1..(n + 1) /\ Len(more) = n + 1 /\ (\A i \in 1..n : more[i] = out[i]) /\ more[n + 1] = ok
    BY <1>3, <1>4
<1>6. run' = [run EXCEPT !.out = more] /\ run \in Outcomes
    BY <1>1, <1>2, <1>3, Zenon DEF CsvInv
<1>7. run' \in Outcomes /\ run'.out = more
    BY <1>6 DEF Outcomes
<1>8. /\ Csv!Running
      /\ \A i \in 1..n : out[i] => \E j \in DOMAIN created : created[j] = i
      /\ \A j \in DOMAIN created : created[j] <= n
      /\ \A i, j \in DOMAIN created : i < j => created[i] < created[j]
    BY <1>2, <1>4 DEF CsvInv, Csv!ImportRow, Csv!ResultsTrue
<1>9. /\ created' \in Seq(Nat)
      /\ \A i \in DOMAIN created : i \in DOMAIN created' /\ created'[i] = created[i]
      /\ ok => \E j \in DOMAIN created' : created'[j] = n + 1
      /\ \A j \in DOMAIN created' :
            (j \in DOMAIN created /\ created'[j] = created[j])
                \/ (created'[j] = n + 1 /\ \A i \in DOMAIN created' : i <= j)
    <2>1. PICK m \in Nat : m = Len(created) /\ DOMAIN created = 1..m /\ created \in Seq(Nat)
        BY DEF CsvInv
    <2>2. CASE created' = Append(created, n + 1)
        <3>1. /\ created' \in Seq(Nat) /\ DOMAIN created' = 1..(m + 1)
              /\ (\A i \in 1..m : created'[i] = created[i]) /\ created'[m + 1] = n + 1
            BY <2>1, <2>2, <1>4
        <3>2. \A i \in DOMAIN created : i \in DOMAIN created' /\ created'[i] = created[i]
            BY <2>1, <3>1
        <3>3. m + 1 \in DOMAIN created' /\ \A i \in DOMAIN created' : i <= m + 1
            BY <2>1, <3>1
        <3>4. ASSUME NEW j \in DOMAIN created'
              PROVE  (j \in DOMAIN created /\ created'[j] = created[j]) \/ j = m + 1
            BY <2>1, <3>1, <3>4
        <3> QED
            BY <3>1, <3>2, <3>3, <3>4
    <2>3. CASE ~ok /\ created' = created
        BY <2>1, <2>3
    <2> QED
        BY <1>1, <1>2, <1>4, <2>2, <2>3
<1>10. \A i \in DOMAIN more : more[i] => \E j \in DOMAIN created' : created'[j] = i
    <2> SUFFICES ASSUME NEW i \in 1..(n + 1), more[i] PROVE \E j \in DOMAIN created' : created'[j] = i
        BY <1>5
    <2>1. CASE i = n + 1
        BY <1>5, <1>9, <2>1
    <2>2. CASE i # n + 1
        <3>1. i \in 1..n /\ out[i]
            BY <1>4, <1>5, <2>2
        <3> QED
            BY <1>8, <1>9, <3>1
    <2> QED
        BY <2>1, <2>2
<1>11. \A j \in DOMAIN created' : created'[j] <= n + 1
    <2>1. ASSUME NEW j \in DOMAIN created PROVE created[j] \in Nat /\ created[j] <= n
        BY <1>8, <2>1 DEF CsvInv
    <2>2. ASSUME NEW j \in DOMAIN created' PROVE created'[j] <= n + 1
        <3>1. (j \in DOMAIN created /\ created'[j] = created[j]) \/ created'[j] = n + 1
            BY <1>9, <2>2, Zenon
        <3>2. CASE created'[j] = n + 1
            BY <1>4, <3>2
        <3>3. CASE j \in DOMAIN created /\ created'[j] = created[j]
            <4>1. created'[j] \in Nat /\ created'[j] <= n
                BY <2>1, <3>3, Zenon
            <4> QED
                BY <1>4, <4>1
        <3> QED
            BY <3>1, <3>2, <3>3, Zenon
    <2> QED
        BY <2>2, Zenon
<1>12. \A i, j \in DOMAIN created' : i < j => created'[i] < created'[j]
    <2> SUFFICES ASSUME NEW i \in DOMAIN created', NEW j \in DOMAIN created', i < j
                 PROVE  created'[i] < created'[j]
        OBVIOUS
    <2>1. i \in Int /\ j \in Int
        BY <1>9
    <2>2. i \in DOMAIN created /\ created'[i] = created[i]
        <3>1. ~(\A k \in DOMAIN created' : k <= i)
            BY <2>1
        <3> QED
            BY <1>9, <3>1
    <2>3. created[i] \in Nat
        BY <2>2 DEF CsvInv
    <2> QED
        BY <1>4, <1>8, <1>9, <2>1, <2>2, <2>3
<1>13. results' = more /\ rows' = rows
    BY <1>1, <1>7 DEF Csv!ImportRow
<1> QED
    BY <1>3, <1>5, <1>7, <1>9, <1>10, <1>11, <1>12, <1>13 DEF CsvInv, Csv!ResultsTrue

\* Every step of the dialog
LEMMA CsvStep == CsvInv /\ Csv!CsvNext => CsvInv'
<1> SUFFICES ASSUME CsvInv, Csv!CsvNext PROVE CsvInv'
    OBVIOUS
<1>1. CASE Csv!OpenDialog
    BY <1>1 DEF Csv!OpenDialog, CsvInv, Csv!ResultsTrue, Csv!Running
<1>2. CASE Csv!CloseDialog
    BY <1>2 DEF Csv!CloseDialog, Csv!Reset, CsvInv, Csv!ResultsTrue, Csv!Running
<1>3. ASSUME NEW n \in 0..MaxRows, Csv!ChooseFile(n)
      PROVE  CsvInv'
    BY <1>3 DEF Csv!ChooseFile, CsvInv, Csv!ResultsTrue, Csv!Running
<1>4. CASE Csv!StartRun
    <2>1. /\ run' = [of |-> rows, out |-> <<>>] /\ created' = <<>> /\ results' = <<>> /\ rows' = rows
        BY <1>4 DEF Csv!StartRun
    <2>2. run' \in Outcomes /\ run'.out = <<>>
        BY <2>1 DEF Outcomes, CsvInv
    <2> QED
        BY <2>1, <2>2 DEF CsvInv, Csv!ResultsTrue
<1>5. CASE Csv!EndRun
    <2>1. run' = Csv!Idle /\ UNCHANGED <<rows, results, created>>
        BY <1>5 DEF Csv!EndRun
    <2>2. run' \in Outcomes /\ ~Csv!Running'
        BY <2>1 DEF Csv!Idle, Outcomes, Csv!Running
    <2> QED
        BY <2>1, <2>2 DEF CsvInv, Csv!ResultsTrue
<1> QED
    BY <1>1, <1>2, <1>3, <1>4, <1>5, RowFits DEF Csv!CsvNext

\* What the dialog says was added was, and once.
LEMMA ResultsStayTrue == Spec => []Csv!ResultsTrue
<1>1. Init => CsvInv
    BY DEF Init, Csv!CsvInit, Csv!Idle, CsvInv, Outcomes, Csv!Running, Csv!ResultsTrue
<1>2. CsvInv /\ [Next]_vars => CsvInv'
    <2> SUFFICES ASSUME CsvInv, [Next]_vars PROVE CsvInv'
        OBVIOUS
    <2>1. CASE InCsv(Csv!CsvNext)
        BY <2>1, CsvStep DEF InCsv
    <2>2. CASE UNCHANGED csvVars
        BY <2>2 DEF csvVars, CsvInv, Csv!Running, Csv!ResultsTrue
    <2>3. ~InCsv(Csv!CsvNext) => UNCHANGED csvVars
        BY DEF Next, InEvidence, InImports, InLogins, InReminders, InSupport, InForms, InAutosave, vars
    <2> QED
        BY <2>1, <2>2, <2>3
<1>3. CsvInv => Csv!ResultsTrue
    BY DEF CsvInv
<1> QED
    BY <1>1, <1>2, <1>3, PTL DEF Spec

-----------------------------------------------------------------------------
(* The pages of the administration                                         *)

\* A switch is on or off.
OnOrOff(x) == \A s \in Forms!Switches : s \in DOMAIN x => x[s] \in BOOLEAN

\* A row that is there has every column.
IsRow(x) == DOMAIN x = Forms!Columns /\ OnOrOff(x)

\* What is open over a list: nothing, the form with what it sends, the switches a click is
\* to set, or a question
IsDialog(d) ==
    \/ d = Forms!Closed
    \/ d.is = "edit" /\ DOMAIN d.draft = form.sends /\ OnOrOff(d.draft)
    \/ d.is = "switch" /\ DOMAIN d.values \in SUBSET Forms!Switches /\ OnOrOff(d.values)
    \/ d.is = "delete"

FormsInv ==
    /\ form \in Forms!Pages
    /\ row = Forms!Gone \/ IsRow(row)
    /\ DOMAIN list = Admins /\ DOMAIN dialog = Admins
    /\ \A a \in Admins : list[a] = Forms!Gone \/ IsRow(list[a])
    /\ \A a \in Admins : IsDialog(dialog[a])

\* What the pages send, and that one that locks asks before every switch
LEMMA PagesAsk ==
    ASSUME form \in Forms!Pages
    PROVE  /\ form.sends \in SUBSET Forms!Columns
           /\ form.locks => \A s \in Forms!Switches, to \in BOOLEAN : <<s, to>> \in form.asks
<1>1. /\ form = Forms!ReportingPeriodsPage \/ ~form.locks
      /\ form.sends \in {Forms!NameOnly, Forms!Texts, Forms!Columns}
    <2>1. Forms!DistrictsPage.sends = Forms!NameOnly /\ ~Forms!DistrictsPage.locks
        BY DEF Forms!DistrictsPage
    <2>2. Forms!BranchesPage.sends = Forms!Texts /\ ~Forms!BranchesPage.locks
        BY DEF Forms!BranchesPage
    <2>3. Forms!DepartmentsPage.sends = Forms!Texts /\ ~Forms!DepartmentsPage.locks
        BY DEF Forms!DepartmentsPage
    <2>4. Forms!CategoriesPage.sends = Forms!NameOnly /\ ~Forms!CategoriesPage.locks
        BY DEF Forms!CategoriesPage
    <2>5. Forms!SourcesPage.sends = Forms!NameOnly /\ ~Forms!SourcesPage.locks
        BY DEF Forms!SourcesPage
    <2>6. Forms!UncoveredReasonsPage.sends = Forms!NameOnly /\ ~Forms!UncoveredReasonsPage.locks
        BY DEF Forms!UncoveredReasonsPage
    <2>7. Forms!UsersPage.sends = Forms!Texts /\ ~Forms!UsersPage.locks
        BY DEF Forms!UsersPage
    <2>8. Forms!RolesPage.sends = Forms!Texts /\ ~Forms!RolesPage.locks
        BY DEF Forms!RolesPage
    <2>9. Forms!ScoringRulesPage.sends = Forms!Texts /\ ~Forms!ScoringRulesPage.locks
        BY DEF Forms!ScoringRulesPage
    <2>10. Forms!SettingsPage.sends = Forms!Columns /\ ~Forms!SettingsPage.locks
        BY DEF Forms!SettingsPage
    <2>11. Forms!ReportingPeriodsPage.sends = Forms!Texts
        BY DEF Forms!ReportingPeriodsPage
    <2> QED
        BY <2>1, <2>2, <2>3, <2>4, <2>5, <2>6, <2>7, <2>8, <2>9, <2>10, <2>11 DEF Forms!Pages
<1>3. Forms!NameOnly \in SUBSET Forms!Columns /\ Forms!Texts \in SUBSET Forms!Columns
    BY DEF Forms!NameOnly, Forms!Texts, Forms!Columns
<1>4. form = Forms!ReportingPeriodsPage =>
          form.asks = {<<"standing", TRUE>>, <<"standing", FALSE>>, <<"flag", TRUE>>, <<"flag", FALSE>>}
    BY DEF Forms!ReportingPeriodsPage
<1>5. \A s \in Forms!Switches, to \in BOOLEAN :
          <<s, to>> \in {<<"standing", TRUE>>, <<"standing", FALSE>>, <<"flag", TRUE>>, <<"flag", FALSE>>}
    BY DEF Forms!Switches
<1> QED
    BY <1>1, <1>3, <1>4, <1>5

\* The switches a click sets: where the page does not lock, the one clicked, to the
\* opposite of what the list shows
LEMMA ClickedValues ==
    ASSUME NEW a \in Admins, NEW s \in Forms!Switches, NEW drafts \in BOOLEAN,
           NEW values, values = Forms!Values(a, s, drafts)
    PROVE  /\ DOMAIN values \in SUBSET Forms!Switches /\ OnOrOff(values)
           /\ ~form.locks => DOMAIN values = {s} /\ values[s] = ~list[a][s]
<1>1. \/ values = [flag |-> drafts] /\ form.locks
      \/ values = [standing |-> FALSE, flag |-> drafts] /\ form.locks
      \/ values = [c \in {s} |-> ~list[a][s]]
    BY DEF Forms!Values
<1>2. CASE values = [flag |-> drafts] /\ form.locks
    BY <1>2 DEF OnOrOff, Forms!Switches
<1>3. CASE values = [standing |-> FALSE, flag |-> drafts] /\ form.locks
    BY <1>3 DEF OnOrOff, Forms!Switches
<1>4. CASE values = [c \in {s} |-> ~list[a][s]]
    BY <1>4 DEF OnOrOff
<1> QED
    BY <1>1, <1>2, <1>3, <1>4

\* A row that something is written over
LEMMA PatchedRow ==
    ASSUME IsRow(row), NEW values, OnOrOff(values)
    PROVE  /\ IsRow(Forms!Patched(values))
           /\ \A s \in Forms!Switches :
                 Forms!Patched(values)[s] = IF s \in DOMAIN values THEN values[s] ELSE row[s]
<1>1. Forms!Switches \in SUBSET Forms!Columns
    BY DEF Forms!Columns
<1>2. /\ DOMAIN Forms!Patched(values) = Forms!Columns
      /\ \A s \in Forms!Switches :
             Forms!Patched(values)[s] = IF s \in DOMAIN values THEN values[s] ELSE row[s]
    BY <1>1 DEF Forms!Patched
<1> QED
    BY <1>1, <1>2 DEF IsRow, OnOrOff

\* A dialog is open, or none is.
LEMMA DialogIs ==
    ASSUME FormsInv, NEW a \in Admins
    PROVE  /\ dialog[a].is = "closed" <=> dialog[a] = Forms!Closed
           /\ dialog[a].is = "edit" => DOMAIN dialog[a].draft = form.sends /\ OnOrOff(dialog[a].draft)
           /\ dialog[a].is = "switch" =>
                 DOMAIN dialog[a].values \in SUBSET Forms!Switches /\ OnOrOff(dialog[a].values)
    BY DEF FormsInv, IsDialog, Forms!Closed

\* What a step may do to the row
AsAnnounced ==
    (row # Forms!Gone /\ row' # Forms!Gone) =>
         \A s \in Forms!Switches : row'[s] # row[s] =>
             \E a \in Admins : Forms!Acts(a) /\ Forms!Announced(a, s, row'[s])

StaysGone == row = Forms!Gone => row' = Forms!Gone

\* A step that opens or closes something and writes nothing
LEMMA NothingWritten ==
    ASSUME FormsInv, NEW a \in Admins, NEW d, IsDialog(d), dialog' = [dialog EXCEPT ![a] = d],
           UNCHANGED <<form, row>>, list' = list \/ list' = [list EXCEPT ![a] = row]
    PROVE  FormsInv' /\ AsAnnounced /\ StaysGone
<1>1. \A b \in Admins : IsDialog(dialog'[b]) /\ (list'[b] = Forms!Gone \/ IsRow(list'[b]))
    BY DEF FormsInv
<1>2. \A b \in Admins : IsDialog(dialog[b])'
    BY <1>1 DEF IsDialog
<1> QED
    BY <1>1, <1>2 DEF FormsInv, AsAnnounced, StaysGone

\* A step that writes the row, closes what was open and loads the list again
LEMMA RowWritten ==
    ASSUME FormsInv, NEW a \in Admins, row # Forms!Gone, row' = Forms!Gone \/ IsRow(row'),
           dialog' = [dialog EXCEPT ![a] = Forms!Closed],
           UNCHANGED form, list' = [list EXCEPT ![a] = row']
    PROVE  FormsInv' /\ StaysGone
<1>1. IsDialog(Forms!Closed)
    BY DEF IsDialog
<1>2. \A b \in Admins : IsDialog(dialog'[b]) /\ (list'[b] = Forms!Gone \/ IsRow(list'[b]))
    BY <1>1 DEF FormsInv
<1>3. \A b \in Admins : IsDialog(dialog[b])'
    BY <1>2 DEF IsDialog
<1> QED
    BY <1>2, <1>3 DEF FormsInv, StaysGone

\* Writing what a dialog announced
LEMMA AnnouncedWritten ==
    ASSUME FormsInv, NEW a \in Admins, row # Forms!Gone, NEW values, OnOrOff(values),
           row' = Forms!Patched(values),
           dialog' = [dialog EXCEPT ![a] = Forms!Closed],
           UNCHANGED form, list' = [list EXCEPT ![a] = row'],
           \A s \in Forms!Switches :
               s \in DOMAIN values /\ values[s] # row[s] =>
                   (dialog[a] # Forms!Closed \/ list[a] # row') /\ Forms!Announced(a, s, values[s])
    PROVE  FormsInv' /\ AsAnnounced /\ StaysGone
<1>1. IsRow(row)
    BY DEF FormsInv
<1>2. /\ IsRow(Forms!Patched(values))
      /\ \A s \in Forms!Switches :
            Forms!Patched(values)[s] = IF s \in DOMAIN values THEN values[s] ELSE row[s]
    BY <1>1, PatchedRow
<1>3. IsRow(row')
    BY <1>2
<1>4. FormsInv' /\ StaysGone
    BY <1>3, RowWritten
<1>5. ASSUME NEW s \in Forms!Switches, row'[s] # row[s]
      PROVE  Forms!Acts(a) /\ Forms!Announced(a, s, row'[s])
    <2>1. s \in DOMAIN values /\ values[s] # row[s] /\ row'[s] = values[s]
        BY <1>2, <1>5
    <2>2. dialog'[a] = Forms!Closed /\ list'[a] = row'
        BY DEF FormsInv
    <2> QED
        BY <2>1, <2>2 DEF Forms!Acts
<1> QED
    BY <1>4, <1>5 DEF AsAnnounced

\* Every step of the pages
LEMMA FormsStep ==
    ASSUME FormsInv, Forms!FormsNext
    PROVE  FormsInv' /\ AsAnnounced /\ StaysGone
<1> SUFFICES ASSUME NEW a \in Admins,
                    \/ Forms!LoadPage(a) \/ Forms!StartEdit(a) \/ Forms!SaveEdit(a)
                    \/ \E c \in Forms!Texts, v \in Forms!Versions : Forms!Type(a, c, v)
                    \/ \E s \in Forms!Switches, v \in BOOLEAN : Forms!Type(a, s, v)
                    \/ \E s \in Forms!Switches, drafts \in BOOLEAN : Forms!ClickSwitch(a, s, drafts)
                    \/ Forms!ConfirmSwitch(a) \/ Forms!AskDelete(a) \/ Forms!ConfirmDelete(a) \/ Forms!Cancel(a)
             PROVE  FormsInv' /\ AsAnnounced /\ StaysGone
    BY Zenon DEF Forms!FormsNext
<1>1. IsDialog(Forms!Closed)
    BY DEF IsDialog
<1>2. CASE Forms!LoadPage(a) \/ Forms!Cancel(a)
    <2>1. /\ dialog' = [dialog EXCEPT ![a] = Forms!Closed] /\ UNCHANGED <<form, row>>
          /\ list' = list \/ list' = [list EXCEPT ![a] = row]
        BY <1>2 DEF Forms!LoadPage, Forms!Cancel, Forms!Opens
    <2> QED
        BY <1>1, <2>1, NothingWritten
<1>3. CASE Forms!StartEdit(a)
    <2>1. PICK patch : patch = [c \in form.sends |-> list[a][c]]
        OBVIOUS
    <2>2. PICK d : d = [is |-> "edit", draft |-> patch]
        OBVIOUS
    <2>3. /\ dialog' = [dialog EXCEPT ![a] = d] /\ UNCHANGED <<form, row, list>>
          /\ list[a] # Forms!Gone
        BY <1>3, <2>1, <2>2 DEF Forms!StartEdit, Forms!Opens, Forms!Shows
    <2>4. IsRow(list[a]) /\ form.sends \in SUBSET Forms!Columns
        BY <2>3, PagesAsk DEF FormsInv
    <2>5. OnOrOff(patch) /\ DOMAIN patch = form.sends
        BY <2>1, <2>4 DEF OnOrOff, IsRow
    <2>6. IsDialog(d)
        BY <2>2, <2>5 DEF IsDialog
    <2> QED
        BY <2>3, <2>6, NothingWritten
<1>4. CASE Forms!SaveEdit(a)
    <2>1. CASE UNCHANGED <<form, row, dialog, list>>
        BY <2>1 DEF FormsInv, IsDialog, AsAnnounced, StaysGone
    <2>2. CASE ~UNCHANGED <<form, row, dialog, list>>
        <3>1. PICK patch : patch = dialog[a].draft
            OBVIOUS
        <3>2. /\ dialog[a].is = "edit" /\ row # Forms!Gone /\ row' = Forms!Patched(patch)
              /\ dialog' = [dialog EXCEPT ![a] = Forms!Closed] /\ UNCHANGED form
              /\ list' = [list EXCEPT ![a] = row']
            BY <1>4, <2>2, <3>1 DEF Forms!SaveEdit, Forms!Opens, Forms!Answered
        <3>3. OnOrOff(patch) /\ DOMAIN patch = form.sends /\ dialog[a] # Forms!Closed
            BY <3>1, <3>2, DialogIs DEF Forms!Closed
        <3>4. \A s \in Forms!Switches : s \in DOMAIN patch => Forms!Announced(a, s, patch[s])
            BY <3>1, <3>2, <3>3 DEF Forms!Announced
        <3> QED
            BY <3>2, <3>3, <3>4, AnnouncedWritten
    <2> QED
        BY <2>1, <2>2
<1>5. ASSUME NEW c, NEW v, Forms!Type(a, c, v), c \in Forms!Switches => v \in BOOLEAN
      PROVE  FormsInv' /\ AsAnnounced /\ StaysGone
    <2>1. PICK patch : patch = [dialog[a].draft EXCEPT ![c] = v]
        OBVIOUS
    <2>2. PICK d : d = [dialog[a] EXCEPT !.draft = patch]
        OBVIOUS
    <2>3. /\ dialog[a].is = "edit" /\ UNCHANGED <<form, row, list>> /\ c \in form.sends
          /\ dialog' = [dialog EXCEPT ![a] = d]
        BY <1>5, <2>1, <2>2, Zenon DEF Forms!Type
    <2>4. DOMAIN dialog[a].draft = form.sends /\ OnOrOff(dialog[a].draft)
        BY <2>3, DialogIs
    <2>5. DOMAIN patch = form.sends /\ OnOrOff(patch)
        BY <1>5, <2>1, <2>3, <2>4 DEF OnOrOff
    <2>6. d.is = "edit" /\ d.draft = patch
        BY <2>2, <2>3
    <2>7. IsDialog(d)
        BY <2>5, <2>6 DEF IsDialog
    <2> QED
        BY <2>3, <2>7, NothingWritten
<1>6. ASSUME NEW values, OnOrOff(values), Forms!SendSwitch(a, values),
             row # Forms!Gone =>
                 \A s \in Forms!Switches :
                     s \in DOMAIN values =>
                         /\ dialog[a] # Forms!Closed \/ list[a][s] # values[s]
                         /\ Forms!Announced(a, s, values[s])
      PROVE  FormsInv' /\ AsAnnounced /\ StaysGone
    <2>1. CASE row # Forms!Gone /\ row' = Forms!Switched(values) /\ Forms!Answered(a, TRUE)
        <3>1. /\ row' = Forms!Patched(values) /\ dialog' = [dialog EXCEPT ![a] = Forms!Closed]
              /\ UNCHANGED form /\ list' = [list EXCEPT ![a] = row']
            BY <1>6, <2>1 DEF Forms!SendSwitch, Forms!Opens, Forms!Answered, Forms!Switched
        <3>2. \A s \in Forms!Switches : s \in DOMAIN values => row'[s] = values[s]
            BY <1>6, <2>1, <3>1, PatchedRow DEF FormsInv
        <3>3. \A s \in Forms!Switches :
                  s \in DOMAIN values => dialog[a] # Forms!Closed \/ list[a] # row'
            BY <1>6, <2>1, <3>2
        <3> QED
            BY <1>6, <2>1, <3>1, <3>3, AnnouncedWritten
    <2>2. CASE UNCHANGED row /\ Forms!Answered(a, FALSE)
        <3>1. dialog' = [dialog EXCEPT ![a] = Forms!Closed] /\ UNCHANGED <<form, row, list>>
            BY <1>6, <2>2 DEF Forms!SendSwitch, Forms!Opens, Forms!Answered
        <3> QED
            BY <1>1, <3>1, NothingWritten
    <2> QED
        BY <1>6, <2>1, <2>2 DEF Forms!SendSwitch
<1>7. ASSUME NEW s \in Forms!Switches, NEW drafts \in BOOLEAN, Forms!ClickSwitch(a, s, drafts)
      PROVE  FormsInv' /\ AsAnnounced /\ StaysGone
    <2>1. PICK values : values = Forms!Values(a, s, drafts)
        OBVIOUS
    <2>2. /\ DOMAIN values \in SUBSET Forms!Switches /\ OnOrOff(values)
          /\ ~form.locks => DOMAIN values = {s} /\ values[s] = ~list[a][s]
        BY <1>7, <2>1, ClickedValues
    <2>3. Forms!Offered(a, s) /\ dialog[a] = Forms!Closed /\ IsRow(list[a])
        BY <1>7 DEF Forms!ClickSwitch, Forms!Offered, Forms!Shows, FormsInv
    <2>4. list[a][s] \in BOOLEAN
        BY <1>7, <2>3 DEF IsRow, OnOrOff, Forms!Columns
    <2>5. CASE <<s, ~list[a][s]>> \in form.asks
        <3>1. PICK d : d = [is |-> "switch", values |-> values]
            OBVIOUS
        <3>2. dialog' = [dialog EXCEPT ![a] = d] /\ UNCHANGED <<form, row, list>>
            BY <1>7, <2>1, <2>5, <3>1, Zenon DEF Forms!ClickSwitch, Forms!Opens
        <3>3. IsDialog(d)
            BY <2>2, <3>1 DEF IsDialog
        <3> QED
            BY <3>2, <3>3, NothingWritten
    <2>6. CASE <<s, ~list[a][s]>> \notin form.asks
        <3>1. Forms!SendSwitch(a, values)
            BY <1>7, <2>1, <2>6, Zenon DEF Forms!ClickSwitch
        <3>2. (~list[a][s]) \in BOOLEAN
            BY Zenon
        <3>3. ~form.locks
            BY <1>7, <2>6, <3>2, PagesAsk DEF FormsInv
        <3>4. DOMAIN values = {s} /\ values[s] = ~list[a][s]
            BY <2>2, <3>3
        <3>5. list[a][s] = ~values[s] /\ list[a][s] # values[s]
            BY <2>4, <3>4
        <3>6. Forms!Announced(a, s, values[s])
            BY <2>3, <3>5 DEF Forms!Announced
        <3> QED
            BY <1>6, <2>2, <3>1, <3>4, <3>5, <3>6
    <2> QED
        BY <2>5, <2>6
<1>8. CASE Forms!ConfirmSwitch(a)
    <2>1. PICK values : values = dialog[a].values
        OBVIOUS
    <2>2. dialog[a].is = "switch" /\ Forms!SendSwitch(a, values)
        BY <1>8, <2>1 DEF Forms!ConfirmSwitch
    <2>3. OnOrOff(values) /\ dialog[a] # Forms!Closed
        BY <2>1, <2>2, DialogIs DEF Forms!Closed
    <2>4. \A s \in Forms!Switches : s \in DOMAIN values => Forms!Announced(a, s, values[s])
        BY <2>1, <2>2 DEF Forms!Announced
    <2> QED
        BY <1>6, <2>2, <2>3, <2>4
<1>9. CASE Forms!AskDelete(a)
    <2>1. PICK d : d = [is |-> "delete"]
        OBVIOUS
    <2>2. dialog' = [dialog EXCEPT ![a] = d] /\ UNCHANGED <<form, row, list>>
        BY <1>9, <2>1 DEF Forms!AskDelete, Forms!Opens
    <2>3. IsDialog(d)
        BY <2>1 DEF IsDialog
    <2> QED
        BY <2>2, <2>3, NothingWritten
<1>10. CASE Forms!ConfirmDelete(a)
    <2>1. dialog' = [dialog EXCEPT ![a] = Forms!Closed] /\ UNCHANGED form
        BY <1>10 DEF Forms!ConfirmDelete, Forms!Opens, Forms!Answered
    <2>2. \/ row # Forms!Gone /\ row' = Forms!Gone /\ list' = [list EXCEPT ![a] = row']
          \/ UNCHANGED <<row, list>>
        BY <1>10 DEF Forms!ConfirmDelete, Forms!Answered
    <2>3. CASE row # Forms!Gone /\ row' = Forms!Gone /\ list' = [list EXCEPT ![a] = row']
        BY <2>1, <2>3, RowWritten DEF AsAnnounced
    <2>4. CASE UNCHANGED <<row, list>>
        BY <1>1, <2>1, <2>4, NothingWritten
    <2> QED
        BY <2>2, <2>3, <2>4
<1>11. \A c \in Forms!Texts : c \notin Forms!Switches
    BY DEF Forms!Texts, Forms!Switches
<1> QED
    BY <1>2, <1>3, <1>4, <1>5, <1>7, <1>8, <1>9, <1>10, <1>11

\* A row is switched only by somebody whose page said so, and a deleted one stays so.
LEMMA FormsAreHonest == Spec => Forms!StandingAsAnnounced /\ Forms!DeletedStaysGone
<1> DEFINE Announces ==
        (row # Forms!Gone /\ row' # Forms!Gone) =>
             \A s \in Forms!Switches : row'[s] # row[s] =>
                 \E a \in Admins : Forms!Acts(a) /\ Forms!Announced(a, s, row'[s])
<1>1. Init => FormsInv
    <2> SUFFICES ASSUME Init PROVE FormsInv
        OBVIOUS
    <2>1. /\ form \in Forms!Pages /\ list = [a \in Admins |-> row] /\ dialog = [a \in Admins |-> Forms!Closed]
          /\ row = [name |-> 0, content |-> 0, standing |-> TRUE, flag |-> FALSE]
        BY DEF Init, Forms!FormsInit
    <2>2. IsRow(row)
        BY <2>1 DEF IsRow, OnOrOff, Forms!Columns, Forms!Texts, Forms!Switches
    <2> QED
        BY <2>1, <2>2 DEF FormsInv, IsDialog
<1>2. FormsInv /\ [Next]_vars => FormsInv' /\ [Announces]_Forms!formVars /\ [row = Forms!Gone => row' = Forms!Gone]_Forms!formVars
    <2> SUFFICES ASSUME FormsInv, [Next]_vars
                 PROVE  /\ FormsInv' /\ [Announces]_Forms!formVars
                        /\ [row = Forms!Gone => row' = Forms!Gone]_Forms!formVars
        OBVIOUS
    <2>1. CASE InForms(Forms!FormsNext)
        BY <2>1, FormsStep DEF InForms, AsAnnounced, StaysGone
    <2>2. CASE UNCHANGED formVars
        BY <2>2 DEF formVars, Forms!formVars, FormsInv, IsDialog
    <2>3. ~InForms(Forms!FormsNext) => UNCHANGED formVars
        BY DEF Next, InEvidence, InImports, InLogins, InReminders, InSupport, InCsv, InAutosave, vars
    <2> QED
        BY <2>1, <2>2, <2>3
<1> QED
    BY <1>1, <1>2, PTL DEF Spec, Forms!StandingAsAnnounced, Forms!DeletedStaysGone

-----------------------------------------------------------------------------
(* The copy of a registration                                              *)

Copies == Autosave!Contents \cup {Autosave!NoDraft}
Mails == {Autosave!Keep(text) : text \in Autosave!Contents} \cup {Autosave!Drop, Autosave!Ask}

\* What a request that writes leaves
Left(m) == IF m = Autosave!Drop THEN Autosave!NoDraft ELSE m.text

\* When all that is under way has arrived, in order, over the copy, there will be x.
Ends(under, copy, x) ==
    \/ copy = x /\ \A i \in DOMAIN under : under[i] = Autosave!Ask
    \/ \E i \in DOMAIN under :
          /\ under[i] # Autosave!Ask /\ Left(under[i]) = x
          /\ \A j \in DOMAIN under : j > i => under[j] = Autosave!Ask

\* The requests there are
LEMMA MailIs ==
    ASSUME NEW m \in Mails
    PROVE  /\ m = Autosave!Ask \/ m = Autosave!Drop \/ (m.is = "PATCH" /\ m.text \in Autosave!Contents)
           /\ m = Autosave!Ask <=> m.is = "GET"
           /\ m = Autosave!Drop <=> m.is = "DELETE"
           /\ m # Autosave!Ask => Left(m) \in Copies
    BY DEF Mails, Autosave!Keep, Autosave!Drop, Autosave!Ask, Left, Copies

\* Nothing under way
LEMMA EndsNow == \A copy, x : Ends(<<>>, copy, x) <=> copy = x
    BY DEF Ends

\* One request more, that writes ...
LEMMA EndsWritten ==
    ASSUME NEW under \in Seq(Mails), NEW m \in Mails, m # Autosave!Ask, NEW copy, NEW x
    PROVE  Ends(Append(under, m), copy, x) <=> x = Left(m)
<1>1. PICK more : more = Append(under, m)
    OBVIOUS
<1>2. PICK n \in Nat : n = Len(under) /\ DOMAIN under = 1..n
    OBVIOUS
<1>3. DOMAIN more = 1..(n + 1) /\ (\A i \in 1..n : more[i] = under[i]) /\ more[n + 1] = m
    BY <1>1, <1>2
<1> QED
    BY <1>1, <1>2, <1>3 DEF Ends

\* ... or asks
LEMMA EndsAsked ==
    ASSUME NEW under \in Seq(Mails), NEW copy, NEW x
    PROVE  Ends(Append(under, Autosave!Ask), copy, x) <=> Ends(under, copy, x)
<1>1. PICK more : more = Append(under, Autosave!Ask)
    OBVIOUS
<1>2. PICK n \in Nat : n = Len(under) /\ DOMAIN under = 1..n
    OBVIOUS
<1>3. DOMAIN more = 1..(n + 1) /\ (\A i \in 1..n : more[i] = under[i]) /\ more[n + 1] = Autosave!Ask
    BY <1>1, <1>2
<1> QED
    BY <1>1, <1>2, <1>3 DEF Ends

\* A place behind one that is taken out
LEMMA Shifted ==
    ASSUME NEW n \in Int, NEW p \in Int, NEW j \in Int, 1 <= p, p <= j, j <= n - 1,
           NEW a \in Int, NEW b \in Int, a = p - 1, b = n - p
    PROVE  /\ ~(j <= a) /\ j \in 1..(a + b)
           /\ j - a \in 1..b /\ p + (j - a) = j + 1
    OBVIOUS

\* What is left of the requests under way without the one at i
LEMMA TakenOut ==
    ASSUME NEW under \in Seq(Mails), NEW i \in DOMAIN under
    PROVE  LET rest == Autosave!RemoveAt(under, i)
           IN  /\ rest \in Seq(Mails) /\ Len(rest) = Len(under) - 1
               /\ \A j \in 1..(Len(under) - 1) : rest[j] = IF j < i THEN under[j] ELSE under[j + 1]
<1>1. PICK n \in Nat : n = Len(under) /\ DOMAIN under = 1..n
    OBVIOUS
<1>2. PICK front : front = SubSeq(under, 1, i - 1)
    OBVIOUS
<1>3. PICK back : back = SubSeq(under, i + 1, Len(under))
    OBVIOUS
<1>4. front \in Seq(Mails) /\ Len(front) = i - 1 /\ \A j \in 1..(i - 1) : front[j] = under[j]
    BY <1>1, <1>2, SubSeqProperties
<1>5. back \in Seq(Mails) /\ Len(back) = n - i /\ \A j \in 1..(n - i) : back[j] = under[i + j]
    BY <1>1, <1>3, SubSeqProperties
<1>6. PICK rest : rest = front \o back
    OBVIOUS
<1>7. /\ rest \in Seq(Mails) /\ Len(rest) = Len(front) + Len(back)
      /\ \A j \in 1..(Len(front) + Len(back)) :
             rest[j] = IF j <= Len(front) THEN front[j] ELSE back[j - Len(front)]
    BY <1>4, <1>5, <1>6, ConcatProperties
<1>8. rest = Autosave!RemoveAt(under, i)
    BY <1>2, <1>3, <1>6 DEF Autosave!RemoveAt
<1>9. ASSUME NEW j \in 1..(n - 1)
      PROVE  rest[j] = IF j < i THEN under[j] ELSE under[j + 1]
    <2>1. CASE j < i
        <3>1. i \in 1..n /\ Len(front) = i - 1 /\ Len(back) = n - i
            BY <1>1, <1>4, <1>5
        <3>2. j \in 1..(i - 1) /\ j <= Len(front) /\ j \in 1..(Len(front) + Len(back))
            BY <1>1, <2>1, <3>1
        <3>3. rest[j] = front[j]
            BY <1>7, <3>2
        <3>4. front[j] = under[j]
            BY <1>4, <3>2
        <3> QED
            BY <2>1, <3>3, <3>4
    <2>2. CASE j >= i
        <3>1. i \in 1..n /\ Len(front) = i - 1 /\ Len(back) = n - i
            BY <1>1, <1>4, <1>5
        <3>2. PICK p \in Int, a \in Int, b \in Int : p = i /\ a = Len(front) /\ b = Len(back)
            BY <3>1
        <3>3. j \in Int /\ n \in Int /\ 1 <= p /\ p <= j /\ j <= n - 1 /\ a = p - 1 /\ b = n - p /\ ~(j < p)
            BY <2>2, <3>1, <3>2
        <3>4. /\ ~(j <= a) /\ j \in 1..(a + b)
              /\ j - a \in 1..b /\ p + (j - a) = j + 1
            BY <3>3, Shifted
        <3>5. PICK k \in 1..b : k = j - a /\ p + k = j + 1
            BY <3>4
        <3>6. rest[j] = back[k]
            BY <1>7, <3>2, <3>4, <3>5
        <3>7. back[k] = under[p + k]
            BY <1>5, <3>2, <3>5
        <3> QED
            BY <3>2, <3>3, <3>5, <3>6, <3>7
    <2> QED
        BY <1>1, <2>1, <2>2
<1> QED
    BY <1>1, <1>4, <1>5, <1>7, <1>8, <1>9

\* The first request under way arrives
LEMMA EndsHandled ==
    ASSUME NEW under \in Seq(Mails), under # <<>>, NEW copy, NEW x,
           NEW now, now = IF under[1] = Autosave!Ask THEN copy ELSE Left(under[1])
    PROVE  Ends(Autosave!RemoveAt(under, 1), now, x) <=> Ends(under, copy, x)
<1>1. PICK n \in Nat : n = Len(under) - 1 /\ DOMAIN under = 1..(n + 1) /\ 1 \in DOMAIN under
    OBVIOUS
<1>2. PICK rest : rest = Autosave!RemoveAt(under, 1)
    OBVIOUS
<1>3. DOMAIN rest = 1..n /\ \A j \in 1..n : rest[j] = under[j + 1]
    BY <1>1, <1>2, TakenOut
<1>4. ASSUME Ends(rest, now, x)
      PROVE  Ends(under, copy, x)
    <2>1. CASE now = x /\ \A i \in DOMAIN rest : rest[i] = Autosave!Ask
        <3>1. \A j \in DOMAIN under : j > 1 => under[j] = Autosave!Ask
            <4> SUFFICES ASSUME NEW j \in 2..(n + 1) PROVE under[j] = Autosave!Ask
                BY <1>1
            <4>1. j - 1 \in 1..n /\ (j - 1) + 1 = j
                BY <1>1
            <4> QED
                BY <1>3, <2>1, <4>1
        <3> QED
            BY <1>1, <2>1, <3>1 DEF Ends
    <2>2. ASSUME NEW i \in DOMAIN rest, rest[i] # Autosave!Ask, Left(rest[i]) = x,
                 \A j \in DOMAIN rest : j > i => rest[j] = Autosave!Ask
          PROVE  Ends(under, copy, x)
        <3>1. i + 1 \in DOMAIN under /\ under[i + 1] = rest[i]
            BY <1>1, <1>3, <2>2
        <3>2. ASSUME NEW j \in DOMAIN under, j > i + 1
              PROVE  under[j] = Autosave!Ask
            <4>1. j - 1 \in 1..n /\ (j - 1) + 1 = j /\ j - 1 > i
                BY <1>1, <1>3, <2>2, <3>2
            <4> QED
                BY <1>3, <2>2, <4>1
        <3> QED
            BY <2>2, <3>1, <3>2 DEF Ends
    <2> QED
        BY <1>4, <2>1, <2>2 DEF Ends
<1>5. ASSUME Ends(under, copy, x)
      PROVE  Ends(rest, now, x)
    <2>1. CASE copy = x /\ \A i \in DOMAIN under : under[i] = Autosave!Ask
        BY <1>1, <1>3, <2>1 DEF Ends
    <2>2. ASSUME NEW i \in DOMAIN under, under[i] # Autosave!Ask, Left(under[i]) = x,
                 \A j \in DOMAIN under : j > i => under[j] = Autosave!Ask
          PROVE  Ends(rest, now, x)
        <3>1. CASE i = 1
            <4>1. now = x
                BY <2>2, <3>1
            <4>2. ASSUME NEW j \in 1..n
                  PROVE  rest[j] = Autosave!Ask
                <5>1. j + 1 \in DOMAIN under /\ j + 1 > i
                    BY <1>1, <3>1
                <5> QED
                    BY <1>3, <2>2, <5>1
            <4> QED
                BY <1>3, <4>1, <4>2 DEF Ends
        <3>2. CASE i > 1
            <4>1. PICK k \in 1..n : k = i - 1 /\ k + 1 = i
                BY <1>1, <2>2, <3>2
            <4>2. rest[k] = under[i]
                BY <1>3, <4>1
            <4>3. \A j \in 1..n : j > k => rest[j] = Autosave!Ask
                BY <1>1, <1>3, <2>2, <4>1
            <4> QED
                BY <1>3, <2>2, <4>2, <4>3 DEF Ends
        <3> QED
            BY <1>1, <2>2, <3>1, <3>2
    <2> QED
        BY <1>5, <2>1, <2>2 DEF Ends
<1> QED
    BY <1>2, <1>4, <1>5

\* A question that is last is withdrawn
LEMMA EndsWithdrawn ==
    ASSUME NEW under \in Seq(Mails), under # <<>>, under[Len(under)] = Autosave!Ask, NEW copy, NEW x
    PROVE  Ends(Autosave!RemoveAt(under, Len(under)), copy, x) <=> Ends(under, copy, x)
<1>1. PICK n \in Nat : n = Len(under) - 1 /\ DOMAIN under = 1..(n + 1) /\ n + 1 = Len(under) /\ n + 1 \in DOMAIN under
    OBVIOUS
<1>2. PICK rest : rest = Autosave!RemoveAt(under, n + 1)
    OBVIOUS
<1>3. DOMAIN rest = 1..n /\ \A j \in 1..n : rest[j] = under[j]
    <2>1. /\ rest \in Seq(Mails) /\ Len(rest) = n
          /\ \A j \in 1..n : rest[j] = IF j < n + 1 THEN under[j] ELSE under[j + 1]
        BY <1>1, <1>2, TakenOut
    <2> QED
        BY <1>1, <2>1
<1> QED
    BY <1>1, <1>2, <1>3 DEF Ends

-----------------------------------------------------------------------------
(* What is on the screen, what is under way and what was finished          *)

Loads == Copies \cup {Autosave!Asked, Autosave!Loaded}
Windows == [form : Autosave!Contents, pristine : Autosave!Contents, load : Loads,
            banner : BOOLEAN, timer : BOOLEAN, kept : BOOLEAN, save : {"no", "taken", "refused", "left"}]

\* What the copy should be of a form with nothing to wait for
Held(w) == IF w.form \notin {Autosave!Blank, w.pristine} THEN w.form ELSE Autosave!NoDraft

\* Every piece has its form
Shaped(w, copy, under, done) ==
    /\ w = Autosave!Shut \/ w \in Windows
    /\ copy \in Copies /\ under \in Seq(Mails) /\ done \subseteq Autosave!Contents

\* The question is the last thing asked, while a form waits for its answer
Asking(w, under) ==
    /\ \A i \in DOMAIN under : under[i] = Autosave!Ask =>
           i = Len(under) /\ w # Autosave!Shut /\ w.load = Autosave!Asked
    /\ w # Autosave!Shut /\ w.load = Autosave!Asked => under # <<>> /\ under[Len(under)] = Autosave!Ask

\* Until it is loaded a form is as it first was, and the answer is the copy
Untouched(w, copy, under) ==
    w # Autosave!Shut /\ w.load # Autosave!Loaded =>
        /\ w.form = w.pristine /\ ~w.kept /\ w.save = "no" /\ ~w.banner
        /\ w.load # Autosave!Asked => w.load = copy /\ under = <<>>

\* What is under way ends with what the form holds
Covered(w, copy, under) ==
    w # Autosave!Shut /\ w.load = Autosave!Loaded /\ w.save # "left" =>
        /\ ~w.kept => Ends(under, copy, Autosave!NoDraft)
        /\ ~w.timer => Ends(under, copy, Held(w))

\* What the timer will send was typed since
Fresh(w, done) ==
    w # Autosave!Shut /\ w.timer /\ w.form \notin {Autosave!Blank, w.pristine} => w.form \notin done

\* Nothing that was finished will be there
Gone(w, copy, under, done) ==
    w = Autosave!Shut \/ w.save # "taken" => \A x \in done : ~Ends(under, copy, x)

Fits(w, copy, under, done) ==
    /\ Shaped(w, copy, under, done)
    /\ Asking(w, under) /\ Untouched(w, copy, under)
    /\ Covered(w, copy, under) /\ Fresh(w, done) /\ Gone(w, copy, under, done)

\* What is not there has no content
LEMMA WordsAreWords ==
    /\ Autosave!NoDraft \notin Autosave!Contents /\ Autosave!Asked \notin Autosave!Contents
    /\ Autosave!Loaded \notin Autosave!Contents
    /\ Autosave!NoDraft # Autosave!Asked /\ Autosave!NoDraft # Autosave!Loaded /\ Autosave!Asked # Autosave!Loaded
    /\ Autosave!Asked \notin Copies /\ Autosave!Loaded \notin Copies
<1>1. /\ Autosave!NoDraft # Autosave!Asked /\ Autosave!NoDraft # Autosave!Loaded /\ Autosave!Asked # Autosave!Loaded
      /\ Autosave!Blank # Autosave!NoDraft /\ Autosave!Blank # Autosave!Asked /\ Autosave!Blank # Autosave!Loaded
    BY DEF Autosave!NoDraft, Autosave!Asked, Autosave!Loaded, Autosave!Blank
<1> QED
    BY <1>1, NamesAssumption DEF Autosave!Contents, Copies

\* A form on the screen is a record with its fields
LEMMA WindowIs ==
    ASSUME NEW w \in Windows
    PROVE  /\ w # Autosave!Shut
           /\ w.form \in Autosave!Contents /\ w.pristine \in Autosave!Contents /\ w.load \in Loads
           /\ w.banner \in BOOLEAN /\ w.timer \in BOOLEAN /\ w.kept \in BOOLEAN
           /\ w.save \in {"no", "taken", "refused", "left"}
<1>1. w # Autosave!Shut
    <2>1. DOMAIN w = {"form", "pristine", "load", "banner", "timer", "kept", "save"}
        BY DEF Windows
    <2>2. DOMAIN Autosave!Shut = {"is"}
        BY DEF Autosave!Shut
    <2> QED
        BY <2>1, <2>2
<1> QED
    BY <1>1 DEF Windows

\* One more request that writes
LEMMA WrittenFits ==
    ASSUME NEW w \in Windows, NEW under \in Seq(Mails), NEW m \in Mails, m # Autosave!Ask,
           Asking(w, under), w.load # Autosave!Asked
    PROVE  LET more == Append(under, m)
           IN  /\ more \in Seq(Mails)
               /\ \A i \in DOMAIN more : more[i] # Autosave!Ask
<1>1. PICK more : more = Append(under, m)
    OBVIOUS
<1>2. PICK n \in Nat : n = Len(under) /\ DOMAIN under = 1..n
    OBVIOUS
<1>3. DOMAIN more = 1..(n + 1) /\ (\A i \in 1..n : more[i] = under[i]) /\ more[n + 1] = m /\ more \in Seq(Mails)
    BY <1>1, <1>2
<1>4. \A i \in 1..n : under[i] # Autosave!Ask
    BY <1>2 DEF Asking
<1> QED
    BY <1>1, <1>2, <1>3, <1>4

\* A form that is loaded sends what the copy should be from then on
LEMMA SendingFits ==
    ASSUME NEW w \in Windows, NEW v \in Windows, NEW copy, NEW under, NEW done, NEW m \in Mails,
           Fits(w, copy, under, done), w.load # Autosave!Asked, v.load = Autosave!Loaded, m # Autosave!Ask,
           v.save # "left" => /\ ~v.kept => Left(m) = Autosave!NoDraft
                              /\ ~v.timer => Left(m) = Held(v),
           Fresh(v, done), Left(m) \notin done
    PROVE  Fits(v, copy, Append(under, m), done)
<1>1. under \in Seq(Mails) /\ copy \in Copies /\ done \subseteq Autosave!Contents
    BY DEF Fits, Shaped
<1>2. PICK more : more = Append(under, m)
    OBVIOUS
<1>3. \A x : Ends(more, copy, x) <=> x = Left(m)
    BY <1>1, <1>2, EndsWritten
<1>4. more \in Seq(Mails) /\ \A i \in DOMAIN more : more[i] # Autosave!Ask
    BY <1>1, <1>2, WrittenFits, WindowIs DEF Fits
<1>5. v # Autosave!Shut
    BY WindowIs
<1>6. Shaped(v, copy, more, done)
    BY <1>1, <1>4 DEF Shaped
<1>7. Asking(v, more)
    BY <1>4, WordsAreWords DEF Asking
<1>8. Untouched(v, copy, more)
    BY DEF Untouched
<1>9. Covered(v, copy, more)
    BY <1>3 DEF Covered
<1>10. Gone(v, copy, more, done)
    BY <1>3 DEF Gone
<1> QED
    BY <1>2, <1>6, <1>7, <1>8, <1>9, <1>10 DEF Fits

\* A form that is loaded changes while nothing is sent
LEMMA EditingFits ==
    ASSUME NEW w \in Windows, NEW v \in Windows, NEW copy, NEW under, NEW gone, NEW done,
           Fits(w, copy, under, gone), w.load = Autosave!Loaded, v.load = Autosave!Loaded,
           done \subseteq Autosave!Contents,
           Covered(v, copy, under), Fresh(v, done), Gone(v, copy, under, done)
    PROVE  Fits(v, copy, under, done)
<1>1. Shaped(v, copy, under, done)
    BY DEF Fits, Shaped
<1>2. Asking(v, under)
    BY WordsAreWords DEF Fits, Asking
<1>3. Untouched(v, copy, under)
    BY DEF Untouched
<1> QED
    BY <1>1, <1>2, <1>3 DEF Fits

\* A form is opened, and asks for the copy
LEMMA OpeningFits ==
    ASSUME NEW w, NEW v, NEW copy, NEW under, NEW done, NEW defaults \in Autosave!Contents,
           Fits(w, copy, under, done), w = Autosave!Shut,
           v = [form |-> defaults, pristine |-> defaults, load |-> Autosave!Asked, banner |-> FALSE,
                timer |-> TRUE, kept |-> FALSE, save |-> "no"]
    PROVE  Fits(v, copy, Append(under, Autosave!Ask), done)
<1>1. under \in Seq(Mails) /\ copy \in Copies /\ done \subseteq Autosave!Contents
    BY DEF Fits, Shaped
<1>2. PICK more : more = Append(under, Autosave!Ask)
    OBVIOUS
<1>3. \A x : Ends(more, copy, x) <=> Ends(under, copy, x)
    BY <1>1, <1>2, EndsAsked
<1>4. PICK n \in Nat : n = Len(under) /\ DOMAIN under = 1..n
    BY <1>1
<1>5. Autosave!Ask \in Mails
    BY DEF Mails
<1>6. /\ DOMAIN more = 1..(n + 1) /\ Len(more) = n + 1 /\ more \in Seq(Mails)
      /\ (\A i \in 1..n : more[i] = under[i]) /\ more[n + 1] = Autosave!Ask
    BY <1>1, <1>2, <1>4, <1>5
<1>7. \A i \in 1..n : under[i] # Autosave!Ask
    BY <1>4 DEF Fits, Asking
<1>8. v \in Windows
    BY DEF Windows, Loads
<1>9. v # Autosave!Shut
    BY <1>8, WindowIs
<1>10. Shaped(v, copy, more, done)
    BY <1>1, <1>6, <1>8 DEF Shaped
<1>11. Asking(v, more)
    BY <1>4, <1>6, <1>7, <1>9 DEF Asking
<1>12. Untouched(v, copy, more)
    BY DEF Untouched
<1>13. Covered(v, copy, more)
    BY WordsAreWords DEF Covered
<1>14. Fresh(v, done)
    BY DEF Fresh
<1>15. Gone(v, copy, more, done)
    BY <1>3 DEF Fits, Gone
<1> QED
    BY <1>2, <1>10, <1>11, <1>12, <1>13, <1>14, <1>15 DEF Fits

\* The question arrives: it was the only request, and is answered with the copy
LEMMA AnsweringFits ==
    ASSUME NEW w, NEW copy, NEW under, NEW done, Fits(w, copy, under, done),
           under # <<>>, under[1] = Autosave!Ask
    PROVE  Fits([w EXCEPT !.load = copy], copy, Autosave!RemoveAt(under, 1), done)
<1>1. under \in Seq(Mails) /\ copy \in Copies /\ done \subseteq Autosave!Contents
    BY DEF Fits, Shaped
<1>2. 1 \in DOMAIN under
    BY <1>1
<1>3. Len(under) = 1 /\ w # Autosave!Shut /\ w.load = Autosave!Asked
    BY <1>2 DEF Fits, Asking
<1>4. w \in Windows
    BY <1>3 DEF Fits, Shaped
<1>5. PICK v : v = [w EXCEPT !.load = copy]
    OBVIOUS
<1>6. /\ v \in Windows /\ v.load = copy /\ v.form = w.form /\ v.pristine = w.pristine
      /\ v.kept = w.kept /\ v.save = w.save /\ v.banner = w.banner /\ v.timer = w.timer
    BY <1>1, <1>4, <1>5 DEF Windows, Loads
<1>7. PICK rest : rest = Autosave!RemoveAt(under, 1)
    OBVIOUS
<1>8. rest \in Seq(Mails) /\ Len(rest) = 0
    BY <1>1, <1>2, <1>3, <1>7, TakenOut
<1>9. rest = <<>>
    BY <1>8
<1>10. v.load # Autosave!Asked /\ v.load # Autosave!Loaded
    BY <1>1, <1>6, WordsAreWords
<1>11. Shaped(v, copy, rest, done)
    BY <1>1, <1>6, <1>8 DEF Shaped
<1>12. Asking(v, rest)
    BY <1>9, <1>10 DEF Asking
<1>13. Untouched(v, copy, rest)
    BY <1>3, <1>6, <1>9, WordsAreWords DEF Fits, Untouched
<1>14. Covered(v, copy, rest)
    BY <1>10 DEF Covered
<1>15. Fresh(v, done)
    BY <1>3, <1>6 DEF Fits, Fresh
<1>16. \A x : Ends(rest, copy, x) <=> Ends(under, copy, x)
    BY <1>1, <1>7, EndsHandled
<1>17. Gone(v, copy, rest, done)
    <2>1. w.save # "taken"
        BY <1>3, WordsAreWords DEF Fits, Untouched
    <2> QED
        BY <1>16, <2>1 DEF Fits, Gone
<1> QED
    BY <1>5, <1>7, <1>11, <1>12, <1>13, <1>14, <1>15, <1>17 DEF Fits

\* A request that writes arrives: the copy is what it leaves
LEMMA WritingFits ==
    ASSUME NEW w, NEW copy, NEW under, NEW done, Fits(w, copy, under, done),
           under # <<>>, under[1] # Autosave!Ask
    PROVE  Fits(w, Left(under[1]), Autosave!RemoveAt(under, 1), done)
<1>1. under \in Seq(Mails) /\ copy \in Copies /\ done \subseteq Autosave!Contents
    BY DEF Fits, Shaped
<1>2. PICK n \in Nat : n = Len(under) - 1 /\ DOMAIN under = 1..(n + 1) /\ Len(under) = n + 1 /\ 1 \in DOMAIN under
    BY <1>1
<1>3. PICK m \in Mails : m = under[1]
    BY <1>1, <1>2
<1>4. Left(m) \in Copies
    BY <1>3, MailIs
<1>5. PICK rest : rest = Autosave!RemoveAt(under, 1)
    OBVIOUS
<1>6. DOMAIN rest = 1..n /\ rest \in Seq(Mails) /\ Len(rest) = n /\ \A j \in 1..n : rest[j] = under[j + 1]
    BY <1>1, <1>2, <1>5, TakenOut
<1>7. \A x : Ends(rest, Left(m), x) <=> Ends(under, copy, x)
    BY <1>1, <1>3, <1>5, EndsHandled
<1>8. Shaped(w, Left(m), rest, done)
    BY <1>1, <1>4, <1>6 DEF Fits, Shaped
<1>9. Asking(w, rest)
    <2>1. ASSUME NEW i \in DOMAIN rest, rest[i] = Autosave!Ask
          PROVE  i = Len(rest) /\ w # Autosave!Shut /\ w.load = Autosave!Asked
        <3>1. i + 1 \in DOMAIN under /\ under[i + 1] = Autosave!Ask
            BY <1>2, <1>6, <2>1
        <3>2. i + 1 = Len(under) /\ w # Autosave!Shut /\ w.load = Autosave!Asked
            BY <3>1 DEF Fits, Asking
        <3> QED
            BY <1>2, <1>6, <2>1, <3>2
    <2>2. ASSUME w # Autosave!Shut, w.load = Autosave!Asked
          PROVE  rest # <<>> /\ rest[Len(rest)] = Autosave!Ask
        <3>1. under[n + 1] = Autosave!Ask
            BY <1>2, <2>2 DEF Fits, Asking
        <3>2. n > 0
            BY <1>2, <3>1
        <3> QED
            BY <1>2, <1>6, <3>1, <3>2
    <2> QED
        BY <2>1, <2>2 DEF Asking
<1>10. Untouched(w, Left(m), rest)
    BY DEF Fits, Untouched
<1>11. Covered(w, Left(m), rest)
    BY <1>7 DEF Fits, Covered
<1>12. Gone(w, Left(m), rest, done)
    BY <1>7 DEF Fits, Gone
<1> QED
    BY <1>3, <1>5, <1>8, <1>9, <1>10, <1>11, <1>12 DEF Fits

\* A form that is left takes its question along
LEMMA LeavingFits ==
    ASSUME NEW w, NEW copy, NEW under, NEW rest, NEW done, Fits(w, copy, under, done),
           w # Autosave!Shut, w.save \in {"no", "left"},
           \/ \E i \in DOMAIN under : under[i] = Autosave!Ask /\ rest = Autosave!RemoveAt(under, i)
           \/ (\A i \in DOMAIN under : under[i] # Autosave!Ask) /\ rest = under
    PROVE  Fits(Autosave!Shut, copy, rest, done)
<1>1. under \in Seq(Mails) /\ copy \in Copies /\ done \subseteq Autosave!Contents
    BY DEF Fits, Shaped
<1> DEFINE Same ==
        /\ rest \in Seq(Mails) /\ \A x : Ends(rest, copy, x) <=> Ends(under, copy, x)
        /\ \A i \in DOMAIN rest : rest[i] # Autosave!Ask
<1>2. Same
    <2>1. ASSUME NEW i \in DOMAIN under, under[i] = Autosave!Ask, rest = Autosave!RemoveAt(under, i)
          PROVE  Same
        <3>1. i = Len(under)
            BY <2>1 DEF Fits, Asking
        <3>2. under # <<>> /\ under[Len(under)] = Autosave!Ask
            BY <1>1, <2>1, <3>1
        <3>3. rest \in Seq(Mails) /\ \A x : Ends(rest, copy, x) <=> Ends(under, copy, x)
            BY <1>1, <2>1, <3>1, <3>2, EndsWithdrawn, TakenOut
        <3>4. PICK n \in Nat : n = Len(under) - 1 /\ Len(under) = n + 1 /\ DOMAIN under = 1..(n + 1)
            BY <1>1, <3>2
        <3>5. DOMAIN rest = 1..n /\ \A j \in 1..n : rest[j] = under[j]
            <4>1. /\ Len(rest) = n
                  /\ \A j \in 1..n : rest[j] = IF j < i THEN under[j] ELSE under[j + 1]
                BY <1>1, <2>1, <3>4, TakenOut
            <4> QED
                BY <3>1, <3>3, <3>4, <4>1
        <3>6. \A j \in 1..n : under[j] # Autosave!Ask
            BY <3>4 DEF Fits, Asking
        <3> QED
            BY <3>3, <3>5, <3>6
    <2>2. CASE (\A i \in DOMAIN under : under[i] # Autosave!Ask) /\ rest = under
        BY <1>1, <2>2
    <2> QED
        BY <2>1, <2>2
<1>3. w.save # "taken"
    OBVIOUS
<1>4. Gone(Autosave!Shut, copy, rest, done)
    BY <1>2, <1>3 DEF Fits, Gone
<1> QED
    BY <1>1, <1>2, <1>4 DEF Fits, Shaped, Asking, Untouched, Covered, Fresh

\* The copy expires while no form is open
LEMMA ExpiringFits ==
    ASSUME NEW copy, NEW under, NEW done, Fits(Autosave!Shut, copy, under, done)
    PROVE  Fits(Autosave!Shut, Autosave!NoDraft, under, done)
<1>1. done \subseteq Autosave!Contents
    BY DEF Fits, Shaped
<1>2. \A x \in done : Ends(under, Autosave!NoDraft, x) => Ends(under, copy, x)
    BY <1>1, WordsAreWords DEF Ends
<1>3. Gone(Autosave!Shut, Autosave!NoDraft, under, done)
    BY <1>2 DEF Fits, Gone
<1>4. Autosave!NoDraft \in Copies
    BY DEF Copies
<1> QED
    BY <1>3, <1>4 DEF Fits, Shaped, Asking, Untouched, Covered, Fresh

-----------------------------------------------------------------------------
AutosaveFits == Fits(window, draft, sent, finished)

\* As long as requests arrive in order and the user waits; nothing moves in
\* the other parts
AutosaveInv == calm \/ part # "autosave" => AutosaveFits

\* Every step of a calm part keeps the copy and the form together.
LEMMA AutosaveStep ==
    ASSUME calm, AutosaveFits, Autosave!AutosaveNext
    PROVE  AutosaveFits'
<1>1. ASSUME NEW i \in 1..MaxSent, Autosave!Handle(i)
      PROVE  AutosaveFits'
    <2>1. /\ i = 1 /\ 1 \in DOMAIN sent /\ UNCHANGED finished
          /\ sent' = Autosave!RemoveAt(sent, 1) /\ Autosave!Handled(sent[1], TRUE)
        BY <1>1 DEF Autosave!Handle
    <2>2. sent \in Seq(Mails) /\ sent # <<>>
        BY <2>1 DEF AutosaveFits, Fits, Shaped
    <2>3. PICK m \in Mails : m = sent[1]
        BY <2>1, <2>2
    <2>4. CASE m = Autosave!Ask
        <3>1. m.is = "GET"
            BY <2>4, MailIs
        <3>2. draft' = draft /\ window' = [window EXCEPT !.load = draft]
            BY <2>1, <2>3, <2>4, <3>1 DEF Autosave!Handled
        <3> QED
            BY <2>1, <2>2, <2>3, <2>4, <3>2, AnsweringFits DEF AutosaveFits
    <2>5. CASE m # Autosave!Ask
        <3>1. draft' = Left(m) /\ UNCHANGED window
            BY <2>1, <2>3, <2>5, MailIs DEF Autosave!Handled, Left
        <3> QED
            BY <2>1, <2>2, <2>3, <2>5, <3>1, WritingFits DEF AutosaveFits
    <2> QED
        BY <2>4, <2>5
<1>2. ASSUME NEW i \in 1..MaxSent, Autosave!Lose(i)
      PROVE  AutosaveFits'
    BY <1>2 DEF Autosave!Lose
<1>3. ASSUME NEW text \in Autosave!Contents, Autosave!Open(text)
      PROVE  AutosaveFits'
    <2>1. /\ window = Autosave!Shut /\ sent' = Append(sent, Autosave!Ask) /\ UNCHANGED <<draft, finished>>
          /\ window' = [form |-> text, pristine |-> text, load |-> Autosave!Asked, banner |-> FALSE,
                        timer |-> TRUE, kept |-> FALSE, save |-> "no"]
        BY <1>3 DEF Autosave!Open, Autosave!OnScreen, Autosave!Sends
    <2> QED
        BY <2>1, OpeningFits DEF AutosaveFits
<1>4. ASSUME NEW text \in Autosave!Contents, Autosave!Type(text)
      PROVE  AutosaveFits'
    <2>1. /\ window # Autosave!Shut /\ window.load = Autosave!Loaded /\ UNCHANGED <<draft, sent>>
          /\ window' = [window EXCEPT !.form = text, !.timer = TRUE] /\ finished' = finished \ {text}
        BY <1>4 DEF Autosave!Type, Autosave!Ready, Autosave!OnScreen
    <2>2. PICK w \in Windows : w = window
        BY <2>1 DEF AutosaveFits, Fits, Shaped
    <2>3. PICK v : v = window'
        OBVIOUS
    <2>4. /\ v \in Windows /\ v.form = text /\ v.timer = TRUE /\ v.load = w.load /\ v.kept = w.kept
          /\ v.save = w.save
        BY <2>1, <2>2, <2>3 DEF Windows
    <2>5. Covered(v, draft, sent)
        BY <2>1, <2>2, <2>4 DEF AutosaveFits, Fits, Covered
    <2>6. Fresh(v, finished')
        BY <2>1, <2>4 DEF Fresh
    <2>7. Gone(v, draft, sent, finished')
        BY <2>1, <2>2, <2>4, WindowIs DEF AutosaveFits, Fits, Gone
    <2>8. finished' \subseteq Autosave!Contents
        BY <2>1 DEF AutosaveFits, Fits, Shaped
    <2> QED
        BY <2>1, <2>2, <2>3, <2>4, <2>5, <2>6, <2>7, <2>8, EditingFits DEF AutosaveFits
<1>5. CASE Autosave!Expire
    <2>1. window = Autosave!Shut /\ draft' = Autosave!NoDraft /\ UNCHANGED <<window, sent, finished>>
        BY <1>5 DEF Autosave!Expire
    <2> QED
        BY <2>1, ExpiringFits DEF AutosaveFits
<1>6. CASE Autosave!Restore
    <2>1. /\ window # Autosave!Shut /\ window.load # Autosave!Asked /\ window.load # Autosave!Loaded
          /\ UNCHANGED <<draft, finished>>
        BY <1>6 DEF Autosave!Restore, Autosave!OnScreen
    <2>2. PICK w \in Windows : w = window
        BY <2>1 DEF AutosaveFits, Fits, Shaped
    <2>3. /\ w.load = draft /\ sent = <<>> /\ w.form = w.pristine /\ ~w.kept /\ w.save = "no"
          /\ draft \in Copies /\ finished \subseteq Autosave!Contents
        BY <2>1, <2>2 DEF AutosaveFits, Fits, Untouched, Shaped
    <2>4. PICK v : v = window'
        OBVIOUS
    <2>5. Gone(w, draft, sent, finished) /\ Fresh(w, finished)
        BY <2>2 DEF AutosaveFits, Fits
    <2>6. CASE w.load = Autosave!NoDraft \/ ~Autosave!HasInput(w.load)
        <3>0. v = [w EXCEPT !.load = Autosave!Loaded]
            BY <1>6, <2>2, <2>4, <2>6 DEF Autosave!Restore
        <3>1. /\ v \in Windows /\ v.load = Autosave!Loaded /\ v.form = v.pristine /\ ~v.kept /\ v.save = "no"
            BY <2>2, <2>3, <3>0 DEF Windows, Loads
        <3>2. Held(v) = Autosave!NoDraft /\ Fresh(v, finished)
            BY <3>1 DEF Held, Fresh
        <3>3. CASE w.load = Autosave!NoDraft /\ sent' = sent
            <4>1. Covered(v, draft, sent)
                BY <2>3, <3>2, <3>3, EndsNow DEF Covered
            <4>2. Gone(v, draft, sent, finished)
                BY <2>3, <2>5 DEF Gone
            <4>3. Fits(v, draft, sent, finished)
                <5>1. Shaped(v, draft, sent, finished)
                    BY <3>1 DEF AutosaveFits, Fits, Shaped
                <5>2. Asking(v, sent)
                    BY <2>3, <3>1, WordsAreWords DEF Asking
                <5>3. Untouched(v, draft, sent)
                    BY <3>1 DEF Untouched
                <5> QED
                    BY <3>2, <4>1, <4>2, <5>1, <5>2, <5>3 DEF Fits
            <4> QED
                BY <2>1, <2>4, <3>3, <4>3 DEF AutosaveFits
        <3>4. CASE sent' = Append(sent, Autosave!Drop)
            <4>1. PICK m \in Mails : m = Autosave!Drop /\ m # Autosave!Ask /\ Left(m) = Autosave!NoDraft
                BY DEF Mails, Autosave!Drop, Autosave!Ask, Left
            <4>2. Left(m) \notin finished
                BY <2>3, <4>1, WordsAreWords
            <4>3. Fits(w, draft, sent, finished) /\ w.load # Autosave!Asked
                BY <2>1, <2>2 DEF AutosaveFits
            <4>4. Fits(v, draft, Append(sent, m), finished)
                BY <3>1, <3>2, <4>1, <4>2, <4>3, SendingFits
            <4> QED
                BY <2>1, <2>4, <3>4, <4>1, <4>4 DEF AutosaveFits
        <3> QED
            BY <1>6, <2>2, <2>6, <3>3, <3>4 DEF Autosave!Restore, Autosave!Sends
    <2>7. CASE w.load # Autosave!NoDraft /\ Autosave!HasInput(w.load)
        <3>1. /\ w.load # Autosave!NoDraft /\ Autosave!HasInput(w.load) /\ sent' = sent
              /\ v = [w EXCEPT !.form = w.load, !.load = Autosave!Loaded, !.banner = TRUE,
                               !.timer = FALSE, !.kept = TRUE]
            BY <1>6, <2>2, <2>4, <2>7 DEF Autosave!Restore
        <3>2. w.load \in Autosave!Contents
            BY <2>3, <3>1 DEF Copies
        <3>3. /\ v \in Windows /\ v.load = Autosave!Loaded /\ v.form = w.load /\ v.pristine = w.pristine
              /\ v.kept /\ ~v.timer /\ v.save = "no"
            BY <2>2, <2>3, <3>1, <3>2 DEF Windows, Loads
        <3>4. Held(v) = w.load
            BY <2>2, <3>1, <3>3 DEF Held, Autosave!HasInput
        <3>5. Covered(v, draft, sent)
            BY <2>3, <3>3, <3>4, EndsNow DEF Covered
        <3>6. Gone(v, draft, sent, finished)
            BY <2>3, <2>5 DEF Gone
        <3>7. Fresh(v, finished)
            BY <3>3 DEF Fresh
        <3>8. Shaped(v, draft, sent, finished)
            BY <3>3 DEF AutosaveFits, Fits, Shaped
        <3>9. Asking(v, sent)
            BY <2>3, <3>3, WordsAreWords DEF Asking
        <3>10. Untouched(v, draft, sent)
            BY <3>3 DEF Untouched
        <3> QED
            BY <2>1, <2>4, <3>1, <3>5, <3>6, <3>7, <3>8, <3>9, <3>10 DEF AutosaveFits, Fits
    <2> QED
        BY <2>6, <2>7
<1>7. CASE Autosave!AutosaveTick
    <2>1. window # Autosave!Shut /\ window.timer /\ UNCHANGED <<draft, finished>>
        BY <1>7 DEF Autosave!AutosaveTick, Autosave!OnScreen
    <2>2. PICK w \in Windows : w = window
        BY <2>1 DEF AutosaveFits, Fits, Shaped
    <2>3. PICK input \in BOOLEAN : input <=> w.form \notin {Autosave!Blank, w.pristine}
        OBVIOUS
    <2>4. Autosave!HasInput(window.form) = input
        BY <2>2, <2>3 DEF Autosave!HasInput
    <2>5. PICK v : v = window'
        OBVIOUS
    <2>6. v = [w EXCEPT !.timer = FALSE, !.kept = input]
        BY <1>7, <2>2, <2>4, <2>5 DEF Autosave!AutosaveTick
    <2>7. /\ v \in Windows /\ v.load = w.load /\ v.form = w.form /\ v.pristine = w.pristine
          /\ v.kept = input /\ ~v.timer /\ v.save = w.save /\ v.banner = w.banner
        BY <2>2, <2>3, <2>6 DEF Windows
    <2>8. /\ Fits(w, draft, sent, finished) /\ finished \subseteq Autosave!Contents /\ draft \in Copies
          /\ w # Autosave!Shut /\ v # Autosave!Shut /\ w.timer
        BY <2>1, <2>2, <2>7, WindowIs DEF AutosaveFits, Fits, Shaped
    <2>9. Fresh(v, finished) /\ Held(v) = IF input THEN w.form ELSE Autosave!NoDraft
        BY <2>3, <2>7 DEF Fresh, Held
    <2>10. ASSUME NEW m \in Mails, m # Autosave!Ask, w.load = Autosave!Loaded, Left(m) = Held(v),
                  Left(m) \notin finished, sent' = Append(sent, m)
           PROVE  AutosaveFits'
        <3>1. w.load # Autosave!Asked /\ v.load = Autosave!Loaded
            BY <2>7, <2>10, WordsAreWords
        <3>2. ~v.kept => Left(m) = Autosave!NoDraft
            BY <2>7, <2>9, <2>10
        <3>3. Fits(v, draft, Append(sent, m), finished)
            BY <2>7, <2>8, <2>9, <2>10, <3>1, <3>2, SendingFits
        <3> QED
            BY <2>1, <2>5, <2>10, <3>3 DEF AutosaveFits
    <2>11. CASE input
        <3>1. sent' = Append(sent, Autosave!Keep(w.form))
            BY <1>7, <2>2, <2>4, <2>11 DEF Autosave!AutosaveTick, Autosave!Sends
        <3>2. w.load = Autosave!Loaded
            BY <2>3, <2>8, <2>11 DEF Fits, Untouched
        <3>3. w.form \in Autosave!Contents /\ w.form \notin finished
            BY <2>3, <2>8, <2>11, WindowIs DEF Fits, Fresh
        <3>4. PICK m \in Mails : m = Autosave!Keep(w.form)
            BY <3>3 DEF Mails
        <3>5. m # Autosave!Ask /\ Left(m) = w.form
            BY <3>4 DEF Autosave!Keep, Autosave!Ask, Autosave!Drop, Left
        <3> QED
            BY <2>9, <2>10, <2>11, <3>1, <3>2, <3>3, <3>4, <3>5
    <2>12. CASE ~input /\ w.kept
        <3>1. sent' = Append(sent, Autosave!Drop)
            BY <1>7, <2>2, <2>4, <2>12 DEF Autosave!AutosaveTick, Autosave!Sends
        <3>2. w.load = Autosave!Loaded
            BY <2>8, <2>12 DEF Fits, Untouched
        <3>3. PICK m \in Mails : m = Autosave!Drop /\ m # Autosave!Ask /\ Left(m) = Autosave!NoDraft
            BY DEF Mails, Autosave!Drop, Autosave!Ask, Left
        <3>4. Left(m) \notin finished
            BY <2>8, <3>3, WordsAreWords
        <3> QED
            BY <2>9, <2>10, <2>12, <3>1, <3>2, <3>3, <3>4
    <2>13. CASE ~input /\ ~w.kept
        <3>1. sent' = sent
            BY <1>7, <2>2, <2>4, <2>13 DEF Autosave!AutosaveTick
        <3>2. Shaped(v, draft, sent, finished)
            BY <2>7, <2>8 DEF Fits, Shaped
        <3>3. Asking(v, sent)
            BY <2>7, <2>8 DEF Fits, Asking
        <3>4. Untouched(v, draft, sent)
            BY <2>7, <2>8, <2>13 DEF Fits, Untouched
        <3>5. Covered(v, draft, sent)
            BY <2>7, <2>8, <2>9, <2>13 DEF Fits, Covered
        <3>6. Gone(v, draft, sent, finished)
            BY <2>7, <2>8 DEF Fits, Gone
        <3> QED
            BY <2>1, <2>5, <2>9, <3>1, <3>2, <3>3, <3>4, <3>5, <3>6 DEF AutosaveFits, Fits
    <2> QED
        BY <2>11, <2>12, <2>13
<1>8. CASE Autosave!Discard
    <2>1. /\ window # Autosave!Shut /\ window.load = Autosave!Loaded /\ UNCHANGED <<draft, finished>>
          /\ window' = [window EXCEPT !.form = window.pristine, !.banner = FALSE, !.timer = FALSE, !.kept = FALSE]
          /\ sent' = Append(sent, Autosave!Drop)
        BY <1>8 DEF Autosave!Discard, Autosave!Ready, Autosave!OnScreen, Autosave!Sends
    <2>2. PICK w \in Windows : w = window
        BY <2>1 DEF AutosaveFits, Fits, Shaped
    <2>3. PICK v : v = window'
        OBVIOUS
    <2>4. v \in Windows /\ v.form = v.pristine /\ v.load = Autosave!Loaded
        BY <2>1, <2>2, <2>3 DEF Windows
    <2>5. Fresh(v, finished) /\ Held(v) = Autosave!NoDraft
        BY <2>4 DEF Fresh, Held
    <2>6. PICK m \in Mails : m = Autosave!Drop /\ m # Autosave!Ask /\ Left(m) = Autosave!NoDraft
        BY DEF Mails, Autosave!Drop, Autosave!Ask, Left
    <2>7. Left(m) \notin finished
        BY <2>6, WordsAreWords DEF AutosaveFits, Fits, Shaped
    <2>8. Fits(w, draft, sent, finished) /\ w.load # Autosave!Asked
        BY <2>1, <2>2, WordsAreWords DEF AutosaveFits
    <2>9. Fits(v, draft, Append(sent, m), finished)
        BY <2>4, <2>5, <2>6, <2>7, <2>8, SendingFits
    <2> QED
        BY <2>1, <2>3, <2>6, <2>9 DEF AutosaveFits
<1>9. CASE Autosave!Save
    <2>1. /\ window # Autosave!Shut /\ window.load = Autosave!Loaded /\ window.save = "no" /\ ~window.timer
          /\ UNCHANGED <<draft, sent>>
          /\ \/ /\ window' = [window EXCEPT !.save = "taken"] /\ finished' = finished \cup {window.form}
             \/ /\ window' = [window EXCEPT !.save = "refused"] /\ finished' = finished
        BY <1>9 DEF Autosave!Save, Autosave!Ready, Autosave!OnScreen
    <2>2. PICK w \in Windows : w = window
        BY <2>1 DEF AutosaveFits, Fits, Shaped
    <2>3. PICK v : v = window'
        OBVIOUS
    <2>4. /\ v \in Windows /\ v.load = Autosave!Loaded /\ v.form = w.form /\ v.pristine = w.pristine
          /\ v.kept = w.kept /\ ~v.timer
          /\ v.save = "taken" \/ (v.save = "refused" /\ finished' = finished)
        BY <2>1, <2>2, <2>3 DEF Windows
    <2>5. Fits(w, draft, sent, finished) /\ w # Autosave!Shut /\ v # Autosave!Shut
        BY <2>2, <2>4, WindowIs DEF AutosaveFits
    <2>6. Covered(v, draft, sent)
        BY <2>1, <2>2, <2>4, <2>5 DEF Fits, Covered, Held
    <2>7. Fresh(v, finished')
        BY <2>4 DEF Fresh
    <2>8. Gone(v, draft, sent, finished')
        BY <2>1, <2>2, <2>4, <2>5 DEF Fits, Gone
    <2>9. finished' \subseteq Autosave!Contents
        BY <2>1, <2>2, <2>5, WindowIs DEF Fits, Shaped
    <2> QED
        BY <2>1, <2>2, <2>3, <2>4, <2>5, <2>6, <2>7, <2>8, <2>9, EditingFits DEF AutosaveFits
<1>10. CASE Autosave!Finished
    <2>1. /\ window # Autosave!Shut /\ window.save = "taken" /\ window' = [window EXCEPT !.save = "left"]
          /\ sent' = Append(sent, Autosave!Drop) /\ UNCHANGED <<draft, finished>>
        BY <1>10 DEF Autosave!Finished, Autosave!OnScreen, Autosave!Sends
    <2>2. PICK w \in Windows : w = window
        BY <2>1 DEF AutosaveFits, Fits, Shaped
    <2>3. PICK v : v = window'
        OBVIOUS
    <2>4. /\ v \in Windows /\ v.form = w.form /\ v.pristine = w.pristine /\ v.load = w.load /\ v.save = "left"
          /\ v.timer = w.timer
        BY <2>1, <2>2, <2>3 DEF Windows
    <2>5. Fits(w, draft, sent, finished) /\ w # Autosave!Shut
        BY <2>1, <2>2 DEF AutosaveFits
    <2>6. w.load = Autosave!Loaded /\ w.load # Autosave!Asked
        BY <2>1, <2>2, <2>5, WordsAreWords DEF Fits, Untouched
    <2>7. Fresh(v, finished)
        BY <2>4, <2>5 DEF Fits, Fresh
    <2>8. PICK m \in Mails : m = Autosave!Drop /\ m # Autosave!Ask /\ Left(m) = Autosave!NoDraft
        BY DEF Mails, Autosave!Drop, Autosave!Ask, Left
    <2>9. Left(m) \notin finished
        BY <2>5, <2>8, WordsAreWords DEF Fits, Shaped
    <2>10. Fits(v, draft, Append(sent, m), finished)
        BY <2>4, <2>5, <2>6, <2>7, <2>8, <2>9, SendingFits
    <2> QED
        BY <2>1, <2>3, <2>8, <2>10 DEF AutosaveFits
<1>11. CASE Autosave!Failed
    <2>1. /\ window # Autosave!Shut /\ window.save = "refused" /\ window' = [window EXCEPT !.save = "no"]
          /\ UNCHANGED <<draft, sent, finished>>
        BY <1>11 DEF Autosave!Failed, Autosave!OnScreen
    <2>2. PICK w \in Windows : w = window
        BY <2>1 DEF AutosaveFits, Fits, Shaped
    <2>3. PICK v : v = window'
        OBVIOUS
    <2>4. /\ v \in Windows /\ v.form = w.form /\ v.pristine = w.pristine /\ v.load = w.load /\ v.save = "no"
          /\ v.timer = w.timer /\ v.kept = w.kept
        BY <2>1, <2>2, <2>3 DEF Windows
    <2>5. Fits(w, draft, sent, finished) /\ w # Autosave!Shut /\ w.save = "refused"
        BY <2>1, <2>2 DEF AutosaveFits
    <2>6. w.load = Autosave!Loaded
        BY <2>5 DEF Fits, Untouched
    <2>7. Fresh(v, finished)
        BY <2>4, <2>5 DEF Fits, Fresh
    <2>8. Covered(v, draft, sent)
        BY <2>4, <2>5 DEF Fits, Covered, Held
    <2>9. Gone(v, draft, sent, finished)
        BY <2>5 DEF Fits, Gone
    <2>10. finished \subseteq Autosave!Contents
        BY <2>5 DEF Fits, Shaped
    <2>11. Fits(v, draft, sent, finished)
        BY <2>4, <2>5, <2>6, <2>7, <2>8, <2>9, <2>10, EditingFits
    <2> QED
        BY <2>1, <2>3, <2>11 DEF AutosaveFits
<1>12. CASE Autosave!Leave
    <2>1. /\ window # Autosave!Shut /\ window.save \in {"no", "left"} /\ window' = Autosave!Shut
          /\ UNCHANGED <<draft, finished>>
          /\ \/ \E i \in DOMAIN sent : sent[i] = Autosave!Ask /\ sent' = Autosave!RemoveAt(sent, i)
             \/ (\A i \in DOMAIN sent : sent[i] # Autosave!Ask) /\ sent' = sent
        BY <1>12 DEF Autosave!Leave, Autosave!OnScreen
    <2> QED
        BY <2>1, LeavingFits DEF AutosaveFits
<1> QED
    BY <1>1, <1>2, <1>3, <1>4, <1>5, <1>6, <1>7, <1>8, <1>9, <1>10, <1>11, <1>12 DEF Autosave!AutosaveNext

\* Through, at rest or left, the copy is what was meant.
LEMMA CopyFollows ==
    ASSUME AutosaveFits
    PROVE  Autosave!CopyFollowsForm
<1> SUFFICES ASSUME sent = <<>>
             PROVE  /\ Autosave!AtRest =>
                           draft = IF Autosave!HasInput(window.form) THEN window.form ELSE Autosave!NoDraft
                    /\ ~Autosave!OnScreen \/ window.save = "left" => draft \notin finished
    BY DEF Autosave!CopyFollowsForm
<1>1. \A x : Ends(sent, draft, x) <=> draft = x
    BY EndsNow
<1>2. ASSUME Autosave!AtRest
      PROVE  draft = IF Autosave!HasInput(window.form) THEN window.form ELSE Autosave!NoDraft
    <2>1. draft = Held(window)
        BY <1>1, <1>2 DEF AutosaveFits, Fits, Covered, Autosave!AtRest, Autosave!OnScreen
    <2> QED
        BY <2>1 DEF Held, Autosave!HasInput
<1>3. ASSUME ~Autosave!OnScreen \/ window.save = "left"
      PROVE  draft \notin finished
    BY <1>1, <1>3 DEF AutosaveFits, Fits, Gone, Autosave!OnScreen
<1> QED
    BY <1>2, <1>3

\* The copy of a registration is what was typed, and gone when it was
\* registered, as long as requests arrive in order and the user waits.
LEMMA CopiesFollow == Spec => [](calm => Autosave!CopyFollowsForm)
<1>1. Init => AutosaveInv
    <2> SUFFICES ASSUME Init PROVE AutosaveFits
        BY DEF AutosaveInv
    <2>1. draft = Autosave!NoDraft /\ window = Autosave!Shut /\ sent = <<>> /\ finished = {}
        BY DEF Init, Autosave!AutosaveInit
    <2>2. draft \in Copies /\ sent \in Seq(Mails) /\ DOMAIN sent = {}
        BY <2>1 DEF Copies
    <2> QED
        BY <2>1, <2>2 DEF AutosaveFits, Fits, Shaped, Asking, Untouched, Covered, Fresh, Gone
<1>2. AutosaveInv /\ [Next]_vars => AutosaveInv'
    <2> SUFFICES ASSUME AutosaveInv, [Next]_vars, calm' \/ part' # "autosave" PROVE AutosaveFits'
        BY DEF AutosaveInv
    <2>1. CASE InAutosave(Autosave!AutosaveNext)
        <3>1. part = "autosave" /\ part' = part /\ Autosave!AutosaveNext
            BY <2>1 DEF InAutosave
        <3>2. calm' = calm
            BY <3>1, Zenon DEF Autosave!AutosaveNext, Autosave!Handle, Autosave!Lose, Autosave!Open, Autosave!Type,
               Autosave!Expire, Autosave!Restore, Autosave!AutosaveTick, Autosave!Discard, Autosave!Save,
               Autosave!Finished, Autosave!Failed, Autosave!Leave
        <3> QED
            BY <3>1, <3>2, AutosaveStep DEF AutosaveInv
    <2>2. CASE ~InAutosave(Autosave!AutosaveNext)
        <3>1. UNCHANGED <<part, autosaveVars>> /\ (calm' = calm \/ part # "autosave")
            BY <2>2 DEF Next, InEvidence, InImports, InLogins, InReminders, InSupport, InForms, InCsv, vars
        <3> QED
            BY <3>1 DEF AutosaveInv, AutosaveFits, autosaveVars
    <2> QED
        BY <2>1, <2>2
<1>3. AutosaveInv /\ calm => Autosave!CopyFollowsForm
    BY CopyFollows DEF AutosaveInv
<1> QED
    BY <1>1, <1>2, <1>3, PTL DEF Spec

-----------------------------------------------------------------------------
\* What these services tell their users stays true: a conversation changes its
\* status by its owner's rating or by a message that had read it with that
\* status, a stale list switches and brings back nothing, an import's results
\* are what was created, and the copy of a registration is what was typed.
THEOREM WordIsKept == Spec => FormsKeepTheirWord
    BY ConversationsStand, FormsAreHonest, ResultsStayTrue, CopiesFollow, PTL DEF FormsKeepTheirWord
=============================================================================
