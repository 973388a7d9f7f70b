------------------------- MODULE AuditedStore_proofs -------------------------
(***************************************************************************)
(* Proofs about AuditedStore, for any requests, rows and numbers of audit  *)
(* entries.  The argument: a copy of the audit log is an older state of    *)
(* it, both are gapless chains, and so a request whose numbers are still   *)
(* free - not taken by anyone since it read - has read the whole log.      *)
(***************************************************************************)
EXTENDS AuditedStore, TLAPS

\* A gapless chain: what log is, and every copy of it.
NoGap(L) == \A e \in L : \A i \in 1..e.sequence : \E d \in L : d.sequence = i

HasNewest(L) == L # {} => \E e \in L : IsNewest(e, L)

OneEach(L) == \A d, e \in L : d.sequence = e.sequence => d = e

Linked(L) ==
    \A e \in L :
        IF e.sequence = 1 THEN e.previousHash = Genesis
        ELSE \E d \in L : d.sequence = e.sequence - 1 /\ d.hash = e.previousHash

Chain(L) == L \subseteq Entry /\ NoGap(L) /\ HasNewest(L) /\ OneEach(L) /\ Linked(L)

\* The inductive invariant.
CopiesInv == \A r \in Requests : Chain(seenLog[r]) /\ seenLog[r] \subseteq log

IInv == TypeOK /\ Chain(log) /\ CopiesInv

\* What a request that read the log first knows while its copy is the log
FreshRow ==
    \A r \in Requests :
        first[r] = "log" /\ phase[r] = "ready" /\ seenLog[r] = log =>
            seenRow[r] = row[Touches[r]]

-----------------------------------------------------------------------------
(* The operators of appendAuditLog. *)

\* The newest entry of a chain, as MaxSequence and NewestHash choose it.
LEMMA Newest ==
    ASSUME NEW L, Chain(L), L # {}
    PROVE  \E e \in L : /\ IsNewest(e, L)
                        /\ MaxSequence(L) = e.sequence
                        /\ NewestHash(L) = e.hash
<1> DEFINE e == CHOOSE x \in L : IsNewest(x, L)
<1>1. e \in L /\ IsNewest(e, L)
    BY DEF Chain, HasNewest
<1>2. MaxSequence(L) = e.sequence /\ NewestHash(L) = e.hash
    BY DEF MaxSequence, NewestHash
<1> QED
    BY <1>1, <1>2

\* The number appendAuditLog continues from is a natural number, zero for an
\* empty log alone.
LEMMA MaxSequenceNat ==
    ASSUME NEW L, Chain(L)
    PROVE  /\ MaxSequence(L) \in Nat
           /\ L # {} => MaxSequence(L) >= 1
           /\ \A e \in L : e.sequence <= MaxSequence(L)
<1>1. CASE L = {}
    BY <1>1 DEF MaxSequence
<1>2. CASE L # {}
    <2>1. PICK e \in L : IsNewest(e, L) /\ MaxSequence(L) = e.sequence
        BY <1>2, Newest
    <2>2. e.sequence \in Nat \ {0}
        BY DEF Chain, Entry
    <2> QED
        BY <2>1, <2>2 DEF IsNewest
<1> QED
    BY <1>1, <1>2

\* The entries a request appends to a chain are entries.
LEMMA AppendedType ==
    ASSUME NEW r \in Requests, NEW L, Chain(L)
    PROVE  Appended(r, L) \subseteq Entry
<1>1. MaxSequence(L) \in Nat
    BY MaxSequenceNat
<1>2. NewestHash(L) \in Hash \cup {Genesis}
    <2>1. CASE L = {}
        BY <2>1 DEF NewestHash
    <2>2. CASE L # {}
        BY <2>2, Newest DEF Chain, Entry
    <2> QED
        BY <2>1, <2>2
<1>3. ASSUME NEW n \in 1..Entries[r]
      PROVE  [sequence |-> MaxSequence(L) + n,
              previousHash |-> IF n = 1 THEN NewestHash(L) ELSE [by |-> r, nth |-> n - 1],
              hash |-> [by |-> r, nth |-> n]] \in Entry
    <2>1. Entries[r] \in Nat
        BY RequestsAssumption
    <2>2. n \in Nat \ {0} /\ MaxSequence(L) + n \in Nat \ {0}
        BY <1>1, <2>1
    <2>3. n # 1 => n - 1 \in Nat \ {0}
        BY <2>2
    <2>4. [by |-> r, nth |-> n] \in Hash /\ (n # 1 => [by |-> r, nth |-> n - 1] \in Hash)
        BY <2>2, <2>3 DEF Hash
    <2> QED
        BY <1>2, <2>2, <2>4 DEF Entry
<1> QED
    BY <1>3 DEF Appended

\* Every number appended is above every number read.
LEMMA AppendedNumbers ==
    ASSUME NEW r \in Requests, NEW L, Chain(L), NEW e \in Appended(r, L)
    PROVE  \E n \in 1..Entries[r] :
              /\ e.sequence = MaxSequence(L) + n
              /\ e.previousHash = IF n = 1 THEN NewestHash(L) ELSE [by |-> r, nth |-> n - 1]
              /\ e.hash = [by |-> r, nth |-> n]
    BY DEF Appended

\* Each of the appended numbers is there.
LEMMA AppendedHas ==
    ASSUME NEW r \in Requests, NEW L, NEW n \in 1..Entries[r]
    PROVE  \E e \in Appended(r, L) :
              e.sequence = MaxSequence(L) + n /\ e.hash = [by |-> r, nth |-> n]
<1> DEFINE e == [sequence |-> MaxSequence(L) + n,
                 previousHash |-> IF n = 1 THEN NewestHash(L) ELSE [by |-> r, nth |-> n - 1],
                 hash |-> [by |-> r, nth |-> n]]
<1>1. e \in Appended(r, L)
    BY DEF Appended
<1> QED
    BY <1>1

\* A request whose numbers are all free has read the whole log.
LEMMA FreeMeansWhole ==
    ASSUME NEW r \in Requests, NEW S, NEW L, Chain(S), Chain(L), S \subseteq L,
           Entries[r] > 0, ~Clashes(L, Appended(r, S))
    PROVE  S = L
<1> DEFINE m == MaxSequence(S)
<1>1. m \in Nat /\ \A e \in S : e.sequence <= m
    BY MaxSequenceNat
<1>2. 1 \in 1..Entries[r]
    BY RequestsAssumption
<1>3. PICK new \in Appended(r, S) : new.sequence = m + 1
    <2>1. \E e \in Appended(r, S) : e.sequence = MaxSequence(S) + 1 /\ e.hash = [by |-> r, nth |-> 1]
        BY <1>2, AppendedHas
    <2> QED
        BY <2>1
<1>4. ASSUME NEW e \in L PROVE e.sequence <= m
    <2>1. e.sequence \in Nat
        BY DEF Chain, Entry
    <2>2. SUFFICES ASSUME e.sequence > m PROVE FALSE
        BY <1>1, <2>1
    <2>3. m + 1 \in 1..e.sequence
        BY <1>1, <2>1, <2>2
    <2>4. PICK d \in L : d.sequence = m + 1
        BY <2>3 DEF Chain, NoGap
    <2> QED
        BY <1>3, <2>4 DEF Clashes
<1>5. ASSUME NEW e \in L PROVE e \in S
    <2>1. e.sequence \in Nat \ {0} /\ e.sequence <= m
        BY <1>4 DEF Chain, Entry
    <2>2. S # {}
        BY <2>1 DEF MaxSequence
    <2>3. PICK top \in S : top.sequence = m
        BY <2>2, Newest
    <2>4. e.sequence \in 1..top.sequence
        BY <2>1, <2>3, <1>1
    <2>5. PICK d \in S : d.sequence = e.sequence
        BY <2>4 DEF Chain, NoGap
    <2> QED
        BY <2>5 DEF Chain, OneEach
<1> QED
    BY <1>5

\* appendAuditLog, called any number of times, continues a chain.
LEMMA AppendChain ==
    ASSUME NEW r \in Requests, NEW L, Chain(L)
    PROVE  Chain(L \cup Appended(r, L))
<1> DEFINE m == MaxSequence(L)
           k == Entries[r]
           new == Appended(r, L)
           N == L \cup new
<1>1. m \in Nat /\ k \in Nat /\ (L # {} => m >= 1) /\ \A e \in L : e.sequence <= m
    BY MaxSequenceNat, RequestsAssumption
<1>2. L \subseteq Entry /\ new \subseteq Entry
    BY AppendedType DEF Chain
<1>3. ASSUME NEW e \in N PROVE e.sequence \in Nat \ {0}
    BY <1>2 DEF Entry
<1>4. ASSUME NEW i \in 1..m PROVE \E d \in L : d.sequence = i
    <2>1. L # {}
        BY <1>1 DEF MaxSequence
    <2>2. PICK top \in L : top.sequence = m
        BY <2>1, Newest
    <2> QED
        BY <2>2 DEF Chain, NoGap
<1>5. ASSUME NEW j \in 1..k
      PROVE  \E d \in new : d.sequence = m + j /\ d.hash = [by |-> r, nth |-> j]
    BY AppendedHas
<1>6. NoGap(N)
    <2>1. ASSUME NEW e \in N, NEW i \in 1..e.sequence PROVE \E d \in N : d.sequence = i
        <3>1. CASE i <= m
            BY <3>1, <1>1, <1>3, <1>4
        <3>2. CASE i > m
            <4>1. e \in new
                BY <3>2, <1>1, <1>3
            <4>2. PICK n \in 1..k : e.sequence = m + n
                BY <4>1, AppendedNumbers
            <4>3. i - m \in 1..k
                BY <3>2, <4>2, <1>1, <1>3
            <4>4. PICK d \in new : d.sequence = m + (i - m)
                BY <4>3, <1>5
            <4>5. d.sequence = i
                BY <4>4, <1>1, <1>3
            <4> QED
                BY <4>5
        <3> QED
            BY <3>1, <3>2, <1>1, <1>3
    <2> QED
        BY <2>1 DEF NoGap
<1>7. HasNewest(N)
    <2>1. CASE k = 0
        <3>1. new = {}
            BY <2>1 DEF Appended
        <3> QED
            BY <3>1 DEF Chain, HasNewest
    <2>2. CASE k > 0
        <3>1. k \in 1..k
            BY <2>2, <1>1
        <3>2. PICK top \in new : top.sequence = m + k
            BY <3>1, <1>5
        <3>3. ASSUME NEW e \in N PROVE e.sequence <= top.sequence
            <4>1. CASE e \in L
                BY <4>1, <3>2, <1>1, <1>3
            <4>2. CASE e \in new
                <5>1. PICK n \in 1..k : e.sequence = m + n
                    BY <4>2, AppendedNumbers
                <5> QED
                    BY <5>1, <3>2, <1>1
            <4> QED
                BY <4>1, <4>2
        <3> QED
            BY <3>3 DEF HasNewest, IsNewest
    <2> QED
        BY <2>1, <2>2, <1>1
<1>8. OneEach(N)
    <2>1. ASSUME NEW d \in L, NEW e \in new PROVE d.sequence # e.sequence
        <3>1. PICK n \in 1..k : e.sequence = m + n
            BY AppendedNumbers
        <3> QED
            BY <3>1, <1>1, <1>3
    <2>2. ASSUME NEW d \in new, NEW e \in new, d.sequence = e.sequence PROVE d = e
        <3>1. PICK n \in 1..k :
                 d = [sequence |-> m + n,
                      previousHash |-> IF n = 1 THEN NewestHash(L) ELSE [by |-> r, nth |-> n - 1],
                      hash |-> [by |-> r, nth |-> n]]
            BY DEF Appended
        <3>2. PICK o \in 1..k :
                 e = [sequence |-> m + o,
                      previousHash |-> IF o = 1 THEN NewestHash(L) ELSE [by |-> r, nth |-> o - 1],
                      hash |-> [by |-> r, nth |-> o]]
            BY DEF Appended
        <3>3. n = o
            BY <2>2, <3>1, <3>2, <1>1
        <3> QED
            BY <3>1, <3>2, <3>3
    <2>3. \A d, e \in L : d.sequence = e.sequence => d = e
        BY DEF Chain, OneEach
    <2> QED
        BY <2>1, <2>2, <2>3 DEF OneEach
<1>9. Linked(N)
    <2>1. ASSUME NEW e \in L
          PROVE  IF e.sequence = 1 THEN e.previousHash = Genesis
                 ELSE \E d \in N : d.sequence = e.sequence - 1 /\ d.hash = e.previousHash
        BY DEF Chain, Linked
    <2>2. ASSUME NEW e \in new
          PROVE  IF e.sequence = 1 THEN e.previousHash = Genesis
                 ELSE \E d \in N : d.sequence = e.sequence - 1 /\ d.hash = e.previousHash
        <3>1. PICK n \in 1..k :
                 /\ e.sequence = m + n
                 /\ e.previousHash = IF n = 1 THEN NewestHash(L) ELSE [by |-> r, nth |-> n - 1]
            BY AppendedNumbers, ZenonT(60)
        <3>2. CASE n = 1 /\ L = {}
            <4>1. m = 0 /\ NewestHash(L) = Genesis
                BY <3>2 DEF MaxSequence, NewestHash
            <4> QED
                BY <3>1, <3>2, <4>1
        <3>3. CASE n = 1 /\ L # {}
            <4>1. PICK top \in L : top.sequence = m /\ top.hash = NewestHash(L)
                BY <3>3, Newest
            <4>2. e.sequence # 1 /\ e.sequence - 1 = m
                BY <3>1, <3>3, <1>1
            <4> QED
                BY <3>1, <3>3, <4>1, <4>2
        <3>4. CASE n # 1
            <4>1. n - 1 \in 1..k /\ e.sequence # 1 /\ e.sequence - 1 = m + (n - 1)
                BY <3>1, <3>4, <1>1
            <4>2. PICK d \in new : d.sequence = m + (n - 1) /\ d.hash = [by |-> r, nth |-> n - 1]
                BY <4>1, <1>5
            <4> QED
                BY <3>1, <3>4, <4>1, <4>2
        <3> QED
            BY <3>2, <3>3, <3>4
    <2> QED
        BY <2>1, <2>2 DEF Linked
<1> QED
    BY <1>2, <1>6, <1>7, <1>8, <1>9 DEF Chain

\* What Commit writes: whether or not it appends, the log stays a chain.
LEMMA CommitChain ==
    ASSUME NEW r \in Requests, NEW S, NEW L, Chain(S), Chain(L), S \subseteq L,
           ~Clashes(L, Appended(r, S))
    PROVE  Chain(L \cup Appended(r, S))
<1>1. CASE Entries[r] > 0
    BY <1>1, FreeMeansWhole, AppendChain
<1>2. CASE ~(Entries[r] > 0)
    <2>1. 1..Entries[r] = {}
        BY <1>2, RequestsAssumption
    <2>2. Appended(r, S) = {}
        BY <2>1 DEF Appended
    <2> QED
        BY <2>2
<1> QED
    BY <1>1, <1>2
-----------------------------------------------------------------------------
(* The steps of the specification. *)

\* The empty log is a chain.
LEMMA InitIInv == Init => IInv
<1> SUFFICES ASSUME Init PROVE IInv
    OBVIOUS
<1>1. TypeOK
    BY DEF Init, TypeOK, Phase
<1>2. Chain({})
    BY DEF Chain, NoGap, HasNewest, OneEach, Linked
<1>3. Chain(log) /\ CopiesInv
    BY <1>2 DEF Init, CopiesInv
<1> QED
    BY <1>1, <1>3 DEF IInv

\* Reading copies the chain as it is now.
LEMMA ReadLogIInv ==
    ASSUME IInv, NEW r \in Requests, ReadLog(r)
    PROVE  IInv'
<1>1. TypeOK'
    BY DEF IInv, TypeOK, ReadLog, ReadTable, Phase
<1>2. Chain(log)'
    BY DEF IInv, ReadLog, ReadTable
<1>3. CopiesInv'
    BY DEF IInv, TypeOK, CopiesInv, ReadLog, ReadTable
<1> QED
    BY <1>1, <1>2, <1>3 DEF IInv

\* Reading a row leaves log and copies alone.
LEMMA ReadRowIInv ==
    ASSUME IInv, NEW r \in Requests, ReadRow(r)
    PROVE  IInv'
<1>1. TypeOK'
    BY RequestsAssumption DEF IInv, TypeOK, ReadRow, ReadTable, Phase
<1>2. Chain(log)' /\ CopiesInv'
    BY DEF IInv, CopiesInv, ReadRow, ReadTable
<1> QED
    BY <1>1, <1>2 DEF IInv

\* A commit extends the chain and leaves every copy a part of it.
LEMMA CommitIInv ==
    ASSUME IInv, NEW r \in Requests, Commit(r)
    PROVE  IInv'
<1>1. Chain(log) /\ Chain(seenLog[r]) /\ seenLog[r] \subseteq log
    BY DEF IInv, CopiesInv
<1>2. log' = log \cup Appended(r, seenLog[r]) /\ ~Clashes(log, Appended(r, seenLog[r]))
    BY DEF Commit
<1>3. Chain(log)'
    BY <1>1, <1>2, CommitChain
<1>4. CopiesInv'
    BY <1>2 DEF IInv, CopiesInv, Commit
<1>5. TypeOK'
    <2>1. log' \subseteq Entry
        BY <1>3 DEF Chain
    <2>2. row' \in [Rows -> SUBSET Requests]
        BY RequestsAssumption DEF IInv, TypeOK, Commit
    <2> QED
        BY <2>1, <2>2 DEF IInv, TypeOK, Commit, Phase
<1> QED
    BY <1>3, <1>4, <1>5 DEF IInv

\* A rejected or crashed request writes nothing.
LEMMA EndIInv ==
    ASSUME IInv, NEW r \in Requests, Reject(r) \/ Crash(r)
    PROVE  IInv'
<1>1. TypeOK'
    BY DEF IInv, TypeOK, Reject, Crash, Phase
<1>2. Chain(log)' /\ CopiesInv'
    BY DEF IInv, CopiesInv, Reject, Crash
<1> QED
    BY <1>1, <1>2 DEF IInv

\* Every step keeps the invariant.
LEMMA StepIInv == IInv /\ [Next]_vars => IInv'
<1> SUFFICES ASSUME IInv, [Next]_vars PROVE IInv'
    OBVIOUS
<1>1. ASSUME NEW r \in Requests, Work(r) PROVE IInv'
    BY <1>1, ReadLogIInv, ReadRowIInv, CommitIInv, EndIInv DEF Work
<1>2. ASSUME NEW r \in Requests, Crash(r) PROVE IInv'
    BY <1>2, EndIInv
<1>3. CASE UNCHANGED vars
    BY <1>3 DEF IInv, TypeOK, CopiesInv, vars
<1> QED
    BY <1>1, <1>2, <1>3 DEF Next, Done

\* The inductive invariant holds for every instance.
THEOREM Inductive == Spec => []IInv
<1>1. Init => IInv
    BY InitIInv
<1>2. IInv /\ [Next]_vars => IInv'
    BY StepIInv
<1> QED
    BY <1>1, <1>2, PTL DEF Spec

\* Every entry, row and copy stays well formed.
THEOREM TypeCorrect == Spec => []TypeOK
<1>1. IInv => TypeOK
    BY DEF IInv
<1> QED
    BY <1>1, Inductive, PTL

\* However many requests write the audit log at once, and whenever they read
\* it, it stays one gapless chain of hashes.
THEOREM ChainStaysValid == Spec => []ChainValid
<1>1. IInv => ChainValid
    BY DEF IInv, Chain, OneEach, Linked, ChainValid, Unforked, Chained
<1> QED
    BY <1>1, Inductive, PTL

-----------------------------------------------------------------------------
(* A request's entries and its row change together. *)

HashesOf(r, L) == {e.hash : e \in {d \in L : d.hash.by = r}}

OwnHashes(r) == {[by |-> r, nth |-> n] : n \in 1..Entries[r]}

\* The hashes of what a request appends, and of nobody else's entries
LEMMA AppendedHashes ==
    ASSUME NEW r \in Requests, NEW L, Chain(L), NEW q \in Requests, NEW K
    PROVE  HashesOf(q, K \cup Appended(r, L))
              = HashesOf(q, K) \cup (IF q = r THEN OwnHashes(r) ELSE {})
<1> DEFINE new == Appended(r, L)
<1>1. ASSUME NEW e \in new
      PROVE  e.hash.by = r /\ e.hash \in OwnHashes(r)
    <2>1. PICK n \in 1..Entries[r] : e.hash = [by |-> r, nth |-> n]
        BY AppendedNumbers
    <2> QED
        BY <2>1 DEF OwnHashes
<1>2. ASSUME NEW h \in OwnHashes(r) PROVE \E e \in new : e.hash = h /\ e.hash.by = r
    <2>1. PICK n \in 1..Entries[r] : h = [by |-> r, nth |-> n]
        BY DEF OwnHashes
    <2>2. PICK e \in new : e.sequence = MaxSequence(L) + n /\ e.hash = [by |-> r, nth |-> n]
        BY AppendedHas
    <2> QED
        BY <2>1, <2>2
<1>3. HashesOf(q, K \cup new) = HashesOf(q, K) \cup HashesOf(q, new)
    BY DEF HashesOf
<1>4. CASE q = r
    <2>1. HashesOf(q, new) = OwnHashes(r)
        BY <1>1, <1>2, <1>4 DEF HashesOf
    <2> QED
        BY <1>3, <1>4, <2>1
<1>5. CASE q # r
    <2>1. HashesOf(q, new) = {}
        BY <1>1, <1>5 DEF HashesOf
    <2> QED
        BY <1>3, <1>5, <2>1
<1> QED
    BY <1>4, <1>5

\* A step keeps every request all or nothing.
LEMMA StepAllOrNothing == IInv /\ AllOrNothing /\ [Next]_vars => AllOrNothing'
<1> SUFFICES ASSUME IInv, AllOrNothing, [Next]_vars, NEW q \in Requests
             PROVE  HashesOf(q, log') = IF phase'[q] = "committed" THEN OwnHashes(q) ELSE {}
    BY DEF AllOrNothing, HashesOf, OwnHashes
<1>1. HashesOf(q, log) = IF phase[q] = "committed" THEN OwnHashes(q) ELSE {}
    BY DEF AllOrNothing, HashesOf, OwnHashes
<1>2. phase \in [Requests -> Phase]
    BY DEF IInv, TypeOK
<1>3. ASSUME NEW r \in Requests, Commit(r)
      PROVE  HashesOf(q, log') = IF phase'[q] = "committed" THEN OwnHashes(q) ELSE {}
    <2>1. Chain(seenLog[r])
        BY DEF IInv, CopiesInv
    <2>2. /\ log' = log \cup Appended(r, seenLog[r])
          /\ phase[r] = "ready"
          /\ phase' = [phase EXCEPT ![r] = "committed"]
        BY <1>3 DEF Commit
    <2>3. HashesOf(q, log') = HashesOf(q, log) \cup (IF q = r THEN OwnHashes(r) ELSE {})
        BY <2>1, <2>2, AppendedHashes
    <2> QED
        BY <1>1, <1>2, <2>2, <2>3
<1>4. ASSUME log' = log, phase'[q] = "committed" <=> phase[q] = "committed"
      PROVE  HashesOf(q, log') = IF phase'[q] = "committed" THEN OwnHashes(q) ELSE {}
    BY <1>1, <1>4
<1>5. ASSUME NEW r \in Requests, ReadLog(r) \/ ReadRow(r)
      PROVE  log' = log /\ (phase'[q] = "committed" <=> phase[q] = "committed")
    BY <1>2, <1>5 DEF ReadLog, ReadRow, ReadTable
<1>6. ASSUME NEW r \in Requests, Reject(r) \/ Crash(r)
      PROVE  log' = log /\ (phase'[q] = "committed" <=> phase[q] = "committed")
    BY <1>2, <1>6 DEF Reject, Crash, Ended
<1>7. CASE UNCHANGED vars
    BY <1>4, <1>7 DEF vars
<1> QED
    BY <1>3, <1>4, <1>5, <1>6, <1>7 DEF Next, Done, Work

\* At every moment a request has all of its entries in the log, if it
\* committed, and otherwise none.
THEOREM EntriesAllOrNothing == Spec => []AllOrNothing
<1>1. Init => AllOrNothing
    BY DEF Init, AllOrNothing
<1>2. IInv /\ AllOrNothing /\ [Next]_vars => AllOrNothing'
    BY StepAllOrNothing
<1> QED
    BY <1>1, <1>2, Inductive, PTL DEF Spec

-----------------------------------------------------------------------------
(* The sequence number as an optimistic lock. *)

\* A commit that appends anything makes every copy of the log stale.
LEMMA CommitStales ==
    ASSUME IInv, AllAudited, NEW r \in Requests, Commit(r), NEW q \in Requests
    PROVE  seenLog[q] # log'
<1>1. log' = log \cup Appended(r, seenLog[r]) /\ ~Clashes(log, Appended(r, seenLog[r]))
    BY DEF Commit
<1>2. 1 \in 1..Entries[r]
    BY RequestsAssumption DEF AllAudited
<1>3. PICK e \in Appended(r, seenLog[r]) :
         e.sequence = MaxSequence(seenLog[r]) + 1 /\ e.hash = [by |-> r, nth |-> 1]
    BY <1>2, AppendedHas
<1>4. e \notin log
    BY <1>1, <1>3 DEF Clashes
<1> QED
    BY <1>1, <1>4 DEF IInv, CopiesInv

\* A step keeps the row of a log-first request as fresh as its log.
LEMMA StepFreshRow == AllAudited /\ IInv /\ FreshRow /\ [Next]_vars => FreshRow'
<1> SUFFICES ASSUME AllAudited, IInv, FreshRow, [Next]_vars, NEW q \in Requests,
                    first'[q] = "log", phase'[q] = "ready", seenLog'[q] = log'
             PROVE  seenRow'[q] = row'[Touches[q]]
    BY DEF FreshRow
<1>1. TypeOK
    BY DEF IInv
<1>2. CASE \E r \in Requests : ReadLog(r)
    <2>1. PICK r \in Requests : ReadLog(r)
        BY <1>2
    <2>2. CASE q = r
        BY <1>1, <2>1, <2>2 DEF TypeOK, ReadLog, ReadTable
    <2>3. CASE q # r
        BY <1>1, <2>1, <2>3 DEF TypeOK, ReadLog, ReadTable, FreshRow
    <2> QED
        BY <2>2, <2>3
<1>3. CASE \E r \in Requests : ReadRow(r)
    <2>1. PICK r \in Requests : ReadRow(r)
        BY <1>3
    <2>2. CASE q = r
        BY <1>1, <2>1, <2>2 DEF TypeOK, ReadRow, ReadTable
    <2>3. CASE q # r
        BY <1>1, <2>1, <2>3 DEF TypeOK, ReadRow, ReadTable, FreshRow
    <2> QED
        BY <2>2, <2>3
<1>4. CASE \E r \in Requests : Commit(r)
    BY <1>4, CommitStales DEF Commit
<1>5. CASE \E r \in Requests : Reject(r) \/ Crash(r)
    BY <1>1, <1>5 DEF TypeOK, Reject, Crash, FreshRow
<1>6. CASE UNCHANGED vars
    BY <1>6 DEF vars, FreshRow
<1> QED
    BY <1>2, <1>3, <1>4, <1>5, <1>6 DEF Next, Done, Work

\* A log-first commit leaves every effect on its row in place.
LEMMA CommitKeepsRow ==
    ASSUME AllAudited, IInv, FreshRow, [Next]_vars, NEW q \in Requests,
           phase[q] # "committed", phase'[q] = "committed", first[q] = "log"
    PROVE  row[Touches[q]] \subseteq row'[Touches[q]]
<1>1. TypeOK
    BY DEF IInv
<1>2. Commit(q)
    <2>1. ASSUME NEW r \in Requests, ReadLog(r) \/ ReadRow(r) PROVE FALSE
        BY <1>1, <2>1 DEF TypeOK, ReadLog, ReadRow, ReadTable
    <2>2. ASSUME NEW r \in Requests, Reject(r) \/ Crash(r) PROVE FALSE
        BY <1>1, <2>2 DEF TypeOK, Reject, Crash
    <2>3. ASSUME NEW r \in Requests, Commit(r) PROVE r = q
        BY <1>1, <2>3 DEF TypeOK, Commit
    <2>4. ~UNCHANGED vars
        BY DEF vars
    <2> QED
        BY <2>1, <2>2, <2>3, <2>4 DEF Next, Done, Work
<1>3. seenLog[q] = log
    <2>1. Chain(log) /\ Chain(seenLog[q]) /\ seenLog[q] \subseteq log /\ Entries[q] > 0
        BY DEF IInv, CopiesInv, AllAudited
    <2>2. ~Clashes(log, Appended(q, seenLog[q]))
        BY <1>2 DEF Commit
    <2> QED
        BY <2>1, <2>2, FreeMeansWhole
<1>4. seenRow[q] = row[Touches[q]]
    BY <1>2, <1>3 DEF FreshRow, Commit
<1>5. row'[Touches[q]] = seenRow[q] \cup {q}
    BY <1>1, <1>2, RequestsAssumption DEF TypeOK, Commit
<1> QED
    BY <1>4, <1>5

\* If every request appends an audit entry, one that read the log before its
\* row never overwrites another request's change.
THEOREM LogFirstIsALock == Spec => LogFirstIsSafe
<1> DEFINE FreshIfAudited == AllAudited => FreshRow
           Keeps == AllAudited => \A r \in Requests :
                        phase[r] # "committed" /\ phase'[r] = "committed" /\ first[r] = "log"
                        => row[Touches[r]] \subseteq row'[Touches[r]]
<1>1. Init => FreshIfAudited
    BY DEF Init, FreshRow
<1>2. IInv /\ FreshIfAudited /\ [Next]_vars => FreshIfAudited'
    BY StepFreshRow DEF AllAudited
<1>3. IInv /\ FreshIfAudited /\ [Next]_vars => [Keeps]_vars
    BY CommitKeepsRow
<1> QED
    BY <1>1, <1>2, <1>3, Inductive, PTL DEF Spec, LogFirstIsSafe
=============================================================================
