---------------------------- MODULE ReviewProofs ----------------------------
(***************************************************************************)
(* Proofs about ReviewEvidence, for every set of jobs and any number of    *)
(* changes of the box: what a printed bundle says is so of the box that    *)
(* was read, however it changed meanwhile.                                 *)
(***************************************************************************)
EXTENDS ReviewInvariant, FiniteSetTheorems, SequenceTheorems, TLAPS

\* The order of the collection.
LEMMA StepsAre ==
    /\ Len(Steps) = 16
    /\ Steps[1] = "other" /\ Steps[2] = "gateway" /\ Steps[3] = "D2.1" /\ Steps[4] = "D2.3"
    /\ Steps[5] = "oldest" /\ Steps[6] = "D2.4" /\ Steps[7] = "D4.1" /\ Steps[8] = "starts"
    /\ Steps[9] = "D4.6" /\ Steps[10] = "D10.3" /\ Steps[11] = "D10.6" /\ Steps[12] = "D10.7"
    /\ Steps[13] = "D10.8" /\ Steps[14] = "credentials" /\ Steps[15] = "fingerprint" /\ Steps[16] = "print"
BY DEF Steps

\* Each step has its place in it.
LEMMA PlaceIs ==
    ASSUME NEW k \in 1 .. 16
    PROVE  /\ (Steps[k] = "other" <=> k = 1) /\ (Steps[k] = "gateway" <=> k = 2)
           /\ (Steps[k] = "D2.1" <=> k = 3) /\ (Steps[k] = "D2.3" <=> k = 4)
           /\ (Steps[k] = "oldest" <=> k = 5) /\ (Steps[k] = "D2.4" <=> k = 6)
           /\ (Steps[k] = "D4.1" <=> k = 7) /\ (Steps[k] = "starts" <=> k = 8)
           /\ (Steps[k] = "D4.6" <=> k = 9) /\ (Steps[k] = "D10.3" <=> k = 10)
           /\ (Steps[k] = "D10.6" <=> k = 11) /\ (Steps[k] = "D10.7" <=> k = 12)
           /\ (Steps[k] = "D10.8" <=> k = 13) /\ (Steps[k] = "credentials" <=> k = 14)
           /\ (Steps[k] = "fingerprint" <=> k = 15) /\ (Steps[k] = "print" <=> k = 16)
<1>1. \/ k = 1 \/ k = 2 \/ k = 3 \/ k = 4 \/ k = 5 \/ k = 6 \/ k = 7 \/ k = 8
      \/ k = 9 \/ k = 10 \/ k = 11 \/ k = 12 \/ k = 13 \/ k = 14 \/ k = 15 \/ k = 16
  OBVIOUS
<1>. QED
  BY <1>1, StepsAre

\* A step of the collection: the box stands still and the next step is due.
Collects(k) ==
    /\ step = k /\ step' = k + 1 /\ k \in 1 .. 15
    /\ out = None /\ child' = "none"
    /\ UNCHANGED <<box, out, steady, events>>

LEMMA CollectsIs ==
    ASSUME TypeOK
    PROVE  /\ ReadOther => Collects(1)
           /\ ReadGateway => Collects(2)
           /\ Sweep => Collects(3)
           /\ SearchJournal => Collects(4)
           /\ ReadOldest => Collects(5)
           /\ JournalReach => Collects(6)
           /\ GatewayItem => Collects(7)
           /\ ReadStarts => Collects(8)
           /\ CodeItem => Collects(9)
           /\ JobUnits => Collects(10)
           /\ GatewayListing => Collects(11)
           /\ JobJournals => Collects(12)
           /\ JobResults => Collects(13)
           /\ ReadAgain => Collects(14)
           /\ Fingerprint => Collects(15)
           /\ PrintBundle => step = 16 /\ out = None
<1>1. step \in 1 .. 16
  BY StepsAre DEF TypeOK
<1>. USE <1>1, PlaceIs DEF Ready, At, Over, Collects
<1>2. ReadOther => Collects(1)
  BY DEF ReadOther
<1>3. ReadGateway => Collects(2)
  BY DEF ReadGateway
<1>4. Sweep => Collects(3)
  BY DEF Sweep
<1>5. SearchJournal => Collects(4)
  BY DEF SearchJournal
<1>6. ReadOldest => Collects(5)
  BY DEF ReadOldest
<1>7. GatewayItem => Collects(7)
  BY DEF GatewayItem
<1>8. ReadStarts => Collects(8)
  BY DEF ReadStarts
<1>9. CodeItem => Collects(9)
  BY DEF CodeItem
<1>10. JobUnits => Collects(10)
  BY DEF JobUnits, JobItem
<1>11. GatewayListing => Collects(11)
  BY DEF GatewayListing
<1>12. JobJournals => Collects(12)
  BY DEF JobJournals, JobItem
<1>13. JobResults => Collects(13)
  BY DEF JobResults, JobItem
<1>14. Fingerprint => Collects(15)
  BY DEF Fingerprint
<1>15. ReadAgain => Collects(14)
  BY DEF ReadAgain
<1>16. PrintBundle => step = 16 /\ out = None
  BY DEF PrintBundle
<1>17. JournalReach => Collects(6)
  BY DEF JournalReach
<1>. QED
  BY <1>2, <1>3, <1>4, <1>5, <1>6, <1>7, <1>8, <1>9, <1>10, <1>11, <1>12, <1>13, <1>14,
     <1>15, <1>16, <1>17

-----------------------------------------------------------------------------
(***************************************************************************)
(* The box goes on: what a change leaves of what the invariant relies on.  *)
(***************************************************************************)
\* No job starts running earlier than it did, what was so all along only
\* becomes less, and what is left of the first entries of the journal keeps its
\* place and its text.
Goes ==
    /\ steady'.values \subseteq steady.values /\ steady'.jobs \subseteq steady.jobs
    /\ steady'.stale \subseteq steady.stale /\ steady'.same = steady.same /\ steady'.last = steady.last
    /\ \A s \in Services : started[s] <= started'[s]
    /\ gone <= gone'
    /\ \A i \in DOMAIN journal' : gone' + i <= steady.last =>
         \E k \in DOMAIN journal : gone + k = gone' + i /\ journal[k] = journal'[i]

\* A value is one of the values a place can hold.
LEMMA ValuesAre ==
    ASSUME version \in [Places -> 1 .. 2], NEW p \in Places
    PROVE  Value(p) \in Secrets /\ Value(p).place = p
BY DEF Value, Secrets

EntrySet == [unit : {"system"} \cup Jobs, leak : {None} \cup Secrets]

\* The journal grows at its end and loses its first entry.
LEMMA JournalMoves ==
    ASSUME BoxTyped, SteadyOK,
           \/ journal' = journal /\ gone' = gone
           \/ \E unit \in {"system"} \cup Jobs : Log(unit)
           \/ Vacuum
    PROVE  /\ journal' \in Seq(EntrySet) /\ gone' \in Nat /\ gone <= gone'
           /\ steady.last <= gone' + Len(journal')
           /\ \A i \in DOMAIN journal' : gone' + i <= steady.last =>
                \E k \in DOMAIN journal : gone + k = gone' + i /\ journal[k] = journal'[i]
<1>0. journal \in Seq(EntrySet)
  BY DEF BoxTyped, EntrySet
<1>. DEFINE Moves(last) ==
       /\ journal' \in Seq(EntrySet) /\ gone' \in Nat /\ gone <= gone'
       /\ last <= gone' + Len(journal')
       /\ \A i \in DOMAIN journal' : gone' + i <= last =>
            \E k \in DOMAIN journal : gone + k = gone' + i /\ journal[k] = journal'[i]
<1>1. /\ gone \in Nat /\ Len(journal) \in Nat /\ DOMAIN journal = 1 .. Len(journal)
  BY <1>0 DEF BoxTyped
<1>2. PICK n \in Nat : n = steady.last
  BY DEF BoxTyped
<1>3. n <= gone + Len(journal)
  BY <1>2 DEF SteadyOK
<1>4. CASE journal' = journal /\ gone' = gone
  <2>1. Moves(n)
    BY <1>0, <1>1, <1>3, <1>4
  <2>. QED
    BY <1>2, <2>1
<1>5. ASSUME NEW unit \in {"system"} \cup Jobs, Log(unit)
      PROVE  Moves(n)
  <2>1. PICK e \in EntrySet : journal' = Append(journal, e)
    BY <1>5 DEF Log, Entry, EntrySet
  <2>2. gone' = gone
    BY <1>5 DEF Log
  <2>3. /\ journal' \in Seq(EntrySet) /\ Len(journal') = Len(journal) + 1
        /\ \A i \in 1 .. Len(journal) : journal'[i] = journal[i]
    BY <1>0, <2>1
  <2>4. DOMAIN journal' = 1 .. Len(journal) + 1
    BY <1>1, <2>3
  <2>5. ASSUME NEW i \in DOMAIN journal', gone' + i <= n
        PROVE  \E k \in DOMAIN journal : gone + k = gone' + i /\ journal[k] = journal'[i]
    <3>1. i \in Int /\ 1 <= i /\ i <= n - gone
      BY <1>1, <2>2, <2>4, <2>5
    <3>2. i \in 1 .. Len(journal)
      BY <1>1, <1>3, <3>1
    <3>. QED
      BY <1>1, <2>2, <2>3, <3>2
  <2>6. n <= gone' + Len(journal')
    BY <1>1, <1>3, <2>2, <2>3
  <2>. QED
    BY <1>1, <2>2, <2>3, <2>5, <2>6
<1>6. CASE Vacuum
  <2>1. journal # <<>> /\ journal' = Tail(journal)
    BY <1>6 DEF Vacuum
  <2>2. gone' = gone + 1
    BY <1>6 DEF Vacuum
  <2>3. /\ journal' \in Seq(EntrySet) /\ Len(journal') = Len(journal) - 1
        /\ \A i \in 1 .. Len(journal) - 1 : journal'[i] = journal[i + 1]
    BY <1>0, <2>1
  <2>4. DOMAIN journal' = 1 .. Len(journal) - 1
    BY <1>1, <2>3
  <2>5. ASSUME NEW i \in DOMAIN journal'
        PROVE  \E k \in DOMAIN journal : gone + k = gone' + i /\ journal[k] = journal'[i]
    <3>1. i \in 1 .. Len(journal) - 1
      BY <2>4, <2>5
    <3>2. i + 1 \in DOMAIN journal /\ gone + (i + 1) = gone' + i
      BY <1>1, <2>2, <3>1
    <3>3. journal[i + 1] = journal'[i]
      BY <2>3, <3>1
    <3>. QED
      BY <3>2, <3>3
  <2>6. n <= gone' + Len(journal')
    BY <1>1, <1>3, <2>2, <2>3
  <2>7. Moves(n)
    BY <1>1, <2>2, <2>3, <2>5, <2>6
  <2>. QED
    BY <1>2, <2>7
<1>. QED
  BY <1>2, <1>4, <1>5, <1>6

\* A change of the box, apart from what the properties remember of it.
Change ==
    \/ \E p \in Places : Rotate(p)
    \/ \E p \in Readables : Toggle(p)
    \/ \E unit \in {"system"} \cup Jobs : Log(unit)
    \/ Vacuum
    \/ \E j \in Jobs : LoadJob(j)
    \/ \E s \in Services : Restart(s)
    \/ \E f \in LoadedFiles : Pull(f)

\* The journal apart, the types and the clocks; a service that is behind has not
\* been restarted by the change.
LEMMA ChangeTyped ==
    ASSUME BoxTyped, SteadyOK, Change
    PROVE  /\ version' \in [Places -> 1 .. 2] /\ readable' \in [Readables -> BOOLEAN]
           /\ job' \in [Jobs -> [declared : BOOLEAN, disk : BOOLEAN, loaded : BOOLEAN, ran : BOOLEAN]]
           /\ started' \in [Services -> Nat] /\ changed' \in [LoadedFiles -> Nat] /\ now' \in Nat
           /\ behind' \in [Services -> SUBSET LoadedFiles]
           /\ \A s \in Services : started[s] <= started'[s] /\ started'[s] <= now'
           /\ \A s \in Services : Stale(s)' => started'[s] = started[s]
           /\ \A f \in LoadedFiles : changed[f] <= changed'[f] /\ changed'[f] <= now'
<1>. USE DEF BoxTyped, SteadyOK
<1>1. /\ now \in Nat
      /\ \A s \in Services : started[s] \in Nat /\ started[s] <= now
      /\ \A f \in LoadedFiles : changed[f] \in Nat /\ changed[f] <= now
  OBVIOUS
<1>2. ASSUME NEW p \in Places, Rotate(p)
      PROVE  version' \in [Places -> 1 .. 2] /\ UNCHANGED <<readable, job, started, changed, behind, now>>
  <2>1. /\ version' = [version EXCEPT ![p] = 3 - version[p]]
        /\ UNCHANGED <<readable, job, started, changed, behind, now>>
    BY <1>2 DEF Rotate
  <2>2. version[p] = 1 \/ version[p] = 2
    OBVIOUS
  <2>3. 3 - version[p] \in 1 .. 2
    BY <2>2
  <2>. QED
    BY <2>1, <2>3
<1>3. ASSUME NEW p \in Readables, Toggle(p)
      PROVE  readable' \in [Readables -> BOOLEAN] /\ UNCHANGED <<version, job, started, changed, behind, now>>
  <2>1. /\ readable' = [readable EXCEPT ![p] = ~readable[p]]
        /\ UNCHANGED <<version, job, started, changed, behind, now>>
    BY <1>3 DEF Toggle
  <2>. QED
    BY <2>1
<1>4. ASSUME \/ \E unit \in {"system"} \cup Jobs : Log(unit)
             \/ Vacuum
      PROVE  UNCHANGED <<version, readable, job, started, changed, behind, now>>
  BY <1>4 DEF Log, Vacuum
<1>5. ASSUME NEW j \in Jobs, LoadJob(j)
      PROVE  /\ job' \in [Jobs -> [declared : BOOLEAN, disk : BOOLEAN, loaded : BOOLEAN, ran : BOOLEAN]]
             /\ UNCHANGED <<version, readable, started, changed, behind, now>>
  BY <1>5 DEF LoadJob
<1>6. ASSUME NEW t \in Services, Restart(t)
      PROVE  /\ started' \in [Services -> Nat] /\ now' \in Nat /\ now <= now'
             /\ behind' \in [Services -> SUBSET LoadedFiles]
             /\ \A s \in Services : started[s] <= started'[s] /\ started'[s] <= now'
             /\ \A s \in Services : Stale(s)' => started'[s] = started[s]
             /\ UNCHANGED <<version, readable, job, changed>>
  <2>1. /\ now' \in Nat /\ now <= now'
        /\ started' = [started EXCEPT ![t] = now'] /\ behind' = [behind EXCEPT ![t] = {}]
        /\ UNCHANGED <<version, readable, job, changed>>
    BY <1>1, <1>6 DEF Restart, Tick
  <2>2. ASSUME NEW s \in Services
        PROVE  /\ started[s] <= started'[s] /\ started'[s] <= now'
               /\ Stale(s)' => started'[s] = started[s]
    <3>1. CASE s = t
      <4>1. started'[s] = now' /\ behind'[s] = {}
        BY <2>1, <3>1
      <4>. QED
        BY <1>1, <2>1, <4>1 DEF Stale
    <3>2. CASE s # t
      <4>1. started'[s] = started[s]
        BY <2>1, <3>2
      <4>. QED
        BY <1>1, <2>1, <4>1
    <3>. QED
      BY <3>1, <3>2
  <2>. QED
    BY <2>1, <2>2
<1>7. ASSUME NEW f \in LoadedFiles, Pull(f)
      PROVE  /\ changed' \in [LoadedFiles -> Nat] /\ now' \in Nat /\ now <= now'
             /\ behind' \in [Services -> SUBSET LoadedFiles]
             /\ \A g \in LoadedFiles : changed[g] <= changed'[g] /\ changed'[g] <= now'
             /\ UNCHANGED <<version, readable, job, started>>
  <2>1. /\ now' \in Nat /\ now <= now'
        /\ changed' = [changed EXCEPT ![f] = now']
        /\ behind' = [s \in Services |-> behind[s] \cup {f}]
        /\ UNCHANGED <<version, readable, job, started>>
    BY <1>1, <1>7 DEF Pull, Tick
  <2>2. ASSUME NEW g \in LoadedFiles
        PROVE  changed[g] <= changed'[g] /\ changed'[g] <= now'
    <3>1. changed'[g] = IF g = f THEN now' ELSE changed[g]
      BY <2>1
    <3>. QED
      BY <1>1, <2>1, <3>1
  <2>3. changed' \in [LoadedFiles -> Nat] /\ behind' \in [Services -> SUBSET LoadedFiles]
    BY <2>1
  <2>. QED
    BY <2>1, <2>2, <2>3
<1>8. CASE \E p \in Places : Rotate(p)
  BY <1>1, <1>2, <1>8
<1>9. CASE \E p \in Readables : Toggle(p)
  BY <1>1, <1>3, <1>9
<1>10. CASE \/ \E unit \in {"system"} \cup Jobs : Log(unit)
            \/ Vacuum
  BY <1>1, <1>4, <1>10
<1>11. CASE \E j \in Jobs : LoadJob(j)
  BY <1>1, <1>5, <1>11
<1>12. CASE \E t \in Services : Restart(t)
  <2>1. PICK t \in Services : Restart(t)
    BY <1>12
  <2>2. /\ started' \in [Services -> Nat] /\ now' \in Nat /\ now <= now'
        /\ behind' \in [Services -> SUBSET LoadedFiles]
        /\ \A s \in Services : started[s] <= started'[s] /\ started'[s] <= now'
        /\ \A s \in Services : Stale(s)' => started'[s] = started[s]
        /\ UNCHANGED <<version, readable, job, changed>>
    BY <1>6, <2>1
  <2>3. \A f \in LoadedFiles : changed[f] <= changed'[f] /\ changed'[f] <= now'
    BY <1>1, <2>2
  <2>. QED
    BY <2>2, <2>3
<1>13. CASE \E f \in LoadedFiles : Pull(f)
  <2>1. PICK f \in LoadedFiles : Pull(f)
    BY <1>13
  <2>2. /\ changed' \in [LoadedFiles -> Nat] /\ now' \in Nat /\ now <= now'
        /\ behind' \in [Services -> SUBSET LoadedFiles]
        /\ \A g \in LoadedFiles : changed[g] <= changed'[g] /\ changed'[g] <= now'
        /\ UNCHANGED <<version, readable, job, started>>
    BY <1>7, <2>1
  <2>3. \A s \in Services : started[s] <= started'[s] /\ started'[s] <= now'
    BY <1>1, <2>2
  <2>. QED
    BY <2>2, <2>3
<1>. QED
  BY <1>8, <1>9, <1>10, <1>11, <1>12, <1>13 DEF Change

\* One change of the box, and what is still so after it.
LEMMA BoxGoes ==
    ASSUME BoxTyped, SteadyOK, BoxChanges
    PROVE  /\ BoxTyped' /\ SteadyOK' /\ Goes
           /\ out = None /\ UNCHANGED <<step, child, known, memo, items, out>>
<1>1. /\ out = None /\ UNCHANGED <<step, child, known, memo, items, out>> /\ KeepSteady /\ Change
  BY DEF BoxChanges, Change
<1>2. /\ steady'.values = {v \in steady.values : \E p \in Places : Value(p)' = v}
      /\ steady'.jobs = steady.jobs \cap Installed'
      /\ steady'.stale = {s \in steady.stale : Stale(s)'}
      /\ steady'.same = steady.same /\ steady'.last = steady.last
      /\ steady' \in [values : SUBSET Secrets, jobs : SUBSET Jobs, stale : SUBSET Services,
                      same : SUBSET Services, last : Nat]
  <2>1. steady' = [steady EXCEPT
            !.values = {v \in steady.values : \E p \in Places : Value(p)' = v},
            !.jobs = steady.jobs \cap Installed',
            !.stale = {s \in steady.stale : Stale(s)'}]
    BY <1>1 DEF KeepSteady
  <2>2. steady \in [values : SUBSET Secrets, jobs : SUBSET Jobs, stale : SUBSET Services,
                    same : SUBSET Services, last : Nat]
    BY DEF BoxTyped
  <2>. QED
    BY <2>1, <2>2
<1>3. /\ \/ journal' = journal /\ gone' = gone
         \/ \E unit \in {"system"} \cup Jobs : Log(unit)
         \/ Vacuum
  BY <1>1 DEF Change, Rotate, Toggle, LoadJob, Restart, Pull
<1>4. /\ journal' \in Seq(EntrySet) /\ gone' \in Nat /\ gone <= gone'
      /\ steady.last <= gone' + Len(journal')
      /\ \A i \in DOMAIN journal' : gone' + i <= steady.last =>
           \E k \in DOMAIN journal : gone + k = gone' + i /\ journal[k] = journal'[i]
  BY <1>3, JournalMoves
<1>5. BoxTyped'
  BY <1>1, <1>2, <1>4, ChangeTyped DEF BoxTyped, EntrySet
<1>6. steady'.last <= gone' + Len(journal')
  BY <1>2, <1>4
<1>7. /\ steady'.values \subseteq {Value(p)' : p \in Places}
      /\ steady'.jobs \subseteq Installed'
      /\ \A s \in steady'.stale : Stale(s)'
  BY <1>2
<1>8. SteadyOK'
  <2>1. ASSUME NEW s \in steady'.stale \ steady'.same
        PROVE  \E f \in LoadedFiles : changed'[f] > started'[s]
    <3>1. s \in steady.stale /\ s \notin steady.same /\ Stale(s)' /\ s \in Services
      BY <1>2, <2>1 DEF BoxTyped
    <3>2. PICK f \in LoadedFiles : changed[f] > started[s]
      BY <3>1 DEF SteadyOK
    <3>3. started'[s] = started[s] /\ changed[f] <= changed'[f]
      BY <1>1, <3>1, ChangeTyped
    <3>4. changed[f] \in Nat /\ changed'[f] \in Nat /\ started[s] \in Nat
      BY <1>5, <3>1 DEF BoxTyped
    <3>. QED
      BY <3>2, <3>3, <3>4
  <2>2. /\ \A s \in Services : started'[s] <= now'
        /\ \A f \in LoadedFiles : changed'[f] <= now'
    BY <1>1, ChangeTyped
  <2>. QED
    BY <1>6, <1>7, <2>1, <2>2 DEF SteadyOK
<1>9. Goes
  BY <1>1, <1>2, <1>4, ChangeTyped DEF Goes
<1>. QED
  BY <1>1, <1>5, <1>8, <1>9

Rest ==
    /\ BoxTyped /\ MemoTyped /\ ItemsTyped
    /\ SteadyOK /\ HeldOK /\ SearchOK /\ CodeOK /\ JobsOK /\ ListingOK /\ PrintOK

\* A change of the box leaves all that was read as true as it was.
LEMMA BoxKeeps ==
    ASSUME TypeOK, Rest, BoxChanges
    PROVE  TypeOK' /\ Rest'
<1>1. /\ BoxTyped' /\ SteadyOK' /\ Goes
      /\ out = None /\ UNCHANGED <<step, child, known, memo, items, out>>
  BY BoxGoes DEF Rest
<1>2. TypeOK'
  BY <1>1 DEF TypeOK, At
<1>3. MemoTyped'
  BY <1>1 DEF Rest, MemoTyped
<1>4. ItemsTyped'
  BY <1>1 DEF Rest, ItemsTyped, ItemIs, CodeTyped, JobTyped, Heard
<1>5. HeldOK'
  BY <1>1 DEF Rest, HeldOK, Held, Goes
<1>6. SearchOK'
  <2>1. SUFFICES ASSUME items["D2.3"] \notin {None, Unknown}
                 PROVE  SearchOK'
    BY <1>1 DEF SearchOK
  <2>2. ASSUME Gathered, items["D2.3"].hits = 0, NEW i \in DOMAIN journal',
               gone' + i <= steady'.last
        PROVE  journal'[i].leak \notin Searched'
    <3>1. PICK k \in DOMAIN journal : gone + k = gone' + i /\ journal[k] = journal'[i]
      BY <1>1, <2>2 DEF Goes
    <3>2. gone + k <= steady.last
      BY <1>1, <2>2, <3>1 DEF Goes
    <3>3. Searched' \subseteq Searched
      BY <1>1 DEF Searched, Goes
    <3>. QED
      BY <1>1, <2>1, <2>2, <3>1, <3>2, <3>3 DEF Rest, SearchOK
  <2>3. gone' + 1 .. steady'.last \subseteq gone + 1 .. steady.last
    BY <1>1 DEF Goes, BoxTyped, Rest
  <2>. QED
    BY <1>1, <2>1, <2>2, <2>3 DEF Rest, SearchOK, Gathered, Goes
<1>7. CodeOK'
  <2>1. ASSUME step > 8, NEW s \in DOMAIN memo["starts"], memo["starts"][s] # Unknown
        PROVE  memo["starts"][s] <= started'[s]
    <3>1. /\ memo["starts"][s] \in Nat /\ s \in Services
          /\ started[s] \in Nat /\ started'[s] \in Nat
      BY <1>1, <2>1 DEF Rest, MemoTyped, BoxTyped
    <3>2. memo["starts"][s] <= started[s] /\ started[s] <= started'[s]
      BY <1>1, <2>1, <3>1 DEF Rest, CodeOK, Goes
    <3>. QED
      BY <3>1, <3>2
  <2>. QED
    BY <1>1, <2>1 DEF Rest, CodeOK, Goes
<1>8. JobsOK' /\ ListingOK' /\ PrintOK'
  BY <1>1 DEF Rest, JobsOK, Goes, PrintOK, HoldsSecret, Sought, Listing, ListingOK, ReadOnlyLater
<1>. QED
  BY <1>1, <1>2, <1>3, <1>4, <1>5, <1>6, <1>7, <1>8 DEF Rest

\* Nor is it touched by a command that fails, hangs, is asked to end or ends, nor
\* by the printing.
LEMMA StillKeeps ==
    ASSUME Rest, UNCHANGED <<box, step, known, memo, items, steady>>
    PROVE  /\ BoxTyped' /\ MemoTyped' /\ ItemsTyped' /\ SteadyOK' /\ HeldOK'
           /\ SearchOK' /\ CodeOK' /\ JobsOK' /\ ListingOK'
           /\ Listing' = Listing /\ Sought' = Sought
<1>. USE DEF box, Rest
<1>1. BoxTyped'
  BY DEF BoxTyped
<1>2. MemoTyped'
  BY DEF MemoTyped
<1>3. ItemsTyped'
  BY DEF ItemsTyped, ItemIs, CodeTyped, JobTyped, Heard
<1>4. SteadyOK'
  BY DEF SteadyOK, Value, Stale, Installed
<1>5. HeldOK'
  BY DEF HeldOK, Held
<1>6. SearchOK'
  BY DEF SearchOK, Gathered, Searched
<1>7. CodeOK' /\ JobsOK'
  BY DEF CodeOK, JobsOK
<1>8. ListingOK' /\ Listing' = Listing /\ Sought' = Sought
  BY DEF ListingOK, Listing, Sought, ReadOnlyLater
<1>. QED
  BY <1>1, <1>2, <1>3, <1>4, <1>5, <1>6, <1>7, <1>8

LEMMA IdleKeeps ==
    ASSUME Rest, Idle
    PROVE  Rest'
BY StillKeeps DEF Idle, Rest, PrintOK, HoldsSecret

\* A command is only run in a step that has one.
LEMMA CommandTyped ==
    ASSUME TypeOK,
           CommandFails \/ CommandHangs \/ TimesOut \/ ChildEnds \/ KillChild
    PROVE  TypeOK' /\ Idle
<1>1. Idle /\ child' \in {"hung", "asked", "failed"}
  BY DEF CommandFails, CommandHangs, TimesOut, ChildEnds, KillChild
<1>2. \E s \in Commands : At(s)
  BY DEF TypeOK, CommandFails, CommandHangs, TimesOut, ChildEnds, KillChild
<1>. QED
  BY <1>1, <1>2 DEF TypeOK, Idle, At
-----------------------------------------------------------------------------
(***************************************************************************)
(* A step of the collection: what it leaves alone.                         *)
(***************************************************************************)
\* No two steps are the same.
LEMMA StepsDiffer ==
    ASSUME NEW a \in 1 .. 16, NEW b \in 1 .. 16, Steps[a] = Steps[b]
    PROVE  a = b
<1>1. \/ a = 1 \/ a = 2 \/ a = 3 \/ a = 4 \/ a = 5 \/ a = 6 \/ a = 7 \/ a = 8
      \/ a = 9 \/ a = 10 \/ a = 11 \/ a = 12 \/ a = 13 \/ a = 14 \/ a = 15 \/ a = 16
  OBVIOUS
<1>. QED
  BY <1>1, StepsAre, PlaceIs

\* None and Unknown are nothing that an item holds when it is measured.
LEMMA MeasuredIsSomething ==
    \A i \in Probed : None \notin Measured(i) /\ Unknown \notin Measured(i)
BY NoneAssumption

\* At most the item i is written.
Adds(i) ==
    /\ i \in Probed /\ DOMAIN items' = Probed
    /\ \A x \in Probed \ {i} : items'[x] = items[x]

\* The items that a step may write: its own, or one that is read in two steps.
Writes(k, i) ==
    /\ Adds(i)
    /\ \/ i = Steps[k]
       \/ k = 1 /\ i = "credentials"
       \/ k = 5 /\ i = "D2.3"
       \/ k \in {2, 8} /\ items' = items

SameLists == \A x \in {"declared", "installed", "disk", "starts", "gateway"} : memo'[x] = memo[x]

LEMMA OtherItems ==
    ASSUME ItemsTyped, SameLists,
           NEW i \in Probed, Adds(i), NEW x \in Probed \ {i}
    PROVE  ItemIs(x)'
<1>1. ItemIs(x) /\ items'[x] = items[x]
  BY DEF ItemsTyped, Adds
<1>2. Heard' = Heard
  BY DEF SameLists, Heard
<1>. QED
  BY <1>1, <1>2 DEF ItemIs, CodeTyped, JobTyped, SameLists

\* What is not due yet is not written.
LEMMA NotDue ==
    ASSUME TypeOK, ItemsTyped, NEW k \in 1 .. 15, Collects(k), NEW i, Writes(k, i),
           NEW m \in k + 1 .. 16, Steps[m] \in Probed \ {"credentials"}
    PROVE  items'[Steps[m]] = None
<1>1. items[Steps[m]] = None
  BY StepsAre DEF ItemsTyped, Collects
<1>2. Steps[m] # Steps[k]
  BY StepsDiffer
<1>3. Steps[m] # "D2.3" \/ k # 5
  BY PlaceIs
<1>. QED
  BY <1>1, <1>2, <1>3 DEF Writes, Adds

\* What was due is there.
LEMMA Due ==
    ASSUME TypeOK, NEW k \in 1 .. 15, Collects(k), NEW i, Writes(k, i),
           i = "credentials" \/ items'[i] # None, known' \subseteq Secrets
    PROVE  TypeOK'
<1>1. step' \in 1 .. Len(Steps) /\ out' = out /\ child' = "none" /\ out \in {None, "printed", "refused"}
  BY StepsAre DEF Collects, TypeOK
<1>2. ASSUME NEW j \in 1 .. k, Steps[j] \in Probed \ {"credentials"}
      PROVE  items'[Steps[j]] # None
  <2>1. CASE Steps[j] = i /\ k \notin {2, 8}
    BY <1>2, <2>1
  <2>2. CASE j < k /\ (Steps[j] # i \/ k \in {2, 8})
    <3>1. items[Steps[j]] # None
      BY <1>2, <2>2 DEF TypeOK, Collects
    <3>. QED
      BY <1>2, <2>2, <3>1, StepsAre DEF Writes, Adds
  <2>3. CASE j = k /\ (Steps[j] # i \/ k \in {2, 8})
    BY <1>2, <2>3, StepsAre DEF Writes, Probed
  <2>. QED
    BY <2>1, <2>2, <2>3
<1>3. \A j \in 1 .. step' - 1 : Steps[j] \in Probed \ {"credentials"} => items'[Steps[j]] # None
  BY <1>2 DEF Collects
<1>. QED
  BY <1>1, <1>3 DEF TypeOK

LEMMA Written ==
    ASSUME TypeOK, Rest, NEW k \in 1 .. 15, Collects(k), NEW i \in Probed, Writes(k, i), SameLists,
           ItemIs(i)'
    PROVE  ItemsTyped'
<1>1. \A x \in Probed \ {i} : ItemIs(x)'
  BY OtherItems DEF Rest, Writes
<1>2. \A m \in step' .. Len(Steps) :
         Steps[m] \in Probed \ {"credentials"} => items'[Steps[m]] = None
  BY NotDue, StepsAre DEF Rest, Collects
<1>. QED
  BY <1>1, <1>2 DEF ItemsTyped, Writes, Adds

\* The box has not moved, and nothing is printed.
LEMMA BoxStands ==
    ASSUME Rest, NEW k \in 1 .. 15, Collects(k)
    PROVE  BoxTyped' /\ SteadyOK' /\ PrintOK'
<1>1. UNCHANGED <<box, steady>> /\ out' = None
  BY DEF Collects
<1>2. BoxTyped'
  BY <1>1 DEF Rest, BoxTyped, box
<1>3. SteadyOK'
  BY <1>1 DEF Rest, SteadyOK, Value, Stale, Installed, box
<1>4. PrintOK'
  BY <1>1, NoneAssumption DEF PrintOK
<1>. QED
  BY <1>2, <1>3, <1>4

\* Nothing of what a claim rests on is forgotten.
LEMMA HeldKept ==
    ASSUME Rest, NEW k \in 2 .. 15, Collects(k), known \subseteq known',
           memo'["gateway"] = memo["gateway"], items'["D2.1"] = items["D2.1"],
           items'["credentials"] # Unknown => items["credentials"] # Unknown
    PROVE  HeldOK' /\ (Gathered' => Gathered)
BY DEF Rest, HeldOK, Held, Gathered, Collects

LEMMA SearchKept ==
    ASSUME Rest, NEW k \in 1 .. 15, Collects(k), Gathered' => Gathered,
           items'["D2.3"] = items["D2.3"]
    PROVE  SearchOK'
<1>1. UNCHANGED <<journal, gone, steady>>
  BY DEF Collects, box
<1>. QED
  BY <1>1 DEF Rest, SearchOK, Searched

\* Before its step an item is not there.
LEMMA NotYet ==
    ASSUME ItemsTyped, NEW k \in 1 .. 16, step = k
    PROVE  /\ k <= 3 => items["D2.1"] = None
           /\ k <= 4 => items["D2.3"] = None
           /\ k <= 6 => items["D2.4"] = None
           /\ k <= 7 => items["D4.1"] = None
           /\ k <= 9 => items["D4.6"] = None
           /\ k <= 10 => items["D10.3"] = None
           /\ k <= 11 => items["D10.6"] = None
           /\ k <= 12 => items["D10.7"] = None
           /\ k <= 13 => items["D10.8"] = None
           /\ k <= 15 => items["fingerprint"] = None
<1>1. \A m \in k .. 16 : Steps[m] \in Probed \ {"credentials"} => items[Steps[m]] = None
  BY StepsAre DEF ItemsTyped
<1>2. \A m \in {3, 4, 6, 7, 9, 10, 11, 12, 13, 15} : Steps[m] \in Probed \ {"credentials"}
  BY StepsAre DEF Probed
<1>3. \A m \in {3, 4, 6, 7, 9, 10, 11, 12, 13, 15} : k <= m => items[Steps[m]] = None
  BY <1>1, <1>2
<1>. QED
  BY <1>3, StepsAre

\* The listing is what it was, or not there yet.
LEMMA ListingKept ==
    ASSUME Rest, NEW k \in 1 .. 15, Collects(k), items'["D10.6"] = items["D10.6"],
           k < 11 \/ (known' = known /\ items'["D2.1"] = items["D2.1"])
    PROVE  ListingOK'
<1>1. steady' = steady
  BY DEF Collects
<1>2. CASE k < 11
  <2>1. items["D10.6"] = None
    BY <1>2, NotYet DEF Rest, Collects
  <2>. QED
    BY <2>1, NoneAssumption DEF ListingOK
<1>3. CASE known' = known /\ items'["D2.1"] = items["D2.1"]
  BY <1>1, <1>3 DEF Rest, ListingOK, Listing, Sought, ReadOnlyLater
<1>. QED
  BY <1>2, <1>3

LEMMA CodeKept ==
    ASSUME Rest, NEW k \in 1 .. 15, Collects(k),
           memo'["starts"] = memo["starts"], items'["D4.6"] = items["D4.6"],
           k > 8 \/ k < 8
    PROVE  CodeOK'
<1>1. UNCHANGED <<started, steady>>
  BY DEF Collects, box
<1>. QED
  BY <1>1 DEF Rest, CodeOK, Collects
LEMMA MemoKept ==
    ASSUME Rest, NEW k \in 1 .. 15, Collects(k), memo' = memo, k \notin {2, 6, 8}
    PROVE  MemoTyped' /\ SameLists /\ JobsOK'
<1>1. steady' = steady /\ step' = k + 1 /\ step = k
  BY DEF Collects
<1>2. /\ k + 1 > 2 => k > 2 \/ k + 1 = 2
      /\ k + 1 > 6 => k > 6
      /\ k + 1 > 8 => k > 8
      /\ k + 1 <= 5 => k <= 5
  OBVIOUS
<1>3. MemoTyped'
  BY <1>1, <1>2 DEF Rest, MemoTyped
<1>. QED
  BY <1>1, <1>3 DEF Rest, SameLists, JobsOK

-----------------------------------------------------------------------------
(***************************************************************************)
(* The steps that only write their item.                                   *)
(***************************************************************************)
\* An item that no other claim rests on.
LEMMA Quiet ==
    ASSUME TypeOK, Rest, NEW k \in {7, 11, 15}, Collects(k), NEW i \in Probed, Writes(k, i),
           i = Steps[k], memo' = memo, known' = known, ItemIs(i)', items'[i] # None,
           k = 11 => ListingOK'
    PROVE  TypeOK' /\ Rest'
<1>1. i \in {"D4.1", "D10.6", "fingerprint"}
  BY StepsAre
<1>2. /\ items'["D2.1"] = items["D2.1"] /\ items'["D2.3"] = items["D2.3"]
      /\ items'["D4.6"] = items["D4.6"] /\ items'["credentials"] = items["credentials"]
  BY <1>1 DEF Writes, Adds, Probed
<1>3. MemoTyped' /\ SameLists /\ JobsOK'
  BY MemoKept
<1>4. TypeOK'
  BY Due DEF TypeOK
<1>5. ItemsTyped'
  BY <1>3, Written
<1>6. HeldOK' /\ (Gathered' => Gathered)
  BY <1>2, HeldKept
<1>7. SearchOK' /\ CodeOK' /\ BoxTyped' /\ SteadyOK' /\ PrintOK'
  BY <1>2, <1>6, SearchKept, CodeKept, BoxStands
<1>8. ListingOK'
  <2>1. k # 11 => items'["D10.6"] = items["D10.6"]
    BY StepsAre DEF Writes, Adds, Probed
  <2>. QED
    BY <1>2, <2>1, ListingKept
<1>. QED
  BY <1>3, <1>4, <1>5, <1>6, <1>7, <1>8 DEF Rest

LEMMA GatewayItemKeeps ==
    ASSUME TypeOK, Rest, GatewayItem
    PROVE  TypeOK' /\ Rest'
<1>1. Collects(7) /\ step > 2
  BY CollectsIs DEF Collects
<1>2. memo["gateway"] \in {"measured", Unknown}
  BY <1>1 DEF Rest, MemoTyped
<1>. DEFINE d == items'["D4.1"]
<1>3. /\ memo' = memo /\ known' = known
      /\ items' = [items EXCEPT !["D4.1"] =
                     IF readable["gateway"] /\ Answered THEN [states |-> memo["gateway"]] ELSE Unknown]
  BY DEF GatewayItem, Note
<1>4. DOMAIN items = Probed /\ "D4.1" \in Probed
  BY DEF Rest, ItemsTyped, Probed
<1>5. Writes(7, "D4.1")
  BY <1>3, <1>4, StepsAre DEF Writes, Adds
<1>6. d = Unknown \/ d = [states |-> memo["gateway"]]
  BY <1>3, <1>4
<1>7. Measured("D4.1") = [states : {"measured", Unknown}]
  BY DEF Measured, JobItems
<1>8. d \in {Unknown} \cup Measured("D4.1") /\ (d # Unknown => d.states = memo["gateway"])
  <2>1. CASE d = Unknown
    BY <2>1
  <2>2. CASE d = [states |-> memo["gateway"]]
    <3>1. [states |-> memo["gateway"]] \in [states : {"measured", Unknown}]
      BY <1>2
    <3>2. d.states = memo["gateway"]
      BY <2>2
    <3>. QED
      BY <1>7, <2>2, <3>1, <3>2
  <2>. QED
    BY <1>6, <2>1, <2>2
<1>9. d # None
  BY <1>4, <1>8, MeasuredIsSomething, NoneAssumption
<1>10. ItemIs("D4.1")'
  BY <1>3, <1>8 DEF ItemIs, JobItems
<1>. QED
  BY <1>1, <1>3, <1>4, <1>5, <1>9, <1>10, Quiet, StepsAre

LEMMA GatewayListingKeeps ==
    ASSUME TypeOK, Rest, GatewayListing
    PROVE  TypeOK' /\ Rest'
<1>1. Collects(11)
  BY CollectsIs
<1>. DEFINE d == items'["D10.6"]
            Lines == {[value |-> Value(p), part |-> part] : p \in Places, part \in {"whole", "cut"}}
            Shown(text) == [listing |-> IF memo["gateway"] = Unknown THEN Unknown
                                        ELSE IF readable["gateway"] /\ Answered THEN text ELSE None]
<1>2. PICK text \in {None} \cup Lines :
         /\ text # None /\ text.part = "cut" => text.value \notin Sought
         /\ items' = [items EXCEPT !["D10.6"] = Shown(text)]
  <2>1. PICK text \in {None} \cup Lines :
          /\ text # None /\ text.part = "cut" => text.value \notin Sought
          /\ Note("D10.6", Shown(text))
    BY DEF GatewayListing
  <2>2. items' = [items EXCEPT !["D10.6"] = Shown(text)]
    BY <2>1 DEF Note
  <2>. HIDE DEF Lines, Shown
  <2>. QED
    BY <2>1, <2>2
<1>3. memo' = memo /\ known' = known
  BY DEF GatewayListing
<1>4. DOMAIN items = Probed /\ "D10.6" \in Probed
  BY DEF Rest, ItemsTyped, Probed
<1>5. Writes(11, "D10.6")
  BY <1>2, <1>4, StepsAre DEF Writes, Adds
<1>6. text = None \/ (text \in Text /\ text.part \in {"whole", "cut"})
  <2>1. ASSUME NEW p \in Places, NEW part \in {"whole", "cut"},
               text = [value |-> Value(p), part |-> part]
        PROVE  text \in Text /\ text.part \in {"whole", "cut"}
    <3>1. Value(p) \in Secrets
      BY ValuesAre DEF Rest, BoxTyped
    <3>. QED
      BY <2>1, <3>1 DEF Text
  <2>. QED
    BY <2>1
<1>7. d = [listing |-> Unknown] \/ d = [listing |-> text] \/ d = [listing |-> None]
  BY <1>2, <1>4
<1>. HIDE DEF d
<1>8. \A x \in {None, Unknown} \cup Text : [listing |-> x] \in Measured("D10.6")
  BY DEF Measured, JobItems
<1>9. d \in Measured("D10.6")
  BY <1>6, <1>7, <1>8
<1>10. d # None /\ d # Unknown
  BY <1>4, <1>9, MeasuredIsSomething
<1>11. ItemIs("D10.6")'
  BY <1>9 DEF ItemIs, JobItems, d
<1>12. d.listing \in Text => d.listing = text
  BY <1>7, NoneAssumption
<1>13. ListingOK'
  <2>1. Listing' = d.listing
    BY DEF Listing, d
  <2>2. Sought' = Sought
    BY <1>3 DEF Sought
  <2>3. d.listing \in Text => d.listing.part \in {"whole", "cut"}
    BY <1>6, <1>12, NoneAssumption
  <2>4. d.listing \in Text /\ d.listing.part = "cut" => d.listing.value \notin Sought
    BY <1>2, <1>12, NoneAssumption
  <2>. QED
    BY <1>10, <2>1, <2>2, <2>3, <2>4 DEF ListingOK, d
<1>. QED
  BY <1>1, <1>3, <1>4, <1>5, <1>10, <1>11, <1>13, Quiet, StepsAre DEF d

LEMMA FingerprintKeeps ==
    ASSUME TypeOK, Rest, Fingerprint
    PROVE  TypeOK' /\ Rest'
<1>1. Collects(15)
  BY CollectsIs
<1>. DEFINE d == items'["fingerprint"]
<1>2. /\ memo' = memo /\ known' = known
      /\ items' = [items EXCEPT !["fingerprint"] = IF Answered THEN "complete" ELSE "incomplete"]
  BY DEF Fingerprint, Note
<1>3. DOMAIN items = Probed /\ "fingerprint" \in Probed
  BY DEF Rest, ItemsTyped, Probed
<1>4. Writes(15, "fingerprint")
  BY <1>2, <1>3, StepsAre DEF Writes, Adds
<1>5. d \in {"complete", "incomplete"}
  BY <1>2, <1>3
<1>6. Measured("fingerprint") = {"complete", "incomplete", "listed"}
  BY DEF Measured, JobItems
<1>7. d # None
  BY <1>3, <1>5, <1>6, MeasuredIsSomething
<1>8. ItemIs("fingerprint")'
  BY <1>5, <1>6 DEF ItemIs, JobItems
<1>. QED
  BY <1>1, <1>2, <1>3, <1>4, <1>7, <1>8, Quiet, StepsAre
-----------------------------------------------------------------------------
(***************************************************************************)
(* The credentials.                                                        *)
(***************************************************************************)
\* What was held all along is what is held now.
LEMMA NowHeld ==
    ASSUME Rest, NEW p \in Places, Value(p) \in known', steady' = steady
    PROVE  Held(p)'
<1>1. \A v \in steady.values : \E q \in Places : v = Value(q) /\ v.place = q
  BY ValuesAre DEF Rest, SteadyOK, BoxTyped
<1>. QED
  BY <1>1 DEF Held

LEMMA StillHeld ==
    ASSUME NEW p \in Places, Held(p), known \subseteq known', steady' = steady
    PROVE  Held(p)'
BY DEF Held

\* The search and the code are not looked at yet.
LEMMA TooEarly ==
    ASSUME Rest, NEW k \in 1 .. 3, Collects(k), items'["D2.3"] = items["D2.3"],
           items'["D4.6"] = items["D4.6"]
    PROVE  SearchOK' /\ CodeOK'
<1>1. items["D2.3"] = None /\ items["D4.6"] = None
  BY NotYet DEF Rest, Collects
<1>. QED
  BY <1>1 DEF SearchOK, CodeOK, Collects

LEMMA ReadOtherKeeps ==
    ASSUME TypeOK, Rest, ReadOther
    PROVE  TypeOK' /\ Rest'
<1>1. Collects(1) /\ UNCHANGED <<box, steady>>
  BY CollectsIs DEF Collects
<1>2. /\ known' = IF readable["other"] THEN known \cup {Value("other")} ELSE known
      /\ items' = [items EXCEPT !["credentials"] = IF readable["other"] THEN None ELSE Unknown]
      /\ memo' = memo
  BY DEF ReadOther, Note
<1>3. DOMAIN items = Probed /\ "credentials" \in Probed
  BY DEF Rest, ItemsTyped, Probed
<1>4. Writes(1, "credentials")
  BY <1>2, <1>3 DEF Writes, Adds
<1>5. MemoTyped' /\ SameLists /\ JobsOK'
  BY <1>1, <1>2, MemoKept
<1>6. known \subseteq known' /\ known' \subseteq Secrets
  BY <1>2, ValuesAre DEF TypeOK, Rest, BoxTyped, Places
<1>7. TypeOK'
  BY <1>1, <1>4, <1>6, Due
<1>8. ItemIs("credentials")'
  BY <1>2, <1>3 DEF ItemIs, JobItems
<1>9. ItemsTyped'
  BY <1>1, <1>3, <1>4, <1>5, <1>8, Written
<1>10. HeldOK'
  <2>1. Held("gateway") => Held("gateway")'
    BY <1>1, <1>6, StillHeld DEF Places
  <2>2. items'["credentials"] # Unknown => Held("other")'
    BY <1>1, <1>2, <1>3, NowHeld DEF Places
  <2>3. items'["D2.1"] = None
    BY <1>1, <1>2, <1>3, NotYet DEF Rest, Collects
  <2>. QED
    BY <1>2, <2>1, <2>2, <2>3 DEF HeldOK, Rest
<1>11. SearchOK' /\ CodeOK' /\ BoxTyped' /\ SteadyOK' /\ PrintOK'
  BY <1>1, <1>2, TooEarly, BoxStands
<1>20. ListingOK'
  <2>1. items'["D10.6"] = items["D10.6"]
    BY <1>2, <1>3 DEF Probed
  <2>. QED
    BY <1>1, <2>1, ListingKept
<1>. QED
  BY <1>20, <1>5, <1>7, <1>9, <1>10, <1>11 DEF Rest

LEMMA SweepKeeps ==
    ASSUME TypeOK, Rest, Sweep
    PROVE  TypeOK' /\ Rest'
<1>1. Collects(3) /\ UNCHANGED <<box, steady>>
  BY CollectsIs DEF Collects
<1>2. /\ memo' = [memo EXCEPT !["sweep"] = IF Answered THEN "done" ELSE Unknown]
      /\ items' = [items EXCEPT !["D2.1"] =
                     IF Answered THEN SweepRows ELSE Unknown]
      /\ known' = IF Answered THEN known \cup {Value(p) : p \in ReadableFiles} ELSE known
  BY DEF Sweep, Note
<1>3. DOMAIN items = Probed /\ "D2.1" \in Probed
  BY DEF Rest, ItemsTyped, Probed
<1>4. Writes(3, "D2.1")
  BY <1>2, <1>3, StepsAre DEF Writes, Adds
<1>5. \A x \in DOMAIN memo : x # "sweep" => memo'[x] = memo[x]
  BY <1>2
<1>6. MemoTyped' /\ SameLists /\ JobsOK'
  <2>1. MemoTyped'
    BY <1>1, <1>2, <1>5 DEF Rest, MemoTyped, Collects
  <2>2. SameLists
    BY <1>5 DEF Rest, MemoTyped, SameLists
  <2>. QED
    BY <1>1, <2>1, <2>2 DEF Rest, JobsOK, SameLists
<1>7. known \subseteq known' /\ known' \subseteq Secrets
  BY <1>2, ValuesAre DEF TypeOK, Rest, BoxTyped, ReadableFiles, Files, Places
<1>8. items'["D2.1"] = Unknown \/ items'["D2.1"] = SweepRows
  BY <1>2, <1>3
<1>9. Measured("D2.1") = [unread : SUBSET Files, short : SUBSET Files]
  BY DEF Measured, JobItems
<1>10. items'["D2.1"] \in {Unknown} \cup Measured("D2.1")
  BY <1>8, <1>9 DEF SweepRows, ReadableFiles
<1>11. items'["D2.1"] # None
  BY <1>3, <1>10, MeasuredIsSomething, NoneAssumption
<1>12. ItemIs("D2.1")'
  BY <1>10 DEF ItemIs, JobItems
<1>13. TypeOK' /\ ItemsTyped'
  BY <1>1, <1>3, <1>4, <1>6, <1>7, <1>11, <1>12, Due, Written
<1>14. HeldOK'
  <2>1. \A p \in {"gateway", "other"} : Held(p) => Held(p)'
    BY <1>1, <1>7, StillHeld DEF Places
  <2>2. items'["credentials"] = items["credentials"] /\ memo'["gateway"] = memo["gateway"]
    BY <1>2, <1>3, <1>6 DEF SameLists
  <2>3. ASSUME items'["D2.1"] \notin {None, Unknown}
        PROVE  /\ "google" \notin items'["D2.1"].unread => Held("google")'
               /\ items'["D2.1"].unread = {} /\ items'["D2.1"].short = {} =>
                    \A v \in steady'.values : v.place = "other" => v \notin Short
    <3>1. /\ Answered /\ items'["D2.1"].unread = Files \ ReadableFiles
          /\ items'["D2.1"].short = {p \in ReadableFiles \ {"google"} : Value(p) \in Short}
      BY <1>2, <1>3, <2>3 DEF SweepRows
    <3>2. "google" \notin items'["D2.1"].unread => Held("google")'
      <4>1. "google" \notin items'["D2.1"].unread => Value("google") \in known'
        BY <1>2, <3>1 DEF Files
      <4>. QED
        BY <1>1, <4>1, NowHeld DEF Places
    <3>3. ASSUME items'["D2.1"].unread = {}, items'["D2.1"].short = {},
                 NEW v \in steady'.values, v.place = "other"
          PROVE  v \notin Short
      <4>1. "other" \in ReadableFiles \ {"google"}
        BY <3>1, <3>3 DEF Files
      <4>2. Value("other") \notin Short
        BY <3>1, <3>3, <4>1
      <4>3. v = Value("other")
        BY <1>1, <3>3, ValuesAre DEF Rest, SteadyOK, BoxTyped
      <4>. QED
        BY <4>2, <4>3
    <3>. QED
      BY <3>2, <3>3
  <2>. QED
    BY <1>1, <2>1, <2>2, <2>3 DEF HeldOK, Rest, Collects
<1>15. SearchOK' /\ CodeOK' /\ BoxTyped' /\ SteadyOK' /\ PrintOK'
  BY <1>1, <1>2, TooEarly, BoxStands
<1>20. ListingOK'
  <2>1. items'["D10.6"] = items["D10.6"]
    BY <1>2, <1>3 DEF Probed
  <2>. QED
    BY <1>1, <2>1, ListingKept
<1>. QED
  BY <1>20, <1>6, <1>13, <1>14, <1>15 DEF Rest

LEMMA ReadAgainKeeps ==
    ASSUME TypeOK, Rest, ReadAgain
    PROVE  TypeOK' /\ Rest'
<1>1. Collects(14) /\ UNCHANGED <<box, steady>>
  BY CollectsIs DEF Collects
<1>2. /\ known' = IF memo["sweep"] # Unknown /\ readable["google"]
                  THEN known \cup {Value("google")} ELSE known
      /\ items' = [items EXCEPT !["credentials"] =
                     IF memo["sweep"] = Unknown THEN Unknown
                     ELSE IF items["credentials"] = Unknown THEN Unknown ELSE "listed"]
      /\ memo' = memo
  BY DEF ReadAgain, Note
<1>3. DOMAIN items = Probed /\ "credentials" \in Probed
  BY DEF Rest, ItemsTyped, Probed
<1>4. Writes(14, "credentials")
  BY <1>2, <1>3, StepsAre DEF Writes, Adds
<1>5. MemoTyped' /\ SameLists /\ JobsOK'
  BY <1>1, <1>2, MemoKept
<1>6. known \subseteq known' /\ known' \subseteq Secrets
  BY <1>2, ValuesAre DEF TypeOK, Rest, BoxTyped, Places
<1>7. TypeOK'
  BY <1>1, <1>4, <1>6, Due
<1>8. ItemIs("credentials")'
  <2>1. items'["credentials"] \in {Unknown, "listed"}
    BY <1>2, <1>3
  <2>2. Measured("credentials") = {"complete", "incomplete", "listed"}
    BY DEF Measured, JobItems
  <2>. QED
    BY <2>1, <2>2 DEF ItemIs, JobItems
<1>9. ItemsTyped'
  BY <1>1, <1>3, <1>4, <1>5, <1>8, Written
<1>10. /\ items'["D2.1"] = items["D2.1"] /\ items'["D2.3"] = items["D2.3"]
       /\ items'["D4.6"] = items["D4.6"]
       /\ items'["credentials"] # Unknown => items["credentials"] # Unknown
  BY <1>2, <1>3
<1>11. HeldOK' /\ (Gathered' => Gathered)
  BY <1>1, <1>2, <1>6, <1>10, HeldKept
<1>12. SearchOK' /\ CodeOK' /\ BoxTyped' /\ SteadyOK' /\ PrintOK'
  BY <1>1, <1>2, <1>10, <1>11, SearchKept, CodeKept, BoxStands
<1>13. ListingOK'
  <2>1. items'["D10.6"] = items["D10.6"]
    BY <1>2, <1>3 DEF Probed
  <2>2. /\ Listing' = Listing /\ ReadOnlyLater(Listing.value)' = ReadOnlyLater(Listing.value)
    BY <1>1, <1>10, <2>1 DEF Listing, ReadOnlyLater
  <2>3. ASSUME items["D10.6"] \notin {None, Unknown}, Listing \in Text, Listing.part = "cut",
               Listing.value \in Sought', Listing.value \notin Sought
        PROVE  ReadOnlyLater(Listing.value)
    <3>1. Listing.value = Value("google") /\ Listing.value \notin known
      BY <1>2, <2>3 DEF Sought
    <3>2. Listing.value.place = "google"
      BY <3>1, ValuesAre DEF Rest, BoxTyped, Places
    <3>3. items["D2.1"] # None
      <4>1. Steps[3] = "D2.1" /\ 3 \in 1 .. step - 1
        BY <1>1, StepsAre DEF Collects
      <4>. QED
        BY <4>1 DEF TypeOK, Probed
    <3>4. Listing.value \in steady.values => ~Held("google")
      BY <3>1, <3>2 DEF Held
    <3>. QED
      BY <3>2, <3>3, <3>4 DEF ReadOnlyLater, Rest, HeldOK
  <2>. QED
    BY <2>1, <2>2, <2>3 DEF Rest, ListingOK
<1>. QED
  BY <1>5, <1>7, <1>9, <1>11, <1>12, <1>13 DEF Rest
LEMMA ReadGatewayKeeps ==
    ASSUME TypeOK, Rest, ReadGateway
    PROVE  TypeOK' /\ Rest'
<1>1. Collects(2) /\ UNCHANGED <<box, steady>>
  BY CollectsIs DEF Collects
<1>2. /\ \/ known' = known \cup {Value("gateway")} /\ memo' = [memo EXCEPT !["gateway"] = "measured"]
         \/ known' = known /\ memo' = [memo EXCEPT !["gateway"] = Unknown]
      /\ items' = items
  BY DEF ReadGateway
<1>3. DOMAIN items = Probed /\ "credentials" \in Probed /\ "D2.1" \in Probed
  BY DEF Rest, ItemsTyped, Probed
<1>4. /\ items["D2.1"] = None /\ items["D4.1"] = None /\ items["D4.6"] = None
      /\ items["D10.3"] = None /\ items["D10.7"] = None /\ items["D10.8"] = None
  BY <1>1, NotYet DEF Rest, Collects
<1>5. Writes(2, "credentials")
  BY <1>2, <1>3 DEF Writes, Adds
<1>6. known \subseteq known' /\ known' \subseteq Secrets
  BY <1>2, ValuesAre DEF TypeOK, Rest, BoxTyped, Places
<1>7. TypeOK'
  BY <1>1, <1>5, <1>6, Due
<1>8. \A x \in DOMAIN memo : x # "gateway" => memo'[x] = memo[x]
  BY <1>2
<1>9. memo'["gateway"] \in {"measured", Unknown} /\ DOMAIN memo' = DOMAIN memo
  BY <1>2 DEF Rest, MemoTyped
<1>10. MemoTyped'
  BY <1>1, <1>8, <1>9, NoneAssumption DEF Rest, MemoTyped, Collects
<1>11. JobsOK'
  BY <1>1, <1>8 DEF Rest, JobsOK, MemoTyped
<1>12. ItemsTyped'
  <2>1. ASSUME NEW x \in Probed PROVE ItemIs(x)'
    <3>1. ItemIs(x) /\ items'[x] = items[x]
      BY <1>2 DEF Rest, ItemsTyped
    <3>. QED
      BY <1>4, <3>1 DEF ItemIs, JobItems
  <2>2. \A m \in step' .. Len(Steps) :
           Steps[m] \in Probed \ {"credentials"} => items'[Steps[m]] = None
    BY <1>1, <1>5, NotDue, StepsAre DEF Rest, Collects
  <2>. QED
    BY <1>2, <1>3, <2>1, <2>2 DEF ItemsTyped
<1>13. HeldOK'
  <2>1. items["credentials"] # Unknown => Held("other")'
    BY <1>1, <1>6, StillHeld DEF Places, HeldOK, Rest, Collects
  <2>2. memo'["gateway"] = "measured" => Held("gateway")'
    <3>1. memo'["gateway"] = "measured" => Value("gateway") \in known'
      BY <1>2, NoneAssumption DEF Rest, MemoTyped
    <3>. QED
      BY <1>1, <3>1, NowHeld DEF Places
  <2>. QED
    BY <1>2, <1>4, <2>1, <2>2 DEF HeldOK
<1>14. SearchOK' /\ CodeOK' /\ BoxTyped' /\ SteadyOK' /\ PrintOK'
  BY <1>1, <1>2, TooEarly, BoxStands
<1>20. ListingOK'
  <2>1. items'["D10.6"] = items["D10.6"]
    BY <1>2, <1>3 DEF Probed
  <2>. QED
    BY <1>1, <2>1, ListingKept
<1>. QED
  BY <1>20, <1>7, <1>10, <1>11, <1>12, <1>13, <1>14 DEF Rest

-----------------------------------------------------------------------------
(***************************************************************************)
(* The journal.                                                            *)
(***************************************************************************)
\* No hits: what is looked for is in no entry.
LEMMA NoHits ==
    ASSUME BoxTyped
    PROVE  /\ \A units : Hits(units) \in Nat
           /\ Hits({"system"} \cup Jobs) = 0 =>
                \A i \in DOMAIN journal : journal[i].leak \notin Sought
<1>1. /\ Len(journal) \in Nat /\ DOMAIN journal = 1 .. Len(journal)
      /\ \A i \in DOMAIN journal : journal[i].unit \in {"system"} \cup Jobs
  <2>1. journal \in Seq(EntrySet)
    BY DEF BoxTyped, EntrySet
  <2>2. \A i \in DOMAIN journal : journal[i] \in EntrySet
    BY <2>1
  <2>. QED
    BY <2>1, <2>2 DEF EntrySet
<1>. DEFINE Those(units) == {i \in DOMAIN journal : journal[i].unit \in units /\ journal[i].leak \in Sought}
<1>2. IsFiniteSet(DOMAIN journal)
  BY <1>1, FS_Interval
<1>3. ASSUME NEW units PROVE IsFiniteSet(Those(units)) /\ Hits(units) = Cardinality(Those(units))
  BY <1>2, FS_Subset DEF Hits
<1>4. \A units : Hits(units) \in Nat
  BY <1>3, FS_CardinalityType
<1>5. ASSUME Hits({"system"} \cup Jobs) = 0
      PROVE  \A i \in DOMAIN journal : journal[i].leak \notin Sought
  <2>1. Those({"system"} \cup Jobs) = {}
    BY <1>3, <1>5, FS_EmptySet
  <2>. QED
    BY <1>1, <2>1
<1>. QED
  BY <1>4, <1>5

LEMMA SearchJournalKeeps ==
    ASSUME TypeOK, Rest, SearchJournal
    PROVE  TypeOK' /\ Rest'
<1>1. Collects(4) /\ UNCHANGED <<box, steady>>
  BY CollectsIs DEF Collects
<1>. DEFINE d == [hits |-> Hits({"system"} \cup Jobs), entries |-> Numbers, oldest |-> memo["oldest"]]
<1>2. /\ memo' = memo /\ known' = known
      /\ items' = [items EXCEPT !["D2.3"] = IF Answered THEN d ELSE Unknown]
  BY DEF SearchJournal, Note
<1>3. DOMAIN items = Probed /\ "D2.3" \in Probed
  BY DEF Rest, ItemsTyped, Probed
<1>4. Writes(4, "D2.3")
  BY <1>2, <1>3, StepsAre DEF Writes, Adds
<1>5. MemoTyped' /\ SameLists /\ JobsOK'
  BY <1>1, <1>2, MemoKept
<1>6. Len(journal) \in Nat /\ gone \in Nat
  BY DEF Rest, BoxTyped
<1>7. Hits({"system"} \cup Jobs) \in Nat /\ Numbers \in SUBSET Nat /\ memo["oldest"] = None
  BY <1>1, <1>6, NoHits DEF Rest, Numbers, MemoTyped, Collects
<1>8. d \in Measured("D2.3")
  BY <1>7 DEF Measured, JobItems
<1>9. items'["D2.3"] = Unknown \/ items'["D2.3"] = d
  BY <1>2, <1>3
<1>10. items'["D2.3"] # None
  BY <1>3, <1>8, <1>9, MeasuredIsSomething, NoneAssumption
<1>11. ItemIs("D2.3")'
  BY <1>8, <1>9 DEF ItemIs, JobItems
<1>12. TypeOK' /\ ItemsTyped'
  <2>1. known' \subseteq Secrets
    BY <1>2 DEF TypeOK
  <2>2. TypeOK'
    BY <1>1, <1>3, <1>4, <1>10, <2>1, Due
  <2>3. ItemsTyped'
    BY <1>1, <1>3, <1>4, <1>5, <1>11, Written
  <2>. QED
    BY <2>2, <2>3
<1>13. /\ items'["D2.1"] = items["D2.1"] /\ items'["D4.6"] = items["D4.6"]
       /\ items'["credentials"] = items["credentials"]
  BY <1>2, <1>3
<1>14. HeldOK' /\ (Gathered' => Gathered)
  BY <1>1, <1>2, <1>13, HeldKept
<1>15. SearchOK'
  <2>1. SUFFICES ASSUME items'["D2.3"] = d
                 PROVE  /\ Gathered /\ d.hits = 0 => \A i \in DOMAIN journal :
                             gone + i <= steady.last => journal[i].leak \notin Searched
                        /\ gone + 1 .. steady.last \subseteq d.entries
                        /\ d.oldest = None
    BY <1>1, <1>9, <1>14 DEF SearchOK, Searched, box
  <2>2. ASSUME Gathered, NEW v \in Searched PROVE v \in Sought
    <3>1. v \in steady.values /\ (v \in Short => v.place = "other")
      BY <2>2 DEF Searched
    <3>2. v.place \in Places
      BY <3>1, ValuesAre DEF Rest, SteadyOK, BoxTyped
    <3>3. Held("google") /\ Held("other") /\ Held("gateway")
      BY <1>1, <2>2 DEF Gathered, Rest, HeldOK, Collects
    <3>4. v \in known
      BY <3>1, <3>2, <3>3 DEF Held, Places
    <3>5. v.place = "other" => v \notin Short
      BY <2>2, <3>1 DEF Gathered, Rest, HeldOK
    <3>. QED
      BY <3>1, <3>4, <3>5 DEF Sought
  <2>3. d.hits = 0 => \A i \in DOMAIN journal : journal[i].leak \notin Sought
    BY NoHits DEF Rest
  <2>4. gone + 1 .. steady.last \subseteq d.entries
    BY <1>6 DEF Numbers, Rest, SteadyOK, BoxTyped
  <2>. QED
    BY <1>7, <2>2, <2>3, <2>4
<1>16. CodeOK' /\ BoxTyped' /\ SteadyOK' /\ PrintOK'
  BY <1>1, <1>2, <1>13, CodeKept, BoxStands
<1>20. ListingOK'
  <2>1. items'["D10.6"] = items["D10.6"]
    BY <1>2, <1>3 DEF Probed
  <2>. QED
    BY <1>1, <2>1, ListingKept
<1>. QED
  BY <1>20, <1>5, <1>12, <1>14, <1>15, <1>16 DEF Rest

LEMMA ReadOldestKeeps ==
    ASSUME TypeOK, Rest, ReadOldest
    PROVE  TypeOK' /\ Rest'
<1>1. Collects(5) /\ UNCHANGED <<box, steady>>
  BY CollectsIs DEF Collects
<1>2. PICK oldest \in {None, Unknown, gone + 1} :
        /\ memo' = [memo EXCEPT !["oldest"] = oldest] /\ known' = known
        /\ items' = [items EXCEPT !["D2.3"] =
             IF items["D2.3"] \in {None, Unknown} THEN items["D2.3"]
             ELSE [items["D2.3"] EXCEPT !.oldest = oldest]]
  BY DEF ReadOldest, Note
<1>3. DOMAIN items = Probed /\ "D2.3" \in Probed
  BY DEF Rest, ItemsTyped, Probed
<1>4. Writes(5, "D2.3")
  BY <1>2, <1>3 DEF Writes, Adds
<1>5. \A x \in DOMAIN memo : x # "oldest" => memo'[x] = memo[x]
  BY <1>2
<1>6. MemoTyped' /\ SameLists /\ JobsOK'
  <2>1. MemoTyped'
    BY <1>1, <1>2, <1>5 DEF Rest, MemoTyped, Collects
  <2>2. SameLists
    BY <1>5 DEF Rest, MemoTyped, SameLists
  <2>. QED
    BY <1>1, <2>1, <2>2 DEF Rest, JobsOK, SameLists
<1>7. Measured("D2.3") = [hits : Nat, entries : SUBSET Nat, oldest : {None, Unknown} \cup Nat]
  BY DEF Measured, JobItems
<1>8. items["D2.3"] # None
  <2>1. Steps[4] = "D2.3" /\ 4 \in 1 .. step - 1
    BY <1>1, StepsAre DEF Collects
  <2>. QED
    BY <2>1 DEF TypeOK, Probed
<1>9. items["D2.3"] \in {Unknown} \cup Measured("D2.3")
  BY <1>3, <1>8 DEF Rest, ItemsTyped, ItemIs, JobItems
<1>10. gone \in Nat /\ oldest \in {None, Unknown} \cup Nat
  BY <1>2 DEF Rest, BoxTyped
<1>11. \/ items["D2.3"] = Unknown /\ items'["D2.3"] = Unknown
       \/ /\ items["D2.3"] \in Measured("D2.3") /\ items'["D2.3"] \in Measured("D2.3")
          /\ items'["D2.3"].hits = items["D2.3"].hits
          /\ items'["D2.3"].entries = items["D2.3"].entries
          /\ items'["D2.3"].oldest = oldest
  <2>1. CASE items["D2.3"] = Unknown
    BY <1>2, <1>3, <2>1
  <2>2. CASE items["D2.3"] \in Measured("D2.3")
    <3>1. items["D2.3"] \notin {None, Unknown}
      BY <1>3, <2>2, MeasuredIsSomething
    <3>2. items'["D2.3"] = [items["D2.3"] EXCEPT !.oldest = oldest]
      BY <1>2, <1>3, <3>1
    <3>3. items["D2.3"] \in [hits : Nat, entries : SUBSET Nat, oldest : {None, Unknown} \cup Nat]
      BY <1>7, <2>2
    <3>4. /\ items'["D2.3"].hits = items["D2.3"].hits
          /\ items'["D2.3"].entries = items["D2.3"].entries
          /\ items'["D2.3"].oldest = oldest
      BY <3>2, <3>3
    <3>5. items'["D2.3"] \in [hits : Nat, entries : SUBSET Nat, oldest : {None, Unknown} \cup Nat]
      BY <1>10, <3>2, <3>3
    <3>. QED
      BY <1>7, <2>2, <3>4, <3>5
  <2>. QED
    BY <1>9, <2>1, <2>2
<1>12. items'["D2.3"] # None
  BY <1>3, <1>11, MeasuredIsSomething, NoneAssumption
<1>13. ItemIs("D2.3")'
  BY <1>11 DEF ItemIs, JobItems
<1>14. TypeOK' /\ ItemsTyped'
  BY <1>1, <1>2, <1>3, <1>4, <1>6, <1>12, <1>13, Due, Written DEF TypeOK
<1>15. /\ items'["D2.1"] = items["D2.1"] /\ items'["D4.6"] = items["D4.6"]
       /\ items'["credentials"] = items["credentials"]
  BY <1>2, <1>3
<1>16. HeldOK' /\ (Gathered' => Gathered)
  BY <1>1, <1>2, <1>6, <1>15, HeldKept DEF SameLists
<1>17. SearchOK'
  <2>1. CASE items'["D2.3"] = Unknown
    BY <2>1 DEF SearchOK
  <2>2. CASE items["D2.3"] \in Measured("D2.3") /\ items'["D2.3"].oldest = oldest
    <3>1. items["D2.3"] \notin {None, Unknown}
      BY <1>3, <2>2, MeasuredIsSomething
    <3>2. oldest \notin {None, Unknown} => oldest = gone + 1
      BY <1>2
    <3>. QED
      BY <1>1, <1>11, <1>16, <2>2, <3>1, <3>2 DEF SearchOK, Searched, Rest, box
  <2>. QED
    BY <1>11, <2>1, <2>2
<1>18. CodeOK' /\ BoxTyped' /\ SteadyOK' /\ PrintOK'
  BY <1>1, <1>6, <1>15, CodeKept, BoxStands DEF SameLists
<1>20. ListingOK'
  <2>1. items'["D10.6"] = items["D10.6"]
    BY <1>2, <1>3 DEF Probed
  <2>. QED
    BY <1>1, <2>1, ListingKept
<1>. QED
  BY <1>20, <1>6, <1>14, <1>16, <1>17, <1>18 DEF Rest

\* Asked once: the list that is kept, or the one that is read now.
LEMMA OnceTyped ==
    ASSUME Rest
    PROVE  /\ Once("declared", Declared) \in {Unknown} \cup SUBSET Jobs
           /\ Once("declared", Declared) # None
<1>1. memo["declared"] \in {None, Unknown} \/ memo["declared"] \in SUBSET Jobs
  BY DEF Rest, MemoTyped
<1>2. Declared \in {Unknown} \cup SUBSET Jobs
  BY DEF Declared
<1>3. Once("declared", Declared) \in {Unknown} \cup SUBSET Jobs
  BY <1>1, <1>2 DEF Once
<1>. QED
  BY <1>3, NoneAssumption

LEMMA JournalReachKeeps ==
    ASSUME TypeOK, Rest, JournalReach
    PROVE  TypeOK' /\ Rest'
<1>1. Collects(6) /\ UNCHANGED <<box, steady>>
  BY CollectsIs DEF Collects
<1>2. PICK list \in {Unknown} \cup SUBSET Jobs :
         memo' = [memo EXCEPT !["declared"] = list] /\ list # None
  BY OnceTyped DEF JournalReach
<1>3. PICK a \in {"measured", Unknown} : items' = [items EXCEPT !["D2.4"] = [apps |-> a]]
  BY DEF JournalReach, Note
<1>4. DOMAIN items = Probed /\ "D2.4" \in Probed
  BY DEF Rest, ItemsTyped, Probed
<1>5. known' = known
  BY DEF JournalReach
<1>6. Writes(6, "D2.4")
  BY <1>3, <1>4, StepsAre DEF Writes, Adds
<1>7. /\ DOMAIN memo' = DOMAIN memo /\ memo'["declared"] = list
      /\ \A x \in DOMAIN memo : x # "declared" => memo'[x] = memo[x]
  BY <1>2 DEF Rest, MemoTyped
<1>8. DOMAIN memo = {"declared", "installed", "disk", "sweep", "gateway", "oldest", "starts"}
  BY DEF Rest, MemoTyped
<1>9. MemoTyped'
  BY <1>1, <1>2, <1>7, <1>8 DEF Rest, MemoTyped, Collects
<1>10. JobsOK'
  BY <1>1, <1>7, <1>8 DEF Rest, JobsOK
<1>11. items'["D2.4"] = [apps |-> a]
  BY <1>3, <1>4
<1>12. items'["D2.4"] \in Measured("D2.4")
  BY <1>11 DEF Measured, JobItems
<1>13. items'["D2.4"] # None
  BY <1>4, <1>12, MeasuredIsSomething
<1>14. TypeOK'
  BY <1>1, <1>5, <1>6, <1>13, Due DEF TypeOK
<1>15. /\ items["D4.1"] = None /\ items["D4.6"] = None
       /\ items["D10.3"] = None /\ items["D10.7"] = None /\ items["D10.8"] = None
  BY <1>1, NotYet DEF Rest, Collects
<1>16. ItemsTyped'
  <2>1. ASSUME NEW x \in Probed PROVE ItemIs(x)'
    <3>1. CASE x = "D2.4"
      BY <1>12, <3>1 DEF ItemIs, JobItems
    <3>2. CASE x # "D2.4"
      <4>1. ItemIs(x) /\ items'[x] = items[x]
        BY <1>3, <1>4, <3>2 DEF Rest, ItemsTyped
      <4>. QED
        BY <1>15, <4>1 DEF ItemIs, JobItems
    <3>. QED
      BY <3>1, <3>2
  <2>2. \A m \in step' .. Len(Steps) :
           Steps[m] \in Probed \ {"credentials"} => items'[Steps[m]] = None
    BY <1>1, <1>6, NotDue, StepsAre DEF Rest, Collects
  <2>. QED
    BY <1>6, <2>1, <2>2 DEF ItemsTyped, Writes, Adds
<1>17. /\ items'["D2.1"] = items["D2.1"] /\ items'["D2.3"] = items["D2.3"]
       /\ items'["D4.6"] = items["D4.6"] /\ items'["D10.6"] = items["D10.6"]
       /\ items'["credentials"] = items["credentials"]
  BY <1>3, <1>4 DEF Probed
<1>18. HeldOK' /\ (Gathered' => Gathered)
  BY <1>1, <1>5, <1>7, <1>8, <1>17, HeldKept
<1>19. SearchOK' /\ CodeOK' /\ ListingOK' /\ BoxTyped' /\ SteadyOK' /\ PrintOK'
  BY <1>1, <1>7, <1>8, <1>17, <1>18, SearchKept, CodeKept, ListingKept, BoxStands
<1>. QED
  BY <1>9, <1>10, <1>14, <1>16, <1>18, <1>19 DEF Rest
-----------------------------------------------------------------------------
(***************************************************************************)
(* The running code.                                                       *)
(***************************************************************************)
LEMMA ReadStartsKeeps ==
    ASSUME TypeOK, Rest, ReadStarts
    PROVE  TypeOK' /\ Rest'
<1>1. Collects(8) /\ UNCHANGED <<box, steady>>
  BY CollectsIs DEF Collects
<1>. DEFINE declared == Once("declared", Declared)
            Starts(units, lost) ==
              [s \in {"hermes-broker"} \cup Names(declared) \cup Names(units) |->
                 IF s = lost \/ (s \in Jobs /\ ~job[s].loaded) THEN Unknown ELSE started[s]]
<1>2. PICK lost \in {None, "units"} \cup Services :
         LET units == Once("installed", IF lost = "units" THEN Unknown ELSE Installed) IN
           memo' = [memo EXCEPT !["declared"] = declared, !["installed"] = units,
                                !["starts"] = Starts(units, lost)]
  <2>1. PICK lost \in IF Answered THEN {None} ELSE {"units"} \cup Services :
          LET units == Once("installed", IF lost = "units" THEN Unknown ELSE Installed) IN
            memo' = [memo EXCEPT !["declared"] = declared, !["installed"] = units,
                                 !["starts"] = Starts(units, lost)]
    BY DEF ReadStarts
  <2>2. lost \in {None, "units"} \cup Services
    BY <2>1
  <2>. QED
    BY <2>1, <2>2
<1>3. items' = items /\ known' = known
  BY DEF ReadStarts
<1>4. PICK units \in {Unknown} \cup SUBSET Jobs :
         /\ units = Once("installed", IF lost = "units" THEN Unknown ELSE Installed)
         /\ units # Unknown => steady.jobs \subseteq units
  BY DEF Rest, MemoTyped, JobsOK, SteadyOK, Once, Installed
<1>5. declared \in {Unknown} \cup SUBSET Jobs /\ declared # None
  BY OnceTyped
<1>6. memo' = [memo EXCEPT !["declared"] = declared, !["installed"] = units,
                           !["starts"] = Starts(units, lost)]
  BY <1>2, <1>4
<1>7. /\ DOMAIN memo' = DOMAIN memo
      /\ memo'["declared"] = declared /\ memo'["installed"] = units
      /\ memo'["starts"] = Starts(units, lost)
      /\ \A x \in {"disk", "sweep", "gateway", "oldest"} : memo'[x] = memo[x]
  BY <1>6 DEF Rest, MemoTyped
<1>8. /\ DOMAIN Starts(units, lost) \subseteq Services
      /\ Starts(units, lost) \in [DOMAIN Starts(units, lost) -> {Unknown} \cup Nat]
      /\ \A s \in DOMAIN Starts(units, lost) :
           Starts(units, lost)[s] # Unknown => Starts(units, lost)[s] <= started[s]
  <2>1. \A s \in Services : started[s] \in Nat
    BY DEF Rest, BoxTyped
  <2>2. DOMAIN Starts(units, lost) \subseteq Services
    BY <1>4, <1>5 DEF Services, Names
  <2>3. \A s \in DOMAIN Starts(units, lost) : Starts(units, lost)[s] \in {Unknown, started[s]}
    OBVIOUS
  <2>. HIDE DEF Starts, declared
  <2>4. Starts(units, lost) \in [DOMAIN Starts(units, lost) -> {Unknown} \cup Nat]
    <3>1. Starts(units, lost) = [s \in DOMAIN Starts(units, lost) |-> Starts(units, lost)[s]]
      BY DEF Starts
    <3>. QED
      BY <2>1, <2>2, <2>3, <3>1
  <2>. QED
    BY <2>1, <2>2, <2>3, <2>4
<1>. HIDE DEF Starts, declared
<1>9. declared # None /\ units # None
  BY <1>4, <1>5, NoneAssumption
<1>10. MemoTyped'
  BY <1>1, <1>4, <1>5, <1>7, <1>8, <1>9 DEF Rest, MemoTyped, Collects
<1>11. JobsOK'
  BY <1>1, <1>4, <1>7 DEF JobsOK
<1>12. DOMAIN items = Probed /\ "credentials" \in Probed
  BY DEF Rest, ItemsTyped, Probed
<1>13. Writes(8, "credentials")
  BY <1>3, <1>12 DEF Writes, Adds
<1>14. TypeOK'
  BY <1>1, <1>3, <1>13, Due DEF TypeOK
<1>15. /\ items["D4.6"] = None
       /\ items["D10.3"] = None /\ items["D10.7"] = None /\ items["D10.8"] = None
  BY <1>1, NotYet DEF Rest, Collects
<1>16. ItemsTyped'
  <2>1. ASSUME NEW x \in Probed PROVE ItemIs(x)'
    <3>1. ItemIs(x) /\ items'[x] = items[x]
      BY <1>3 DEF Rest, ItemsTyped
    <3>. QED
      BY <1>7, <1>15, <3>1 DEF ItemIs, JobItems
  <2>2. \A m \in step' .. Len(Steps) :
           Steps[m] \in Probed \ {"credentials"} => items'[Steps[m]] = None
    BY <1>1, <1>13, NotDue, StepsAre DEF Rest, Collects
  <2>. QED
    BY <1>3, <1>12, <2>1, <2>2 DEF ItemsTyped
<1>17. HeldOK' /\ (Gathered' => Gathered)
  BY <1>1, <1>3, <1>7, HeldKept
<1>18. CodeOK'
  BY <1>1, <1>3, <1>7, <1>8, <1>15 DEF CodeOK, box
<1>19. SearchOK' /\ BoxTyped' /\ SteadyOK' /\ PrintOK'
  BY <1>1, <1>3, <1>17, SearchKept, BoxStands
<1>20. ListingOK'
  <2>1. items'["D10.6"] = items["D10.6"]
    BY <1>3 DEF Probed
  <2>. QED
    BY <1>1, <2>1, ListingKept
<1>. QED
  BY <1>20, <1>10, <1>11, <1>14, <1>16, <1>17, <1>18, <1>19 DEF Rest

LEMMA CodeItemKeeps ==
    ASSUME TypeOK, Rest, CodeItem
    PROVE  TypeOK' /\ Rest'
<1>1. Collects(9) /\ UNCHANGED <<box, steady>> /\ step = 9
  BY CollectsIs DEF Collects
<1>. DEFINE newer == [s \in DOMAIN memo["starts"] |-> NewerThan(memo["starts"][s])]
            d == [declared |-> memo["declared"], installed |-> memo["installed"],
                  starts |-> memo["starts"], newer |-> newer]
<1>2. memo' = memo /\ known' = known /\ items' = [items EXCEPT !["D4.6"] = d]
  BY DEF CodeItem, Note
<1>3. DOMAIN items = Probed /\ "D4.6" \in Probed
  BY DEF Rest, ItemsTyped, Probed
<1>4. Writes(9, "D4.6")
  BY <1>2, <1>3, StepsAre DEF Writes, Adds
<1>5. MemoTyped' /\ SameLists /\ JobsOK'
  BY <1>1, <1>2, MemoKept
<1>6. newer \in [DOMAIN memo["starts"] -> {Unknown} \cup SUBSET LoadedFiles]
  <2>1. \A s \in DOMAIN memo["starts"] :
           NewerThan(memo["starts"][s]) \in {Unknown} \cup SUBSET LoadedFiles
    BY DEF NewerThan
  <2>. QED
    BY <2>1
<1>7. \A s \in (steady.stale \ steady.same) \cap DOMAIN memo["starts"] : newer[s] # {}
  <2>1. SUFFICES ASSUME NEW s \in steady.stale \ steady.same, s \in DOMAIN memo["starts"],
                        memo["starts"][s] # Unknown
                 PROVE  {f \in LoadedFiles : changed[f] > memo["starts"][s]} # {}
    BY NoneAssumption DEF NewerThan
  <2>2. PICK f \in LoadedFiles : changed[f] > started[s]
    BY <2>1 DEF Rest, SteadyOK
  <2>3. memo["starts"][s] <= started[s]
    BY <1>1, <2>1 DEF Rest, CodeOK
  <2>4. changed[f] \in Nat /\ started[s] \in Nat /\ memo["starts"][s] \in Nat
    BY <1>1, <2>1 DEF Rest, BoxTyped, MemoTyped
  <2>. QED
    BY <2>2, <2>3, <2>4
<1>8. items'["D4.6"] = d /\ d.newer = newer
  BY <1>2, <1>3
<1>9. d \in Measured("D4.6")
  <2>1. memo["declared"] \in Lists /\ memo["installed"] \in Lists
    BY <1>1 DEF Rest, MemoTyped, Lists
  <2>2. /\ DOMAIN memo["starts"] \in SUBSET Services
        /\ memo["starts"] \in [DOMAIN memo["starts"] -> {Unknown} \cup Nat]
    BY <1>1 DEF Rest, MemoTyped
  <2>3. memo["starts"] \in Tables(Services, {Unknown} \cup Nat)
    BY <2>2 DEF Tables
  <2>4. newer \in Tables(Services, {Unknown} \cup SUBSET LoadedFiles)
    BY <1>6, <2>2 DEF Tables
  <2>5. Measured("D4.6") = [declared : Lists, installed : Lists,
                            starts : Tables(Services, {Unknown} \cup Nat),
                            newer : Tables(Services, {Unknown} \cup SUBSET LoadedFiles)]
    BY DEF Measured, JobItems
  <2>. HIDE DEF newer
  <2>. QED
    BY <2>1, <2>3, <2>4, <2>5
<1>10. items'["D4.6"] # None
  BY <1>3, <1>8, <1>9, MeasuredIsSomething
<1>. HIDE DEF newer
<1>11. ItemIs("D4.6")'
  <2>1. items'["D4.6"] = [declared |-> memo["declared"], installed |-> memo["installed"],
                          starts |-> memo["starts"], newer |-> items'["D4.6"].newer]
    BY <1>8
  <2>2. items'["D4.6"].newer \in [DOMAIN memo["starts"] -> {Unknown} \cup SUBSET LoadedFiles]
    BY <1>6, <1>8
  <2>. QED
    BY <1>2, <2>1, <2>2 DEF ItemIs, CodeTyped, JobItems
<1>12. TypeOK' /\ ItemsTyped'
  <2>1. TypeOK'
    BY <1>1, <1>2, <1>3, <1>4, <1>10, Due DEF TypeOK
  <2>2. ItemsTyped'
    BY <1>1, <1>3, <1>4, <1>5, <1>11, Written
  <2>. QED
    BY <2>1, <2>2
<1>13. /\ items'["D2.1"] = items["D2.1"] /\ items'["D2.3"] = items["D2.3"]
       /\ items'["credentials"] = items["credentials"]
  BY <1>2, <1>3
<1>14. HeldOK' /\ (Gathered' => Gathered)
  BY <1>1, <1>2, <1>13, HeldKept
<1>15. CodeOK'
  <2>1. \A s \in (steady'.stale \ steady'.same) \cap DOMAIN memo'["starts"] : items'["D4.6"].newer[s] # {}
    BY <1>1, <1>2, <1>7, <1>8
  <2>2. \A s \in DOMAIN memo["starts"] : memo["starts"][s] # Unknown => memo["starts"][s] <= started[s]
    BY <1>1 DEF Rest, CodeOK
  <2>. QED
    BY <1>1, <1>2, <2>1, <2>2 DEF CodeOK, box
<1>16. SearchOK' /\ BoxTyped' /\ SteadyOK' /\ PrintOK'
  BY <1>1, <1>13, <1>14, SearchKept, BoxStands
<1>20. ListingOK'
  <2>1. items'["D10.6"] = items["D10.6"]
    BY <1>2, <1>3 DEF Probed
  <2>. QED
    BY <1>1, <2>1, ListingKept
<1>. QED
  BY <1>20, <1>5, <1>12, <1>14, <1>15, <1>16 DEF Rest
-----------------------------------------------------------------------------
(***************************************************************************)
(* The jobs.                                                               *)
(***************************************************************************)
\* The lists are taken once; a list that was taken stays.
LEMMA ListsAre ==
    ASSUME Rest, AskJobs, step \in 9 .. 16
    PROVE  /\ DOMAIN memo' = DOMAIN memo
           /\ \A x \in {"declared", "installed", "sweep", "gateway", "oldest", "starts"} :
                memo'[x] = memo[x]
           /\ memo'["disk"] \in {None, Unknown} \cup SUBSET Jobs
           /\ Unknown \notin {memo["declared"], memo["installed"]} => memo'["disk"] # None
           /\ memo["disk"] # None => memo'["disk"] = memo["disk"]
           /\ memo["declared"] \in {Unknown} \cup SUBSET Jobs
           /\ memo["installed"] \in {Unknown} \cup SUBSET Jobs
<1>1. /\ memo["declared"] \in {Unknown} \cup SUBSET Jobs
      /\ memo["installed"] \in {Unknown} \cup SUBSET Jobs
      /\ memo["disk"] \in {None, Unknown} \cup SUBSET Jobs
      /\ DOMAIN memo = {"declared", "installed", "disk", "sweep", "gateway", "oldest", "starts"}
  BY DEF Rest, MemoTyped
<1>. DEFINE disk == IF Unknown \in {memo["declared"], memo["installed"]} THEN memo["disk"]
                    ELSE Once("disk", OnDisk)
<1>2. memo' = [memo EXCEPT !["disk"] = disk]
  BY DEF AskJobs
<1>3. OnDisk \in {Unknown} \cup SUBSET Jobs
  BY DEF OnDisk
<1>4. /\ disk \in {None, Unknown} \cup SUBSET Jobs
      /\ memo["disk"] # None => disk = memo["disk"]
  BY <1>1, <1>3 DEF Once
<1>5. Unknown \notin {memo["declared"], memo["installed"]} => disk # None
  BY <1>1, <1>3, NoneAssumption DEF Once
<1>. HIDE DEF disk
<1>6. /\ memo'["disk"] = disk /\ DOMAIN memo' = DOMAIN memo
      /\ \A x \in {"declared", "installed", "sweep", "gateway", "oldest", "starts"} :
           memo'[x] = memo[x]
  BY <1>1, <1>2
<1>. QED
  BY <1>1, <1>4, <1>5, <1>6

\* The jobs that the lists name are jobs.
LEMMA HeardAre ==
    ASSUME Rest, AskJobs, step \in 9 .. 16, Unknown \notin JobSets
    PROVE  /\ {memo["declared"], memo["installed"], memo'["disk"]} \subseteq SUBSET Jobs
           /\ Heard' \subseteq Jobs /\ Heard' = UNION JobSets
<1>1. /\ {memo["declared"], memo["installed"], memo'["disk"]} \subseteq SUBSET Jobs
      /\ memo'["declared"] = memo["declared"] /\ memo'["installed"] = memo["installed"]
  BY ListsAre DEF JobSets
<1>. QED
  BY <1>1 DEF Heard, JobSets

\* What an item says of each job.
Apps(s) == [Heard' -> OfJob(s)]

\* An item of the jobs speaks of the lists, or is could-not-check.
LEMMA JobItemKeeps ==
    ASSUME TypeOK, Rest, NEW k \in {10, 12, 13}, Collects(k), NEW s \in JobItems, s = Steps[k],
           AskJobs, known' = known,
           \/ items' = [items EXCEPT ![s] = Unknown]
           \/ /\ Unknown \notin JobSets
              /\ \E a \in Apps(s) :
                   /\ \A j \in Heard' : a[j].installed = (j \in memo["installed"])
                   /\ items' = [items EXCEPT ![s] =
                        [declared |-> memo["declared"], installed |-> memo["installed"],
                         disk |-> memo'["disk"], apps |-> a]]
    PROVE  TypeOK' /\ Rest'
<1>1. step \in 9 .. 16 /\ k \in 1 .. 15 /\ UNCHANGED <<box, steady>> /\ step' > 8
  BY DEF Collects
<1>2. /\ DOMAIN memo' = DOMAIN memo
      /\ \A x \in {"declared", "installed", "sweep", "gateway", "oldest", "starts"} :
           memo'[x] = memo[x]
      /\ memo'["disk"] \in {None, Unknown} \cup SUBSET Jobs
      /\ memo["disk"] # None => memo'["disk"] = memo["disk"]
      /\ memo["declared"] \in {Unknown} \cup SUBSET Jobs
      /\ memo["installed"] \in {Unknown} \cup SUBSET Jobs
  BY <1>1, ListsAre
<1>3. DOMAIN items = Probed /\ s \in Probed
  BY DEF Rest, ItemsTyped, Probed, JobItems
<1>4. Writes(k, s)
  BY <1>3 DEF Writes, Adds
<1>5. MemoTyped'
  BY <1>1, <1>2 DEF Rest, MemoTyped, Collects
<1>6. JobsOK'
  BY <1>1, <1>2 DEF Rest, JobsOK
<1>7. items'[s] = Unknown \/ JobTyped(s, items[s])'
  <2>1. CASE items' = [items EXCEPT ![s] = Unknown]
    BY <1>3, <2>1
  <2>2. ASSUME Unknown \notin JobSets, NEW a \in Apps(s),
               \A j \in Heard' : a[j].installed = (j \in memo["installed"]),
               items' = [items EXCEPT ![s] =
                    [declared |-> memo["declared"], installed |-> memo["installed"],
                     disk |-> memo'["disk"], apps |-> a]]
        PROVE  JobTyped(s, items[s])'
    <3>1. items'[s] = [declared |-> memo'["declared"], installed |-> memo'["installed"],
                       disk |-> memo'["disk"], apps |-> a]
      BY <1>2, <1>3, <2>2
    <3>2. {memo'["declared"], memo'["installed"], memo'["disk"]} \subseteq SUBSET Jobs
      BY <1>1, <1>2, <2>2, HeardAre
    <3>. QED
      BY <1>2, <2>2, <3>1, <3>2 DEF JobTyped, Apps
  <2>. QED
    BY <2>1, <2>2
<1>8. JobTyped(s, items[s])' => items'[s] \in Measured(s)
  <2>1. SUFFICES ASSUME JobTyped(s, items[s])'
                 PROVE  items'[s] \in Measured(s)
    OBVIOUS
  <2>2. Measured(s) = [declared : Lists, installed : Lists, disk : Lists,
                       apps : Tables(Jobs, OfJob(s))]
    BY DEF Measured, JobItems
  <2>3. /\ items'[s] = [declared |-> memo'["declared"], installed |-> memo'["installed"],
                        disk |-> memo'["disk"], apps |-> items'[s].apps]
        /\ {memo'["declared"], memo'["installed"], memo'["disk"]} \subseteq SUBSET Jobs
        /\ items'[s].apps \in [Heard' -> OfJob(s)]
    BY <2>1 DEF JobTyped
  <2>4. Heard' \in SUBSET Jobs
    BY <2>3 DEF Heard
  <2>5. items'[s].apps \in Tables(Jobs, OfJob(s))
    BY <2>3, <2>4 DEF Tables
  <2>. QED
    BY <2>2, <2>3, <2>5 DEF Lists
<1>9. items'[s] # None
  BY <1>3, <1>7, <1>8, MeasuredIsSomething, NoneAssumption
<1>10. TypeOK'
  BY <1>1, <1>4, <1>9, Due DEF TypeOK
<1>11. ItemsTyped'
  <2>1. ASSUME NEW x \in Probed PROVE ItemIs(x)'
    <3>1. CASE x = s
      BY <1>7, <3>1 DEF ItemIs, JobItems
    <3>2. CASE x # s
      <4>1. ItemIs(x) /\ items'[x] = items[x]
        BY <1>4, <3>2 DEF Rest, ItemsTyped, Writes, Adds
      <4>2. x \in JobItems /\ JobTyped(x, items[x]) => JobTyped(x, items[x])'
        <5>1. SUFFICES ASSUME x \in JobItems, JobTyped(x, items[x])
                       PROVE  JobTyped(x, items[x])'
          OBVIOUS
        <5>2. memo["disk"] \in SUBSET Jobs
          <6>. DEFINE e == items[x]
          <6>1. /\ e = [declared |-> memo["declared"], installed |-> memo["installed"],
                        disk |-> memo["disk"], apps |-> e.apps]
                /\ e.disk \in SUBSET Jobs
            BY <5>1 DEF JobTyped
          <6>. HIDE DEF e
          <6>. QED
            BY <6>1
        <5>3. memo["disk"] # None
          BY <5>2, NoneAssumption
        <5>4. Heard' = Heard /\ memo'["disk"] = memo["disk"]
          BY <1>2, <5>3 DEF Heard
        <5>. QED
          BY <1>2, <4>1, <5>1, <5>4 DEF JobTyped
      <4>. QED
        BY <1>2, <4>1, <4>2 DEF ItemIs, CodeTyped, JobItems
    <3>. QED
      BY <3>1, <3>2
  <2>2. \A m \in step' .. Len(Steps) :
           Steps[m] \in Probed \ {"credentials"} => items'[Steps[m]] = None
    BY <1>1, <1>4, NotDue, StepsAre DEF Rest, Collects
  <2>. QED
    BY <1>4, <2>1, <2>2 DEF ItemsTyped, Writes, Adds
<1>12. /\ items'["D2.1"] = items["D2.1"] /\ items'["D2.3"] = items["D2.3"]
       /\ items'["D4.6"] = items["D4.6"] /\ items'["credentials"] = items["credentials"]
  BY <1>4 DEF Writes, Adds, Probed, JobItems
<1>13. HeldOK' /\ (Gathered' => Gathered)
  BY <1>1, <1>2, <1>12, HeldKept
<1>14. SearchOK' /\ CodeOK' /\ BoxTyped' /\ SteadyOK' /\ PrintOK'
  BY <1>1, <1>2, <1>12, <1>13, SearchKept, CodeKept, BoxStands
<1>15. ListingOK'
  <2>1. /\ s # "D10.6" /\ "D10.6" \in Probed
    BY DEF Probed, JobItems
  <2>2. items'["D10.6"] = items["D10.6"]
    BY <1>4, <2>1 DEF Writes, Adds
  <2>. QED
    BY <1>1, <1>12, <2>2, ListingKept
<1>. QED
  BY <1>5, <1>6, <1>10, <1>11, <1>13, <1>14, <1>15 DEF Rest

\* Whatever is measured of each job.
LEMMA AnyJobItemKeeps ==
    ASSUME TypeOK, Rest, NEW k \in {10, 12, 13}, Collects(k), NEW s \in JobItems, s = Steps[k],
           NEW measure, NEW whole, JobItem(s, measure, whole),
           \A j \in Jobs : measure[j] \in IF s = "D10.7" THEN Nat ELSE BOOLEAN
    PROVE  TypeOK' /\ Rest'
<1>1. step \in 9 .. 16
  BY DEF Collects
<1>2. PICK lost : /\ AskJobs /\ known' = known
                  /\ items' = [items EXCEPT ![s] =
                       IF Unknown \in JobSets \/ lost = "item" THEN Unknown
                       ELSE [declared |-> memo["declared"], installed |-> memo["installed"],
                             disk |-> memo'["disk"], apps |-> PerJob(measure, whole \ {lost})]]
  BY DEF JobItem, Note
<1>. DEFINE a == PerJob(measure, whole \ {lost})
<1>3. ASSUME Unknown \notin JobSets
      PROVE  a \in Apps(s) /\ \A j \in Heard' : a[j].installed = (j \in memo["installed"])
  <2>1. Heard' \subseteq Jobs /\ Heard' = UNION JobSets
    BY <1>1, <1>2, <1>3, HeardAre
  <2>2. OfJob(s) = [value : IF s = "D10.7" THEN Nat ELSE BOOLEAN, whole : BOOLEAN,
                    declared : BOOLEAN, installed : BOOLEAN]
    BY DEF OfJob
  <2>3. a = [j \in Heard' |->
               [value |-> measure[j], whole |-> j \in whole \ {lost},
                declared |-> j \in memo["declared"], installed |-> j \in memo["installed"]]]
    BY <2>1 DEF PerJob
  <2>. HIDE DEF a
  <2>4. \A j \in Heard' : measure[j] \in IF s = "D10.7" THEN Nat ELSE BOOLEAN
    BY <2>1
  <2>5. \A j \in Heard' :
          [value |-> measure[j], whole |-> j \in whole \ {lost},
           declared |-> j \in memo["declared"], installed |-> j \in memo["installed"]] \in OfJob(s)
    BY <2>2, <2>4
  <2>6. \A j \in Heard' : a[j].installed = (j \in memo["installed"])
    BY <2>3
  <2>. QED
    BY <2>3, <2>5, <2>6 DEF Apps
<1>. HIDE DEF a
<1>4. \/ items' = [items EXCEPT ![s] = Unknown]
      \/ /\ Unknown \notin JobSets
         /\ items' = [items EXCEPT ![s] =
              [declared |-> memo["declared"], installed |-> memo["installed"],
               disk |-> memo'["disk"], apps |-> a]]
  BY <1>2 DEF a
<1>. QED
  BY <1>2, <1>3, <1>4, JobItemKeeps

LEMMA JobUnitsKeeps ==
    ASSUME TypeOK, Rest, JobUnits
    PROVE  TypeOK' /\ Rest'
<1>1. PICK unit : unit = [j \in Jobs |-> TRUE]
  OBVIOUS
<1>2. JobItem("D10.3", unit, Jobs)
  BY <1>1 DEF JobUnits, JobItem
<1>3. \A j \in Jobs : unit[j] \in BOOLEAN
  BY <1>1
<1>4. "D10.3" \in JobItems /\ Steps[10] = "D10.3" /\ Collects(10)
  BY StepsAre, CollectsIs DEF JobItems
<1>. QED
  BY <1>2, <1>3, <1>4, AnyJobItemKeeps

LEMMA JobJournalsKeeps ==
    ASSUME TypeOK, Rest, JobJournals
    PROVE  TypeOK' /\ Rest'
<1>1. PICK hits : hits = [j \in Jobs |-> Hits({j})]
  OBVIOUS
<1>2. JobItem("D10.7", hits, Jobs)
  BY <1>1 DEF JobJournals, JobItem
<1>3. \A j \in Jobs : hits[j] \in Nat
  BY <1>1, NoHits DEF Rest
<1>4. "D10.7" \in JobItems /\ Steps[12] = "D10.7" /\ Collects(12)
  BY StepsAre, CollectsIs DEF JobItems
<1>. QED
  BY <1>2, <1>3, <1>4, AnyJobItemKeeps

LEMMA JobResultsKeeps ==
    ASSUME TypeOK, Rest, JobResults
    PROVE  TypeOK' /\ Rest'
<1>1. PICK ran, whole : /\ ran = [j \in Jobs |-> job[j].ran]
                        /\ whole = {j \in Names(memo["declared"]) : job[j].disk}
  OBVIOUS
<1>2. JobItem("D10.8", ran, whole)
  BY <1>1 DEF JobResults, JobItem
<1>3. \A j \in Jobs : ran[j] \in BOOLEAN
  BY <1>1 DEF Rest, BoxTyped
<1>4. "D10.8" \in JobItems /\ Steps[13] = "D10.8" /\ Collects(13)
  BY StepsAre, CollectsIs DEF JobItems
<1>. QED
  BY <1>2, <1>3, <1>4, AnyJobItemKeeps
-----------------------------------------------------------------------------
(***************************************************************************)
(* The theorems.                                                           *)
(***************************************************************************)
\* The bundle is printed without a known value, or not at all.
LEMMA PrintKeeps ==
    ASSUME TypeOK, Rest, PrintBundle
    PROVE  TypeOK' /\ Rest'
<1>1. step = 16 /\ out = None /\ At("print")
  BY CollectsIs DEF PrintBundle
<1>2. /\ UNCHANGED <<box, step, child, known, memo, items, steady, events>>
      /\ out' = IF HoldsSecret(Listing) \/ HoldsSecret(Redacted(Listing)) THEN "refused" ELSE "printed"
  BY DEF PrintBundle
<1>3. child = "none"
  <2>1. \A s \in Commands : ~At(s)
    BY <1>1, StepsAre DEF At, Commands
  <2>. QED
    BY <2>1 DEF TypeOK
<1>4. TypeOK'
  BY <1>2, <1>3 DEF TypeOK
<1>5. /\ BoxTyped' /\ MemoTyped' /\ ItemsTyped' /\ SteadyOK' /\ HeldOK'
      /\ SearchOK' /\ CodeOK' /\ JobsOK' /\ ListingOK' /\ Listing' = Listing /\ Sought' = Sought
  BY <1>2, StillKeeps
<1>6. PrintOK'
  <2>1. /\ HoldsSecret(Listing)' = HoldsSecret(Listing)
        /\ HoldsSecret(Redacted(Listing))' = HoldsSecret(Redacted(Listing))
    BY <1>5 DEF HoldsSecret, Redacted
  <2>. QED
    BY <1>1, <1>2, <2>1, StepsAre DEF PrintOK
<1>. QED
  BY <1>4, <1>5, <1>6 DEF Rest

LEMMA InitReview == Init => ReviewInv
<1>. SUFFICES ASSUME Init PROVE ReviewInv
  OBVIOUS
<1>1. /\ version \in [Places -> 1 .. 2] /\ readable \in [Readables -> BOOLEAN]
      /\ journal \in Seq(EntrySet) /\ gone = 0 /\ now \in Nat /\ step = 1 /\ child = "none"
      /\ known = {} /\ out = None
      /\ started \in [Services -> 0 .. now] /\ changed \in [LoadedFiles -> 0 .. now]
      /\ behind \in [Services -> SUBSET LoadedFiles]
      /\ memo = [k \in {"declared", "installed", "disk", "sweep", "gateway", "oldest", "starts"} |-> None]
      /\ items = [i \in Probed |-> None]
      /\ steady = [values |-> {Value(p) : p \in Places}, jobs |-> Installed,
                   stale |-> {s \in Services : Stale(s)}, same |-> {s \in Services : SameSecond(s)},
                   last |-> Len(journal)]
  BY DEF Init, EntrySet
<1>2. /\ \A s \in Services : started[s] \in Nat /\ started[s] <= now
      /\ \A f \in LoadedFiles : changed[f] \in Nat /\ changed[f] <= now
  BY <1>1
<1>3. /\ memo["declared"] = None /\ memo["installed"] = None /\ memo["disk"] = None
      /\ memo["gateway"] = None /\ memo["oldest"] = None
      /\ \A i \in Probed : items[i] = None
  BY <1>1
<1>4. Len(journal) \in Nat
  BY <1>1
<1>5. TypeOK
  BY <1>1, StepsAre DEF TypeOK
<1>6. /\ steady.values = {Value(p) : p \in Places} /\ steady.jobs = Installed
      /\ steady.stale = {s \in Services : Stale(s)} /\ steady.last = Len(journal)
      /\ steady.same = {s \in Services : SameSecond(s)}
  BY <1>1
<1>7. BoxTyped
  <2>1. job \in [Jobs -> [declared : BOOLEAN, disk : BOOLEAN, loaded : BOOLEAN, ran : BOOLEAN]]
    BY DEF Init
  <2>2. started \in [Services -> Nat] /\ changed \in [LoadedFiles -> Nat]
    BY <1>1
  <2>3. {Value(p) : p \in Places} \subseteq Secrets
    BY <1>1, ValuesAre
  <2>4. steady \in [values : SUBSET Secrets, jobs : SUBSET Jobs, stale : SUBSET Services,
                    same : SUBSET Services, last : Nat]
    BY <1>1, <1>4, <2>3 DEF Installed
  <2>. QED
    BY <1>1, <2>1, <2>2, <2>4 DEF BoxTyped, EntrySet
<1>8. MemoTyped
  BY <1>1, <1>3 DEF MemoTyped
<1>9. ItemsTyped
  <2>1. \A i \in Probed : ItemIs(i)
    BY <1>3 DEF ItemIs
  <2>2. \A k \in step .. Len(Steps) :
           Steps[k] \in Probed \ {"credentials"} => items[Steps[k]] = None
    BY <1>3
  <2>. QED
    BY <1>1, <2>1, <2>2 DEF ItemsTyped
<1>10. SteadyOK
  <2>1. ASSUME NEW s \in steady.stale \ steady.same
        PROVE  \E f \in LoadedFiles : changed[f] > started[s]
    <3>1. s \in Services /\ Stale(s) /\ ~SameSecond(s)
      BY <1>6, <2>1
    <3>2. PICK f \in behind[s] : changed[f] # started[s]
      BY <3>1 DEF SameSecond
    <3>3. f \in LoadedFiles
      BY <1>1, <3>1, <3>2
    <3>4. changed[f] >= started[s]
      BY <3>1, <3>2, <3>3 DEF Init
    <3>. QED
      BY <1>2, <3>1, <3>2, <3>3, <3>4
  <2>2. steady.last <= gone + Len(journal)
    BY <1>1, <1>4, <1>6
  <2>. QED
    BY <1>2, <1>6, <2>1, <2>2 DEF SteadyOK
<1>11. HeldOK
  BY <1>1, <1>3, NoneAssumption DEF HeldOK, Probed
<1>12. SearchOK /\ CodeOK /\ JobsOK
  BY <1>1, <1>3 DEF SearchOK, CodeOK, JobsOK, Probed
<1>13. PrintOK /\ ListingOK
  BY <1>1, <1>3, NoneAssumption DEF PrintOK, ListingOK, Probed
<1>. QED
  BY <1>5, <1>7, <1>8, <1>9, <1>10, <1>11, <1>12, <1>13 DEF ReviewInv

LEMMA NextReview == ReviewInv /\ [Next]_vars => ReviewInv'
<1>. SUFFICES ASSUME TypeOK, Rest, [Next]_vars PROVE TypeOK' /\ Rest'
  BY DEF ReviewInv, Rest
<1>1. CASE Collect
  BY <1>1, ReadOtherKeeps, ReadGatewayKeeps, SweepKeeps, SearchJournalKeeps, ReadOldestKeeps,
     JournalReachKeeps, GatewayItemKeeps, ReadStartsKeeps, CodeItemKeeps, JobUnitsKeeps, GatewayListingKeeps,
     JobJournalsKeeps, JobResultsKeeps, FingerprintKeeps, ReadAgainKeeps, PrintKeeps DEF Collect
<1>2. CASE BoxChanges
  BY <1>2, BoxKeeps
<1>3. CASE CommandFails \/ CommandHangs \/ TimesOut \/ ChildEnds \/ KillChild
  BY <1>3, CommandTyped, IdleKeeps
<1>4. CASE UNCHANGED vars
  BY <1>4, IdleKeeps DEF vars, Idle, TypeOK, At
<1>. QED
  BY <1>1, <1>2, <1>3, <1>4 DEF Next, Done

\* The invariant holds of every state of every behaviour.
THEOREM ReviewInvAlways == Spec => []ReviewInv
BY InitReview, NextReview, PTL DEF Spec

-----------------------------------------------------------------------------
(***************************************************************************)
(* What the invariant says of a printed bundle.                            *)
(***************************************************************************)
\* Every item is there.
LEMMA PrintedHasAll ==
    ASSUME ReviewInv, out # None
    PROVE  step = 16 /\ \A i \in Probed \ {"credentials"} : items[i] # None
<1>1. step = 16
  BY StepsAre DEF ReviewInv, PrintOK
<1>2. \A k \in 1 .. 15 : Steps[k] \in Probed \ {"credentials"} => items[Steps[k]] # None
  BY <1>1, SMTT(20) DEF ReviewInv, TypeOK
<1>3. \A i \in Probed \ {"credentials"} : \E k \in 1 .. 15 : Steps[k] = i
  BY StepsAre DEF Probed
<1>. QED
  BY <1>1, <1>2, <1>3

\* The item of the running code has the lists of jobs that are kept.
LEMMA PrintedCode ==
    ASSUME ReviewInv, out = "printed"
    PROVE  /\ items["D4.6"].installed = memo["installed"] /\ memo["installed"] # None
           /\ items["D4.6"].newer \in [DOMAIN memo["starts"] -> {Unknown} \cup SUBSET LoadedFiles]
           /\ \A s \in (steady.stale \ steady.same) \cap DOMAIN memo["starts"] :
                items["D4.6"].newer[s] # {}
           /\ items["D4.6"].installed # Unknown => steady.jobs \subseteq items["D4.6"].installed
<1>1. out # None
  BY NoneAssumption
<1>2. step = 16 /\ items["D4.6"] # None
  BY <1>1, PrintedHasAll DEF Probed
<1>3. CodeTyped(items["D4.6"])
  BY <1>2 DEF ReviewInv, ItemsTyped, ItemIs, Probed
<1>4. /\ items["D4.6"].installed = memo["installed"]
      /\ items["D4.6"].newer \in [DOMAIN memo["starts"] -> {Unknown} \cup SUBSET LoadedFiles]
  <2>. DEFINE d == items["D4.6"]
  <2>1. /\ d = [declared |-> memo["declared"], installed |-> memo["installed"],
                starts |-> memo["starts"], newer |-> d.newer]
        /\ d.newer \in [DOMAIN memo["starts"] -> {Unknown} \cup SUBSET LoadedFiles]
    BY <1>3 DEF CodeTyped
  <2>. HIDE DEF d
  <2>2. d.installed = memo["installed"]
    BY <2>1
  <2>. QED
    BY <2>1, <2>2 DEF d
<1>5. memo["installed"] # None
  BY <1>2 DEF ReviewInv, MemoTyped
<1>. QED
  BY <1>2, <1>4, <1>5 DEF ReviewInv, CodeOK, JobsOK

\* An item of the jobs has the lists that are kept, which are known.
LEMMA JobItemHas ==
    ASSUME ReviewInv, NEW i \in JobItems, items[i] \notin {None, Unknown}
    PROVE  /\ items[i].installed = memo["installed"] /\ memo["installed"] \in SUBSET Jobs
           /\ memo["installed"] \notin {None, Unknown}
           /\ items[i].installed \subseteq Heard /\ DOMAIN items[i].apps = Heard
           /\ \A j \in Heard : items[i].apps[j].installed = (j \in items[i].installed)
           /\ steady.jobs \subseteq items[i].installed
<1>. DEFINE d == items[i]
<1>1. JobTyped(i, d)
  BY DEF ReviewInv, ItemsTyped, ItemIs, Probed, JobItems
<1>. HIDE DEF d
<1>2. /\ d = [declared |-> memo["declared"], installed |-> memo["installed"],
              disk |-> memo["disk"], apps |-> d.apps]
      /\ {d.declared, d.installed, d.disk} \subseteq SUBSET Jobs
      /\ d.apps \in [Heard -> OfJob(i)]
      /\ \A j \in Heard : d.apps[j].installed = (j \in d.installed)
  BY <1>1 DEF JobTyped
<1>3. d.installed = memo["installed"] /\ d.installed \in SUBSET Jobs
  BY <1>2
<1>4. d.installed \notin {None, Unknown}
  BY <1>3, NoneAssumption
<1>5. DOMAIN d.apps = Heard
  BY <1>2
<1>6. d.installed \subseteq Heard
  BY <1>3 DEF Heard
<1>7. steady.jobs \subseteq d.installed
  BY <1>3, <1>4 DEF ReviewInv, JobsOK
<1>. QED
  BY <1>2, <1>3, <1>4, <1>5, <1>6, <1>7 DEF d

\* When the search for leaks was made with every value, as the items say, and
\* reports none, no entry that was in the journal from the start to the end holds
\* a value that was in its place all along, the short ones apart that no item
\* names; and no value that was read as a credential and is not short is printed,
\* nor what the redactor left of one: at most the beginning of one that was only
\* read when its line had been cut.
THEOREM SecretsInvAlways == Spec => []SecretsInv
<1>1. ReviewInv => NothingReadIsPrinted
  <2>. SUFFICES ASSUME ReviewInv, out = "printed", Redacted(Listing) \in Text,
                       Redacted(Listing).value \in Sought
                PROVE  /\ Redacted(Listing).part = "cut"
                       /\ ReadOnlyLater(Redacted(Listing).value)
    BY DEF NothingReadIsPrinted
  <2>1. /\ Listing \notin [value : Sought, part : {"whole"}]
        /\ Redacted(Listing) \notin [value : Sought, part : {"whole"}]
    BY DEF ReviewInv, PrintOK, HoldsSecret
  <2>2. items["D10.6"] # None
    BY NoneAssumption, PrintedHasAll DEF Probed
  <2>3. Listing \notin [value : Named, part : {"whole"}]
    <3>1. SUFFICES ASSUME Listing \in [value : Named, part : {"whole"}]
                   PROVE  FALSE
      OBVIOUS
    <3>2. Redacted(Listing) = [Listing EXCEPT !.part = "rest"]
      BY <3>1 DEF Redacted
    <3>3. Listing.value \in Sought
      BY <3>1, <3>2
    <3>. QED
      BY <2>1, <3>1, <3>3
  <2>4. Redacted(Listing) = Listing
    BY <2>3 DEF Redacted
  <2>5. Listing \in Text /\ Listing.value \in Sought
    BY <2>4
  <2>6. Listing.part # "whole"
    BY <2>1, <2>5 DEF Text
  <2>7. Listing.part = "cut"
    BY <2>2, <2>5, <2>6 DEF Text, ReviewInv, ListingOK
  <2>. QED
    BY <2>2, <2>4, <2>5, <2>7 DEF ReviewInv, ListingOK
<1>2. ReviewInv => LeakIsSeen
  <2>. SUFFICES ASSUME ReviewInv, out = "printed", NothingUnchecked,
                       items["D2.1"].unread = {}, items["D2.1"].short = {}, NoLeaksLine,
                       NEW i \in DOMAIN journal, gone + i <= steady.last
                PROVE  journal[i].leak \notin Searched
    BY DEF LeakIsSeen, Searched
  <2>1. out # None
    BY NoneAssumption
  <2>2. step = 16 /\ items["D2.1"] # None /\ items["D2.3"] # None /\ items["D4.1"] # None
    BY <2>1, PrintedHasAll DEF Probed
  <2>3. items["D2.1"] # Unknown /\ items["D2.3"] # Unknown /\ items["D4.1"] # Unknown
    BY DEF NothingUnchecked, AllObserved, Observed, Probed
  <2>4. items["D4.1"].states = memo["gateway"]
    BY <2>2, <2>3 DEF ReviewInv, ItemsTyped, ItemIs, Probed
  <2>5. memo["gateway"] = "measured"
    BY <2>2, <2>4 DEF NothingUnchecked, ReviewInv, MemoTyped
  <2>6. Gathered
    BY <2>2, <2>3, <2>5 DEF Gathered, NothingUnchecked
  <2>7. items["D2.3"].hits = 0
    BY DEF NoLeaksLine
  <2>. QED
    BY <2>2, <2>3, <2>6, <2>7 DEF ReviewInv, SearchOK
<1>. QED
  BY <1>1, <1>2, ReviewInvAlways, PTL DEF SecretsInv

\* Where the search reads ok, the journal was searched as far back as the bundle
\* says, although entries left it between the two reads.
THEOREM ReachIsSearchedAlways == Spec => []ReachIsSearched
<1>1. ReviewInv => ReachIsSearched
  <2>. SUFFICES ASSUME ReviewInv, out = "printed", SearchLine
                PROVE  items["D2.3"].oldest .. steady.last \subseteq items["D2.3"].entries
    BY DEF ReachIsSearched
  <2>1. out # None
    BY NoneAssumption
  <2>2. items["D2.3"] \notin {None, Unknown}
    BY <2>1, PrintedHasAll DEF Probed, SearchLine, Observed
  <2>. QED
    BY <2>2 DEF ReviewInv, SearchOK, SearchLine
<1>. QED
  BY <1>1, ReviewInvAlways, PTL

\* A service that ran older code than the box held from the start to the end is
\* never covered by an ok line, unless all that had changed when the collection
\* began changed in the very second of its start.
THEOREM StaleCodeIsSeenAlways == Spec => []StaleCodeIsSeen
<1>1. ReviewInv => StaleCodeIsSeen
  <2>. SUFFICES ASSUME ReviewInv, out = "printed", CodeLine,
                       NEW s \in steady.stale \ steady.same, s \in {"hermes-broker"} \cup steady.jobs
                PROVE  FALSE
    BY DEF StaleCodeIsSeen
  <2>1. /\ items["D4.6"].installed # Unknown
        /\ \A t \in {"hermes-broker"} \cup items["D4.6"].installed :
             t \in DOMAIN items["D4.6"].newer /\ items["D4.6"].newer[t] = {}
    BY DEF CodeLine
  <2>2. s \in {"hermes-broker"} \cup items["D4.6"].installed
    BY <2>1, PrintedCode
  <2>3. s \in DOMAIN memo["starts"] /\ items["D4.6"].newer[s] = {}
    BY <2>1, <2>2, PrintedCode
  <2>. QED
    BY <2>3, PrintedCode
<1>. QED
  BY <1>1, ReviewInvAlways, PTL

\* The items speak of one set of jobs, whatever came and went meanwhile, and an
\* ok line about the jobs judges every job that was installed all along.
THEOREM JobsInvAlways == Spec => []JobsInv
<1>1. ReviewInv => OneJobSet
  <2>. SUFFICES ASSUME ReviewInv PROVE OneJobSet
    OBVIOUS
  <2>1. \A i \in JobItems : items[i] \notin {None, Unknown} =>
          items[i].installed = memo["installed"] /\ DOMAIN items[i].apps = Heard
    BY JobItemHas
  <2>2. items["D4.6"] # None => items["D4.6"].installed = memo["installed"]
    <3>. DEFINE d == items["D4.6"]
    <3>1. ItemIs("D4.6")
      BY DEF ReviewInv, ItemsTyped, Probed
    <3>2. d # None => d = [declared |-> memo["declared"], installed |-> memo["installed"],
                           starts |-> memo["starts"], newer |-> d.newer]
      BY <3>1 DEF ItemIs, CodeTyped
    <3>. HIDE DEF d
    <3>3. d # None => d.installed = memo["installed"]
      BY <3>2
    <3>. QED
      BY <3>3 DEF d
  <2>. QED
    BY <2>1, <2>2 DEF OneJobSet
<1>2. ReviewInv => EveryJobIsJudged
  <2>. SUFFICES ASSUME ReviewInv, out = "printed", NEW j \in steady.jobs
                PROVE  /\ JobsLine => j \in items["D10.3"].declared /\ items["D10.3"].apps[j].whole
                       /\ RunOkLine => items["D10.8"].apps[j].value = TRUE /\ items["D10.8"].apps[j].whole
                       /\ NoLeaksLine => items["D10.7"].apps[j].value = 0 /\ items["D10.7"].apps[j].whole
                       /\ CodeLine => items["D4.6"].newer[j] = {}
    BY DEF EveryJobIsJudged
  <2>1. items["D10.3"] # None /\ items["D10.7"] # None /\ items["D10.8"] # None
    <3>1. out # None
      BY NoneAssumption
    <3>. QED
      BY <3>1, PrintedHasAll DEF Probed
  <2>2. ASSUME NEW i \in JobItems, items[i] # None, Observed(i)
        PROVE  j \in items[i].installed /\ j \in Judged(i)
    <3>1. items[i] \notin {None, Unknown}
      BY <2>2 DEF Observed
    <3>2. j \in items[i].installed /\ j \in DOMAIN items[i].apps /\ items[i].apps[j].installed
      BY <3>1, JobItemHas
    <3>. QED
      BY <3>2 DEF Judged
  <2>3. JobsLine => j \in items["D10.3"].declared /\ items["D10.3"].apps[j].whole
    <3>1. SUFFICES ASSUME JobsLine
                   PROVE  j \in items["D10.3"].declared /\ items["D10.3"].apps[j].whole
      OBVIOUS
    <3>2. /\ Observed("D10.3") /\ items["D10.3"].declared = items["D10.3"].installed
          /\ \A x \in Judged("D10.3") : Checked("D10.3", x)
      BY <3>1 DEF JobsLine
    <3>3. j \in items["D10.3"].installed /\ j \in Judged("D10.3")
      BY <2>1, <2>2, <3>2 DEF JobItems
    <3>. QED
      BY <3>2, <3>3 DEF Checked
  <2>4. ASSUME NEW i \in JobItems, items[i] # None, NEW good, EachJob(i, good)
        PROVE  items[i].apps[j].value = good /\ items[i].apps[j].whole
    <3>1. j \in Judged(i)
      BY <2>2, <2>4 DEF EachJob
    <3>. QED
      BY <2>4, <3>1 DEF EachJob, Checked
  <2>5. RunOkLine => items["D10.8"].apps[j].value = TRUE /\ items["D10.8"].apps[j].whole
    BY <2>1, <2>4 DEF RunOkLine, JobItems
  <2>6. NoLeaksLine => items["D10.7"].apps[j].value = 0 /\ items["D10.7"].apps[j].whole
    BY <2>1, <2>4 DEF NoLeaksLine, JobItems
  <2>7. CodeLine => items["D4.6"].newer[j] = {}
    BY PrintedCode DEF CodeLine
  <2>. QED
    BY <2>3, <2>5, <2>6, <2>7
<1>3. ReviewInv => TypeOK
  BY DEF ReviewInv
<1>. QED
  BY <1>1, <1>2, <1>3, ReviewInvAlways, PTL DEF JobsInv
=============================================================================
